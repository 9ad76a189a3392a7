-------------------------- MODULE Components_proofs --------------------------
(***************************************************************************)
(* The components that share no state.  The two readings of selection      *)
(* agree on every log a history leaves.  The instance cache serves what an *)
(* invalidation or a probe promises, the circuit breaker forgets no probe, *)
(* and the callback pool forgets no callback and runs those of one key one *)
(* after the other.  An explicit caller concludes from the answers its     *)
(* heartbeat has heard, and the turn over a large window from its copy of  *)
(* the journal of provider calls.                                          *)
(***************************************************************************)
EXTENDS MCComponents, PlaybookAggregation_proofs, WindowSelection_proofs

-----------------------------------------------------------------------------
(* Rows in order.                                                          *)

\* Rows of sequence numbers, the smallest first.
Ascends(list) ==
  list \in Seq(Nat) /\ \A i, j \in DOMAIN list : i < j => list[i] < list[j]

\* Positions and numbers of ascending rows run together.
LEMMA RowOrder ==
  ASSUME NEW list, Ascends(list)
  PROVE  /\ Len(list) \in Nat /\ DOMAIN list = 1..Len(list)
         /\ \A i \in 1..Len(list) : list[i] \in Nat
         /\ \A i, j \in 1..Len(list) : /\ list[i] < list[j] <=> i < j
                                       /\ list[i] = list[j] => i = j
<1>1. /\ Len(list) \in Nat /\ DOMAIN list = 1..Len(list)
      /\ \A i \in 1..Len(list) : list[i] \in Nat
      /\ \A i, j \in 1..Len(list) : i < j => list[i] < list[j]
  BY LenProperties DEF Ascends
<1>2. ASSUME NEW i \in 1..Len(list), NEW j \in 1..Len(list)
      PROVE  (list[i] < list[j] <=> i < j) /\ (list[i] = list[j] => i = j)
  <2>1. list[i] \in Nat /\ list[j] \in Nat
    BY <1>1
  <2>2. (i < j => list[i] < list[j]) /\ (j < i => list[j] < list[i])
    BY <1>1
  <2>. QED
    BY <2>1, <2>2
<1>. QED
  BY <1>1, <1>2

\* The numbers in a stretch of rows.
Stretch(list, m, n) == {list[j] : j \in m..n}

\* A stretch of ascending rows holds as many numbers as it has positions.
LEMMA StretchSize ==
  ASSUME NEW list, Ascends(list), NEW m \in Nat \ {0}, NEW n \in Nat,
         m <= n + 1, n <= Len(list)
  PROVE  /\ IsFiniteSet(Stretch(list, m, n))
         /\ Cardinality(Stretch(list, m, n)) = n - m + 1
<1>. DEFINE T == Stretch(list, m, n)
            g == [j \in m..n |-> list[j]]
<1>1. IsFiniteSet(m..n) /\ Cardinality(m..n) = n - m + 1
  <2>1. m \in Int /\ n \in Int
    OBVIOUS
  <2>2. IsFiniteSet(m..n) /\ Cardinality(m..n) = IF m > n THEN 0 ELSE n - m + 1
    BY <2>1, FS_Interval
  <2>3. m > n => n - m + 1 = 0
    OBVIOUS
  <2>. QED
    BY <2>2, <2>3
<1>2. m..n \subseteq 1..Len(list)
  BY RowOrder
<1>3. g \in Bijection(m..n, T)
  <2>1. g \in [m..n -> T] /\ \A t \in T : \E j \in m..n : g[j] = t
    BY DEF Stretch
  <2>2. \A i, j \in m..n : g[i] = g[j] => i = j
    BY <1>2, RowOrder
  <2>. QED
    BY <2>1, <2>2 DEF Bijection, Injection, Surjection, IsInjective
<1>. HIDE DEF g, T
<1>4. ExistsBijection(m..n, T)
  BY <1>3 DEF ExistsBijection
<1>. QED
  BY <1>1, <1>4, FS_Bijection DEF T

\* So many numbers come before a row, so many behind it.
LEMMA RowRank ==
  ASSUME NEW list, Ascends(list)
  PROVE  /\ ToSet(list) = Stretch(list, 1, Len(list))
         /\ ToSet(list) \in SUBSET Nat /\ IsFiniteSet(ToSet(list))
         /\ Cardinality(ToSet(list)) = Len(list)
         /\ \A i \in 1..Len(list) :
              /\ Cardinality({t \in ToSet(list) : t < list[i]}) = i - 1
              /\ Cardinality({t \in ToSet(list) : t > list[i]}) = Len(list) - i
<1>1. /\ Len(list) \in Nat /\ DOMAIN list = 1..Len(list)
      /\ \A i \in 1..Len(list) : list[i] \in Nat
      /\ \A i, j \in 1..Len(list) : list[i] < list[j] <=> i < j
  BY RowOrder
<1>2. ToSet(list) = Stretch(list, 1, Len(list)) /\ ToSet(list) \in SUBSET Nat
  BY <1>1 DEF ToSet, Stretch
<1>3. IsFiniteSet(ToSet(list)) /\ Cardinality(ToSet(list)) = Len(list)
  <2>. DEFINE n == Len(list)
              T == Stretch(list, 1, n)
  <2>1. n \in Nat /\ 1 \in Nat \ {0} /\ 1 <= n + 1 /\ n <= Len(list) /\ n - 1 + 1 = n
    BY <1>1
  <2>. HIDE DEF n
  <2>2. IsFiniteSet(T) /\ Cardinality(T) = n - 1 + 1
    BY <2>1, StretchSize
  <2>3. ToSet(list) = T
    BY <1>2 DEF n
  <2>. HIDE DEF T
  <2>. QED
    BY <2>1, <2>2, <2>3 DEF n
<1>4. ASSUME NEW i \in 1..Len(list)
      PROVE  Cardinality({t \in ToSet(list) : t < list[i]}) = i - 1
  <2>. DEFINE n == i - 1
              T == Stretch(list, 1, n)
  <2>1. n \in Nat /\ 1 \in Nat \ {0} /\ 1 <= n + 1 /\ n <= Len(list) /\ n - 1 + 1 = i - 1
    BY <1>1
  <2>2. {t \in ToSet(list) : t < list[i]} = T
    BY <1>1, <1>2 DEF Stretch
  <2>. HIDE DEF n
  <2>3. Cardinality(T) = n - 1 + 1
    BY <2>1, StretchSize
  <2>. HIDE DEF T
  <2>. QED
    BY <2>1, <2>2, <2>3
<1>5. ASSUME NEW i \in 1..Len(list)
      PROVE  Cardinality({t \in ToSet(list) : t > list[i]}) = Len(list) - i
  <2>. DEFINE m == i + 1
              n == Len(list)
              T == Stretch(list, m, n)
  <2>1. /\ m \in Nat \ {0} /\ n \in Nat /\ m <= n + 1 /\ n <= Len(list)
        /\ n - m + 1 = Len(list) - i
    BY <1>1
  <2>2. {t \in ToSet(list) : t > list[i]} = T
    <3>1. \A j \in 1..n : list[j] > list[i] <=> j \in m..n
      BY <1>1
    <3>2. \A j \in m..n : j \in 1..n
      BY <1>1
    <3>. HIDE DEF m, n
    <3>3. ToSet(list) = Stretch(list, 1, n)
      BY <1>2 DEF n
    <3>. QED
      BY <3>1, <3>2, <3>3 DEF Stretch
  <2>. HIDE DEF m, n
  <2>3. Cardinality(T) = n - m + 1
    BY <2>1, StretchSize
  <2>. HIDE DEF T
  <2>. QED
    BY <2>1, <2>2, <2>3
<1>. QED
  BY <1>2, <1>3, <1>4, <1>5

\* A stretch of ascending rows ascends.
LEMMA StretchAscends ==
  ASSUME NEW list, Ascends(list), NEW m \in Nat \ {0}, NEW n \in Nat,
         m <= n + 1, n <= Len(list)
  PROVE  /\ Ascends(SubSeq(list, m, n))
         /\ Len(SubSeq(list, m, n)) = n - m + 1
         /\ ToSet(SubSeq(list, m, n)) = Stretch(list, m, n)
<1>. DEFINE run == SubSeq(list, m, n)
<1>1. /\ Len(list) \in Nat
      /\ \A i \in 1..Len(list) : list[i] \in Nat
      /\ \A i, j \in 1..Len(list) : i < j => list[i] < list[j]
  BY RowOrder
<1>2. \A i \in m..n : list[i] \in Nat
  BY <1>1
<1>3. /\ run \in Seq(Nat) /\ Len(run) = n - m + 1
      /\ \A i \in 1..(n - m + 1) : run[i] = list[m + i - 1]
  <2>1. /\ SubSeq(list, m, n) \in Seq(Nat)
        /\ Len(SubSeq(list, m, n)) = IF m <= n THEN n - m + 1 ELSE 0
        /\ \A i \in 1..(n - m + 1) : SubSeq(list, m, n)[i] = list[m + i - 1]
    BY <1>2, SubSeqProperties
  <2>. QED
    BY <2>1
<1>. HIDE DEF run
<1>4. DOMAIN run = 1..(n - m + 1)
  BY <1>3, LenProperties
<1>5. Ascends(run)
  <2>1. ASSUME NEW i \in DOMAIN run, NEW j \in DOMAIN run, i < j PROVE run[i] < run[j]
    <3>1. m + i - 1 \in 1..Len(list) /\ m + j - 1 \in 1..Len(list) /\ m + i - 1 < m + j - 1
      BY <1>1, <1>4, <2>1
    <3>2. list[m + i - 1] < list[m + j - 1]
      BY <1>1, <3>1
    <3>3. run[i] = list[m + i - 1] /\ run[j] = list[m + j - 1]
      BY <1>3, <1>4
    <3>. QED
      BY <3>2, <3>3
  <2>. QED
    BY <1>3, <2>1 DEF Ascends
<1>6. ToSet(run) = Stretch(list, m, n)
  <2>1. ASSUME NEW i \in DOMAIN run PROVE m + i - 1 \in m..n /\ run[i] = list[m + i - 1]
    BY <1>3, <1>4
  <2>2. ASSUME NEW j \in m..n PROVE j - m + 1 \in DOMAIN run /\ run[j - m + 1] = list[j]
    <3>1. j - m + 1 \in 1..(n - m + 1) /\ m + (j - m + 1) - 1 = j
      OBVIOUS
    <3>. QED
      BY <1>3, <1>4, <3>1
  <2>3. ToSet(run) \subseteq Stretch(list, m, n)
    BY <2>1 DEF ToSet, Stretch
  <2>4. Stretch(list, m, n) \subseteq ToSet(run)
    BY <2>2 DEF ToSet, Stretch
  <2>. QED
    BY <2>3, <2>4
<1>. QED
  BY <1>3, <1>5, <1>6 DEF run

\* A slice at the front takes the smallest numbers.
LEMMA HeadIsEarliest ==
  ASSUME NEW list, Ascends(list), NEW n \in Nat
  PROVE  /\ Ascends(Head_n(list, n))
         /\ ToSet(Head_n(list, n)) = Earliest(ToSet(list), n)
<1>. DEFINE m == IF n < Len(list) THEN n ELSE Len(list)
<1>1. Len(list) \in Nat /\ m \in Nat /\ m <= Len(list) /\ 1 <= m + 1
  BY RowOrder
<1>2. Head_n(list, n) = SubSeq(list, 1, m)
  BY DEF Head_n
<1>. HIDE DEF m
<1>3. /\ Ascends(Head_n(list, n))
      /\ ToSet(Head_n(list, n)) = Stretch(list, 1, m)
  BY <1>1, <1>2, StretchAscends
<1>4. /\ ToSet(list) = Stretch(list, 1, Len(list))
      /\ \A i \in 1..Len(list) : Cardinality({t \in ToSet(list) : t < list[i]}) = i - 1
  BY RowRank
<1>5. \A i \in 1..Len(list) : i - 1 < n <=> i \in 1..m
  BY <1>1 DEF m
<1>6. Earliest(ToSet(list), n) = Stretch(list, 1, m)
  <2>1. Earliest(ToSet(list), n) \subseteq Stretch(list, 1, m)
    BY <1>4, <1>5 DEF Earliest, Stretch
  <2>2. Stretch(list, 1, m) \subseteq Earliest(ToSet(list), n)
    <3>1. \A j \in 1..m : j \in 1..Len(list)
      BY <1>1
    <3>. QED
      BY <1>4, <1>5, <3>1 DEF Earliest, Stretch
  <2>. QED
    BY <2>1, <2>2
<1>. QED
  BY <1>3, <1>6

\* A slice at the end takes the greatest.
LEMMA TailIsLatest ==
  ASSUME NEW list, Ascends(list), NEW n \in Nat
  PROVE  /\ Ascends(Tail_n(list, n))
         /\ ToSet(Tail_n(list, n)) = Latest(ToSet(list), n)
<1>. DEFINE m == (IF n < Len(list) THEN Len(list) - n ELSE 0) + 1
<1>1. Len(list) \in Nat /\ m \in Nat \ {0} /\ m <= Len(list) + 1
  BY RowOrder
<1>2. Tail_n(list, n) = SubSeq(list, m, Len(list))
  BY DEF Tail_n
<1>3. \A i \in 1..Len(list) : Len(list) - i < n <=> i \in m..Len(list)
  BY <1>1
<1>. HIDE DEF m
<1>4. /\ Ascends(Tail_n(list, n))
      /\ ToSet(Tail_n(list, n)) = Stretch(list, m, Len(list))
  BY <1>1, <1>2, StretchAscends
<1>5. /\ ToSet(list) = Stretch(list, 1, Len(list))
      /\ \A i \in 1..Len(list) : Cardinality({t \in ToSet(list) : t > list[i]}) = Len(list) - i
  BY RowRank
<1>6. Latest(ToSet(list), n) = Stretch(list, m, Len(list))
  <2>1. Latest(ToSet(list), n) \subseteq Stretch(list, m, Len(list))
    BY <1>3, <1>5 DEF Latest, Stretch
  <2>2. Stretch(list, m, Len(list)) \subseteq Latest(ToSet(list), n)
    <3>1. \A j \in m..Len(list) : j \in 1..Len(list)
      BY <1>1
    <3>. QED
      BY <1>3, <1>5, <3>1 DEF Latest, Stretch
  <2>. QED
    BY <2>1, <2>2
<1>. QED
  BY <1>4, <1>6

\* Rows behind other rows go on ascending.
LEMMA JoinAscends ==
  ASSUME NEW f, Ascends(f), NEW g, Ascends(g), \A s \in ToSet(f), t \in ToSet(g) : s < t
  PROVE  /\ Ascends(f \o g)
         /\ ToSet(f \o g) = ToSet(f) \cup ToSet(g)
<1>. DEFINE h == f \o g
<1>1. /\ Len(f) \in Nat /\ DOMAIN f = 1..Len(f) /\ Len(g) \in Nat /\ DOMAIN g = 1..Len(g)
      /\ \A i, j \in 1..Len(f) : i < j => f[i] < f[j]
      /\ \A i, j \in 1..Len(g) : i < j => g[i] < g[j]
  BY RowOrder
<1>2. /\ h \in Seq(Nat) /\ Len(h) = Len(f) + Len(g)
      /\ \A i \in 1..(Len(f) + Len(g)) : h[i] = IF i <= Len(f) THEN f[i] ELSE g[i - Len(f)]
  <2>1. f \in Seq(Nat) /\ g \in Seq(Nat)
    BY DEF Ascends
  <2>. QED
    BY <2>1, ConcatProperties
<1>. HIDE DEF h
<1>3. DOMAIN h = 1..(Len(f) + Len(g))
  BY <1>2, LenProperties
<1>4. ASSUME NEW i \in DOMAIN h
      PROVE  \/ i \in DOMAIN f /\ h[i] = f[i]
             \/ i > Len(f) /\ i - Len(f) \in DOMAIN g /\ h[i] = g[i - Len(f)]
  BY <1>1, <1>2, <1>3
<1>5. Ascends(h)
  <2>1. ASSUME NEW i \in DOMAIN h, NEW j \in DOMAIN h, i < j PROVE h[i] < h[j]
    <3>1. CASE i \in DOMAIN f /\ j \in DOMAIN f
      BY <1>1, <1>2, <1>3, <2>1, <3>1
    <3>2. CASE i \in DOMAIN f /\ j > Len(f)
      <4>1. h[i] \in ToSet(f) /\ h[j] \in ToSet(g)
        BY <1>1, <1>4, <3>2 DEF ToSet
      <4>. QED
        BY <4>1
    <3>3. CASE i > Len(f) /\ j > Len(f)
      <4>1. /\ i - Len(f) \in 1..Len(g) /\ j - Len(f) \in 1..Len(g)
            /\ i - Len(f) < j - Len(f)
        BY <1>1, <1>3, <2>1, <3>3
      <4>2. g[i - Len(f)] < g[j - Len(f)]
        BY <1>1, <4>1
      <4>3. h[i] = g[i - Len(f)] /\ h[j] = g[j - Len(f)]
        <5>1. ~ (i \in DOMAIN f) /\ ~ (j \in DOMAIN f)
          BY <1>1, <1>3, <3>3
        <5>. QED
          BY <1>4, <5>1
      <4>. QED
        BY <4>2, <4>3
    <3>. QED
      BY <1>1, <1>3, <2>1, <3>1, <3>2, <3>3
  <2>. QED
    BY <1>2, <2>1 DEF Ascends
<1>6. ToSet(h) = ToSet(f) \cup ToSet(g)
  <2>1. ToSet(h) \subseteq ToSet(f) \cup ToSet(g)
    BY <1>4 DEF ToSet
  <2>2. ASSUME NEW i \in DOMAIN f PROVE i \in DOMAIN h /\ h[i] = f[i]
    BY <1>1, <1>2, <1>3
  <2>3. ASSUME NEW i \in DOMAIN g PROVE Len(f) + i \in DOMAIN h /\ h[Len(f) + i] = g[i]
    <3>1. /\ Len(f) + i \in 1..(Len(f) + Len(g)) /\ ~ (Len(f) + i <= Len(f))
          /\ (Len(f) + i) - Len(f) = i
      BY <1>1
    <3>. QED
      BY <1>2, <1>3, <3>1
  <2>. QED
    BY <2>1, <2>2, <2>3 DEF ToSet
<1>. QED
  BY <1>5, <1>6 DEF h

\* Every finite set of sequence numbers has its rows.
LEMMA RowsAscend ==
  ASSUME NEW b \in Nat, NEW S \in SUBSET (0..b)
  PROVE  Ascends(Rows(S)) /\ ToSet(Rows(S)) = S
<1>. DEFINE n == Cardinality(S)
            below(x) == {t \in S : t < x}
            nth == [i \in 1..n |-> CHOOSE s \in S : Cardinality(below(s)) = i - 1]
            ordered(list) == \A i, j \in DOMAIN list : i < j => list[i] < list[j]
<1>1. S \in SUBSET Nat /\ IsFiniteSet(S) /\ n \in Nat
  <2>1. S \in SUBSET Nat /\ \A s \in S : s <= b
    OBVIOUS
  <2>. QED
    BY <2>1, FS_BoundedSetOfNaturals, FS_CardinalityType
<1>2. \A x \in S : IsFiniteSet(below(x)) /\ Cardinality(below(x)) \in Nat
  BY <1>1, BelowIsFinite
<1>. HIDE DEF n
<1>3. ASSUME NEW i \in 1..n PROVE \E s \in S : Cardinality(below(s)) = i - 1
  <2>. DEFINE E == Earliest(S, i - 1)
              F == Earliest(S, i)
  <2>0. i \in Nat /\ i - 1 \in Nat
    BY <1>1
  <2>1. /\ i \in Nat /\ i - 1 \in Nat
        /\ IsFiniteSet(E) /\ Cardinality(E) \in Nat /\ Cardinality(E) <= i - 1
        /\ IsFiniteSet(F) /\ Cardinality(F) \in Nat
        /\ Cardinality(F) = i \/ S \subseteq F
    <3>1. /\ IsFiniteSet(E) /\ Cardinality(E) \in Nat /\ Cardinality(E) <= i - 1
      BY <2>0, EarliestSize
    <3>2. /\ IsFiniteSet(F) /\ Cardinality(F) \in Nat
          /\ Cardinality(F) = i \/ S \subseteq F
      BY <2>0, EarliestSize
    <3>. QED
      BY <2>0, <3>1, <3>2
  <2>2. Cardinality(F) >= i
    <3>. HIDE DEF F
    <3>1. CASE S \subseteq F
      <4>1. n <= Cardinality(F)
        BY <2>1, <3>1, FS_Subset DEF n
      <4>. QED
        BY <1>1, <2>1, <4>1
    <3>. QED
      BY <2>1, <3>1
  <2>3. ~ (F \subseteq E)
    <3>. HIDE DEF E, F
    <3>1. F \subseteq E => Cardinality(F) <= Cardinality(E)
      BY <2>1, FS_Subset
    <3>. QED
      BY <2>1, <2>2, <3>1
  <2>4. PICK s \in F : s \notin E
    BY <2>3
  <2>5. s \in S /\ Cardinality(below(s)) < i /\ ~ (Cardinality(below(s)) < i - 1)
    BY <2>4 DEF Earliest
  <2>. HIDE DEF below
  <2>6. Cardinality(below(s)) = i - 1
    BY <1>2, <2>1, <2>5
  <2>. QED
    BY <2>5, <2>6
<1>4. \A i \in 1..n : nth[i] \in S /\ Cardinality(below(nth[i])) = i - 1
  BY <1>3
<1>5. nth \in [1..n -> S] /\ DOMAIN nth = 1..n
  BY <1>4
<1>. HIDE DEF nth
<1>6. ordered(nth)
  <2>. SUFFICES ASSUME NEW i \in 1..n, NEW j \in 1..n, i < j PROVE nth[i] < nth[j]
    BY <1>5
  <2>1. /\ nth[i] \in Nat /\ nth[j] \in Nat /\ nth[i] \in S /\ nth[j] \in S
        /\ Cardinality(below(nth[i])) = i - 1 /\ Cardinality(below(nth[j])) = j - 1
    BY <1>1, <1>4
  <2>2. ASSUME nth[j] <= nth[i] PROVE FALSE
    <3>1. below(nth[j]) \in SUBSET below(nth[i])
      <4>1. ASSUME NEW t \in S, t < nth[j] PROVE t < nth[i]
        BY <1>1, <2>1, <2>2, <4>1
      <4>. QED
        BY <4>1
    <3>2. IsFiniteSet(below(nth[i]))
      BY <1>2, <2>1
    <3>. HIDE DEF below
    <3>3. Cardinality(below(nth[j])) <= Cardinality(below(nth[i]))
      BY <3>1, <3>2, FS_Subset
    <3>. QED
      BY <1>1, <2>1, <3>3
  <2>. QED
    BY <2>1, <2>2
<1>7. Rows(S) = CHOOSE list \in [1..n -> S] : ordered(list)
  BY DEF Rows, n
<1>8. Rows(S) \in [1..n -> S] /\ ordered(Rows(S))
  <2>. HIDE DEF ordered
  <2>. QED
    BY <1>5, <1>6, <1>7
<1>9. Ascends(Rows(S))
  <2>1. Rows(S) \in Seq(S)
    BY <1>1, <1>8, SeqDef
  <2>2. Rows(S) \in Seq(Nat)
    BY <1>1, <2>1, SeqMonotonic
  <2>. QED
    BY <1>8, <2>2 DEF Ascends
<1>10. ToSet(Rows(S)) \subseteq S
  BY <1>8 DEF ToSet
<1>11. Len(Rows(S)) = n
  <2>1. DOMAIN Rows(S) = 1..n /\ DOMAIN Rows(S) = 1..Len(Rows(S)) /\ Len(Rows(S)) \in Nat
    BY <1>8, <1>9, RowOrder
  <2>. QED
    BY <1>1, <2>1
<1>12. Cardinality(ToSet(Rows(S))) = Cardinality(S)
  BY <1>9, <1>11, RowRank DEF n
<1>13. ToSet(Rows(S)) = S
  BY <1>1, <1>10, <1>12, FS_Subset
<1>. QED
  BY <1>9, <1>13

-----------------------------------------------------------------------------
(* The two readings of selection agree.                                    *)

\* What every history of the log keeps: requests lie one behind the other with
\* policies that slide by at most their width, and every input is one of theirs.
HistoryInv ==
  /\ requests \in Seq(Request) /\ Ordered(requests) /\ Sliding(requests)
  /\ Highwater \in Nat
  /\ \A i \in DOMAIN requests : 1 <= requests[i].first /\ requests[i].last <= Highwater
  /\ live \subseteq 1..Highwater
  /\ \A s \in live : \E i \in DOMAIN requests : s \in SeqsOf(requests[i])
  /\ after \in Nat /\ started \in BOOLEAN

PendingNow  == Pending(requests, live, Kind, after)
ConsumedNow == Consumed(requests, live, Kind, after)
VisibleNow  == Visible(requests, live, Kind, after)
PolicyNow   == Policy(requests, live, Kind, after)
NeededNow   == Needed(requests, live, Kind, after, started)
BarriersNow == Barriers(requests, live, Kind, after, started)

\* A row joins the one request that admitted it.
LEMMA OwnerIsKnown ==
  ASSUME HistoryInv, NEW s \in live
  PROVE  /\ OwnerOf(s) \in DOMAIN requests /\ s \in SeqsOf(requests[OwnerOf(s)])
         /\ \A i \in DOMAIN requests : s \in SeqsOf(requests[i]) => i = OwnerOf(s)
<1>1. \E i \in DOMAIN requests : s \in SeqsOf(requests[i])
  BY DEF HistoryInv
<1>2. OwnerOf(s) \in DOMAIN requests /\ s \in SeqsOf(requests[OwnerOf(s)])
  BY <1>1 DEF OwnerOf
<1>. QED
  BY <1>2, OneOwner DEF HistoryInv

\* What the join finds.
LEMMA SameInputs ==
  ASSUME HistoryInv
  PROVE  /\ Eligible = Inputs(requests, live, Kind)
         /\ {s \in Eligible : s > after} = PendingNow
         /\ {s \in Eligible : s <= after} = ConsumedNow
         /\ PendingNow \in SUBSET (0..Highwater) /\ ConsumedNow \in SUBSET (0..Highwater)
         /\ live \in SUBSET (0..Highwater) /\ Highwater \in Nat
         /\ PendingNow \subseteq live
<1>1. Eligible \subseteq Inputs(requests, live, Kind)
  BY OwnerIsKnown DEF Eligible, Inputs
<1>2. Inputs(requests, live, Kind) \subseteq Eligible
  <2>. SUFFICES ASSUME NEW i \in DOMAIN requests, Kind \in requests[i].eligible,
                       NEW s \in SeqsOf(requests[i]) \cap live
                PROVE  s \in Eligible
    BY DEF Inputs
  <2>. QED
    BY OwnerIsKnown DEF Eligible
<1>3. Inputs(requests, live, Kind) \subseteq live
  BY DEF Inputs
<1>4. live \in SUBSET (0..Highwater) /\ Highwater \in Nat
  BY DEF HistoryInv
<1>. QED
  BY <1>1, <1>2, <1>3, <1>4 DEF PendingNow, ConsumedNow, Pending, Consumed

\* The rows read are the inputs behind the cursor, and those before it.
LEMMA SamePending ==
  ASSUME HistoryInv
  PROVE  /\ Ascends(PendingRows) /\ ToSet(PendingRows) = PendingNow
         /\ Ascends(Rows({s \in Eligible : s <= after}))
         /\ ToSet(Rows({s \in Eligible : s <= after})) = ConsumedNow
         /\ PendingRows = <<>> <=> PendingNow = {}
<1>1. /\ Ascends(PendingRows) /\ ToSet(PendingRows) = PendingNow
      /\ Ascends(Rows({s \in Eligible : s <= after}))
      /\ ToSet(Rows({s \in Eligible : s <= after})) = ConsumedNow
  BY SameInputs, RowsAscend DEF PendingRows
<1>2. ASSUME PendingRows = <<>> PROVE PendingNow = {}
  <2>1. DOMAIN PendingRows = {}
    BY <1>2
  <2>. QED
    BY <1>1, <2>1 DEF ToSet
<1>3. ASSUME PendingRows # <<>> PROVE PendingNow # {}
  <2>1. PendingRows \in Seq(Nat)
    BY <1>1 DEF Ascends
  <2>2. Len(PendingRows) \in Nat \ {0} /\ DOMAIN PendingRows = 1..Len(PendingRows)
    BY <1>3, <2>1, EmptySeq, LenProperties
  <2>3. 1 \in DOMAIN PendingRows
    BY <2>2
  <2>4. PendingRows[1] \in ToSet(PendingRows)
    BY <2>3 DEF ToSet
  <2>. QED
    BY <1>1, <2>4
<1>. QED
  BY <1>1, <1>2, <1>3

\* The first row's request gives the policy.
LEMMA SameJudge ==
  ASSUME HistoryInv, PendingNow # {}
  PROVE  /\ RowPolicy = PolicyNow
         /\ PolicyNow.width \in Nat \ {0} /\ PolicyNow.stride \in Nat
         /\ NeededNow \in Nat
<1>1. /\ Ascends(PendingRows) /\ ToSet(PendingRows) = PendingNow /\ PendingRows # <<>>
      /\ live \in SUBSET (0..Highwater) /\ Highwater \in Nat /\ live \in SUBSET Nat
      /\ PendingNow \subseteq live
  <2>1. live \in SUBSET (0..Highwater) => live \in SUBSET Nat
    OBVIOUS
  <2>. QED
    BY <2>1, SamePending, SameInputs
<1>2. PICK i \in DOMAIN requests, s \in PendingNow :
        /\ IsLeast(s, PendingNow) /\ s \in SeqsOf(requests[i]) /\ PolicyNow = requests[i]
  BY <1>1, PolicyOfFirst DEF HistoryInv, PendingNow, PolicyNow
<1>3. s = PendingRows[1]
  <2>1. /\ Len(PendingRows) \in Nat /\ DOMAIN PendingRows = 1..Len(PendingRows)
        /\ \A j \in 1..Len(PendingRows) : PendingRows[j] \in Nat
        /\ \A j, m \in 1..Len(PendingRows) : PendingRows[j] < PendingRows[m] <=> j < m
    BY <1>1, RowOrder
  <2>2. PICK j \in 1..Len(PendingRows) : s = PendingRows[j]
    BY <1>1, <2>1 DEF ToSet
  <2>3. 1 \in 1..Len(PendingRows) /\ PendingRows[1] \in PendingNow
    BY <1>1, <2>1, <2>2 DEF ToSet
  <2>4. s <= PendingRows[1]
    BY <1>2, <2>3 DEF IsLeast
  <2>5. ~ (PendingRows[1] < PendingRows[j])
    BY <2>1, <2>2, <2>3, <2>4
  <2>6. j = 1
    BY <2>1, <2>2, <2>3, <2>5
  <2>. QED
    BY <2>2, <2>6
<1>4. OwnerOf(s) = i
  BY <1>1, <1>2, OwnerIsKnown
<1>5. RowPolicy = PolicyNow
  BY <1>2, <1>3, <1>4 DEF RowPolicy
<1>6. PolicyNow.width \in Nat /\ PolicyNow.stride \in Nat
  BY <1>1, PolicyIsAdmitted DEF HistoryInv, PendingNow, PolicyNow
<1>7. PolicyNow.width \in Nat \ {0} /\ NeededNow \in Nat
  BY <1>1, NeededIsPositive DEF HistoryInv, PendingNow, PolicyNow, NeededNow
<1>. QED
  BY <1>5, <1>6, <1>7

\* The slices are the selected sets, and as long as those are large.
LEMMA SameSlices ==
  ASSUME HistoryInv, PendingNow # {}
  PROVE  /\ Ascends(ContextRows) /\ ToSet(ContextRows) = Latest(ConsumedNow, PolicyNow.width)
         /\ Ascends(VisibleRows) /\ ToSet(VisibleRows) = VisibleNow
         /\ RowsNeeded = NeededNow
         /\ Len(VisibleRows) \in Nat
         /\ Len(VisibleRows) < RowsNeeded <=> Short(requests, live, Kind, after, started)
         /\ VisibleNow \subseteq PendingNow
<1>1. RowPolicy = PolicyNow /\ PolicyNow.width \in Nat /\ PolicyNow.stride \in Nat
  BY SameJudge
<1>2. Ascends(ContextRows) /\ ToSet(ContextRows) = Latest(ConsumedNow, PolicyNow.width)
  BY <1>1, SamePending, TailIsLatest DEF ContextRows
<1>3. VisibleNow = Earliest(PendingNow, PolicyNow.width)
  BY DEF VisibleNow, Visible, PendingNow, PolicyNow
<1>4. Ascends(VisibleRows) /\ ToSet(VisibleRows) = VisibleNow
  BY <1>1, <1>3, SamePending, HeadIsEarliest DEF VisibleRows
<1>5. /\ Len(ContextRows) = Cardinality(Latest(ConsumedNow, PolicyNow.width))
      /\ Len(ContextRows) \in Nat
      /\ Len(VisibleRows) = Cardinality(VisibleNow) /\ Len(VisibleRows) \in Nat
  BY <1>2, <1>4, RowRank, RowOrder
<1>6. RowsNeeded = NeededNow
  <2>1. NeededNow = LET rest == PolicyNow.width - Len(ContextRows)
                    IN  IF started /\ PolicyNow.stride > rest THEN PolicyNow.stride
                        ELSE IF started THEN rest ELSE PolicyNow.width
    BY <1>5 DEF NeededNow, Needed, PolicyNow, ConsumedNow
  <2>2. RowsNeeded = LET rest == PolicyNow.width - Len(ContextRows)
                     IN  IF ~started THEN PolicyNow.width
                         ELSE IF PolicyNow.stride >= rest THEN PolicyNow.stride ELSE rest
    BY <1>1 DEF RowsNeeded
  <2>3. PolicyNow.width - Len(ContextRows) \in Int /\ started \in BOOLEAN
    BY <1>1, <1>5 DEF HistoryInv
  <2>. QED
    BY <1>1, <2>1, <2>2, <2>3
<1>7. Len(VisibleRows) < RowsNeeded <=> Short(requests, live, Kind, after, started)
  BY <1>5, <1>6 DEF Short, VisibleNow, NeededNow
<1>8. VisibleNow \subseteq PendingNow
  BY <1>3, PicksAreMembers
<1>. QED
  BY <1>2, <1>4, <1>5, <1>6, <1>7, <1>8

\* The minimum a query returns is the least of its ends.
LEMMA FirstOf ==
  ASSUME NEW bar \in Nat, NEW ends \in SUBSET Nat
  PROVE  /\ bar # 0 \/ ends = {} => OrFirst(bar, ends) = bar
         /\ bar = 0 /\ ends # {} => IsLeast(OrFirst(bar, ends), ends)
<1>1. ASSUME bar = 0, ends # {} PROVE IsLeast(OrFirst(bar, ends), ends)
  <2>1. PICK e \in ends : \A f \in ends : e <= f
    BY <1>1, LeastExists DEF IsLeast
  <2>2. OrFirst(bar, ends) = CHOOSE x \in ends : \A f \in ends : x <= f
    BY <1>1 DEF OrFirst
  <2>. QED
    BY <2>1, <2>2 DEF IsLeast
<1>. QED
  BY <1>1 DEF OrFirst

\* The requests with a visible row.
LEMMA SameOwners ==
  ASSUME HistoryInv, PendingNow # {}
  PROVE  Seen = Owners(requests, VisibleNow)
<1>1. /\ ToSet(VisibleRows) = VisibleNow /\ VisibleNow \subseteq live
  BY SameSlices, SameInputs
<1>2. Seen = {OwnerOf(s) : s \in VisibleNow}
  BY <1>1 DEF Seen, ToSet
<1>3. \A s \in VisibleNow : OwnerOf(s) \in Owners(requests, VisibleNow)
  BY <1>1, OwnerIsKnown DEF Owners
<1>4. ASSUME NEW i \in Owners(requests, VisibleNow) PROVE \E s \in VisibleNow : OwnerOf(s) = i
  <2>1. i \in DOMAIN requests
    BY DEF Owners
  <2>2. PICK s \in SeqsOf(requests[i]) : s \in VisibleNow
    BY DEF Owners
  <2>. QED
    BY <1>1, <2>1, <2>2, OwnerIsKnown
<1>. QED
  BY <1>2, <1>3, <1>4

\* What ends a batch, as rows tell it and as sets do.
LEMMA SameEnds ==
  ASSUME HistoryInv, PendingNow # {}
  PROVE  /\ {requests[OwnerOf(s)].last : s \in
                {t \in Eligible : t > after /\ requests[OwnerOf(t)].force}}
              = ForcedEnds(requests, live, Kind, after)
         /\ {requests[r].last : r \in
                {q \in DOMAIN requests :
                   /\ requests[q].finished
                   /\ \E s \in Eligible : /\ after < s /\ s <= requests[q].last
                                          /\ requests[OwnerOf(s)].session = requests[q].session}}
              = FinishedEnds(requests, live, Kind, after)
         /\ (IF \E i \in Seen : requests[i].wait = "due"
             THEN {VisibleRows[Len(VisibleRows)]} ELSE {}) = BatchEnds(requests, VisibleNow)
         /\ {requests[r].last : r \in
                {q \in DOMAIN requests :
                   /\ \A m \in DOMAIN requests :
                        requests[m].session = requests[q].session => m <= q
                   /\ \E i \in Seen : requests[i].session = requests[q].session
                   /\ requests[q].idle = "due"}}
              = IdleEnds(requests, VisibleNow)
<1>1. \A s \in live : /\ OwnerOf(s) \in DOMAIN requests /\ s \in SeqsOf(requests[OwnerOf(s)])
                      /\ \A i \in DOMAIN requests : s \in SeqsOf(requests[i]) => i = OwnerOf(s)
  BY OwnerIsKnown
<1>2. {requests[OwnerOf(s)].last : s \in {t \in Eligible : t > after /\ requests[OwnerOf(t)].force}}
        = ForcedEnds(requests, live, Kind, after)
  <2>. DEFINE F == {t \in Eligible : t > after /\ requests[OwnerOf(t)].force}
              G == {j \in DOMAIN requests :
                      /\ requests[j].force /\ Kind \in requests[j].eligible
                      /\ \E s \in SeqsOf(requests[j]) \cap live : s > after}
  <2>1. \A s \in F : OwnerOf(s) \in G
    BY <1>1 DEF Eligible
  <2>2. ASSUME NEW j \in G PROVE \E s \in F : OwnerOf(s) = j
    <3>1. PICK s \in SeqsOf(requests[j]) \cap live : s > after
      OBVIOUS
    <3>2. OwnerOf(s) = j
      BY <1>1, <3>1
    <3>. QED
      BY <3>1, <3>2 DEF Eligible
  <2>3. ForcedEnds(requests, live, Kind, after) = {requests[j].last : j \in G}
    BY DEF ForcedEnds
  <2>. HIDE DEF F, G
  <2>4. {requests[OwnerOf(s)].last : s \in F} = {requests[j].last : j \in G}
    BY <2>1, <2>2
  <2>. QED
    BY <2>3, <2>4 DEF F
<1>3. {requests[r].last : r \in
         {q \in DOMAIN requests :
            /\ requests[q].finished
            /\ \E s \in Eligible : /\ after < s /\ s <= requests[q].last
                                   /\ requests[OwnerOf(s)].session = requests[q].session}}
        = FinishedEnds(requests, live, Kind, after)
  <2>1. ASSUME NEW q \in DOMAIN requests
        PROVE  (\E s \in Eligible : /\ after < s /\ s <= requests[q].last
                                    /\ requests[OwnerOf(s)].session = requests[q].session)
               <=> \E m \in DOMAIN requests :
                     /\ requests[m].session = requests[q].session /\ Kind \in requests[m].eligible
                     /\ \E s \in SeqsOf(requests[m]) \cap live : after < s /\ s <= requests[q].last
    <3>1. ASSUME NEW s \in Eligible, after < s, s <= requests[q].last,
                 requests[OwnerOf(s)].session = requests[q].session
          PROVE  \E m \in DOMAIN requests :
                   /\ requests[m].session = requests[q].session /\ Kind \in requests[m].eligible
                   /\ \E t \in SeqsOf(requests[m]) \cap live : after < t /\ t <= requests[q].last
      BY <1>1, <3>1 DEF Eligible
    <3>2. ASSUME NEW m \in DOMAIN requests, requests[m].session = requests[q].session,
                 Kind \in requests[m].eligible,
                 NEW s \in SeqsOf(requests[m]) \cap live, after < s, s <= requests[q].last
          PROVE  s \in Eligible /\ requests[OwnerOf(s)].session = requests[q].session
      BY <1>1, <3>2 DEF Eligible
    <3>. QED
      BY <3>1, <3>2
  <2>. QED
    BY <2>1 DEF FinishedEnds
<1>4. Seen = Owners(requests, VisibleNow)
  BY SameOwners
<1>5. (IF \E i \in Seen : requests[i].wait = "due"
       THEN {VisibleRows[Len(VisibleRows)]} ELSE {}) = BatchEnds(requests, VisibleNow)
  <2>. SUFFICES ASSUME \E i \in Seen : requests[i].wait = "due"
                PROVE  {VisibleRows[Len(VisibleRows)]} = {s \in VisibleNow : IsGreatest(s, VisibleNow)}
    BY <1>4 DEF BatchEnds
  <2>1. /\ Ascends(VisibleRows) /\ ToSet(VisibleRows) = VisibleNow
        /\ Len(VisibleRows) \in Nat /\ DOMAIN VisibleRows = 1..Len(VisibleRows)
        /\ \A i \in 1..Len(VisibleRows) : VisibleRows[i] \in Nat
        /\ \A i, j \in 1..Len(VisibleRows) : VisibleRows[i] < VisibleRows[j] <=> i < j
    BY SameSlices, RowOrder
  <2>2. Len(VisibleRows) \in 1..Len(VisibleRows)
    <3>1. DOMAIN VisibleRows # {}
      BY DEF Seen
    <3>. QED
      BY <2>1, <3>1
  <2>3. VisibleRows[Len(VisibleRows)] \in VisibleNow
    BY <2>1, <2>2 DEF ToSet
  <2>4. ASSUME NEW s \in VisibleNow PROVE s <= VisibleRows[Len(VisibleRows)] /\ s \in Nat
    <3>1. PICK i \in 1..Len(VisibleRows) : s = VisibleRows[i]
      BY <2>1 DEF ToSet
    <3>2. ~ (Len(VisibleRows) < i) /\ VisibleRows[i] \in Nat
          /\ VisibleRows[Len(VisibleRows)] \in Nat
      BY <2>1, <2>2, <3>1
    <3>3. ~ (VisibleRows[Len(VisibleRows)] < VisibleRows[i])
      BY <2>1, <2>2, <3>1, <3>2
    <3>. QED
      BY <3>1, <3>2, <3>3
  <2>5. \A s \in VisibleNow : IsGreatest(s, VisibleNow) => s = VisibleRows[Len(VisibleRows)]
    BY <2>3, <2>4 DEF IsGreatest
  <2>6. IsGreatest(VisibleRows[Len(VisibleRows)], VisibleNow)
    BY <2>3, <2>4 DEF IsGreatest
  <2>. QED
    BY <2>3, <2>5, <2>6
<1>6. {requests[r].last : r \in
         {q \in DOMAIN requests :
            /\ \A m \in DOMAIN requests : requests[m].session = requests[q].session => m <= q
            /\ \E i \in Seen : requests[i].session = requests[q].session
            /\ requests[q].idle = "due"}}
        = IdleEnds(requests, VisibleNow)
  <2>1. ASSUME NEW q
        PROVE  q \in SessionTails(requests, VisibleNow)
               <=> /\ q \in DOMAIN requests
                   /\ \A m \in DOMAIN requests : requests[m].session = requests[q].session => m <= q
                   /\ \E i \in Seen : requests[i].session = requests[q].session
    BY <1>4 DEF SessionTails, LatestOfSession
  <2>. QED
    BY <2>1 DEF IdleEnds
<1>. QED
  BY <1>2, <1>3, <1>5, <1>6

\* Every end of a batch is the number of an accepted input.
LEMMA EndsArePositive ==
  ASSUME HistoryInv, PendingNow # {}
  PROVE  /\ ForcedEnds(requests, live, Kind, after) \in SUBSET (Nat \ {0})
         /\ FinishedEnds(requests, live, Kind, after) \in SUBSET (Nat \ {0})
         /\ BatchEnds(requests, VisibleNow) \in SUBSET (Nat \ {0})
         /\ IdleEnds(requests, VisibleNow) \in SUBSET (Nat \ {0})
<1>1. \A i \in DOMAIN requests : requests[i].last \in Nat \ {0}
  <2>1. \A i \in DOMAIN requests : requests[i] \in Request
    BY DEF HistoryInv
  <2>2. \A i \in DOMAIN requests : requests[i].first \in Nat /\ requests[i].last \in Nat
    BY <2>1 DEF Request
  <2>. QED
    BY <2>2 DEF HistoryInv, Ordered
<1>2. VisibleNow \subseteq Nat \ {0}
  <2>1. VisibleNow \subseteq live /\ live \subseteq 1..Highwater
    BY SameSlices, SameInputs DEF HistoryInv
  <2>. QED
    BY <2>1, SameInputs
<1>3. SessionTails(requests, VisibleNow) \subseteq DOMAIN requests
  BY DEF SessionTails, LatestOfSession
<1>. QED
  BY <1>1, <1>2, <1>3 DEF ForcedEnds, FinishedEnds, BatchEnds, IdleEnds

\* The barrier of the rows is the first of the barriers in force.
LEMMA SameBarrier ==
  ASSUME HistoryInv, PendingNow # {}
  PROVE  /\ RowBarrier \in Nat
         /\ RowBarrier = 0 <=> BarriersNow = {}
         /\ BarriersNow # {} => IsLeast(RowBarrier, BarriersNow)
<1>. DEFINE forced == ForcedEnds(requests, live, Kind, after)
            closed == FinishedEnds(requests, live, Kind, after)
            waits  == BatchEnds(requests, VisibleNow)
            idles  == IdleEnds(requests, VisibleNow)
            short  == Short(requests, live, Kind, after, started)
            known  == OrFirst(OrFirst(0, forced), closed)
<1>1. /\ forced \in SUBSET (Nat \ {0}) /\ closed \in SUBSET (Nat \ {0})
      /\ waits \in SUBSET (Nat \ {0}) /\ idles \in SUBSET (Nat \ {0})
  BY EndsArePositive
<1>2. RowBarrier = IF short THEN OrFirst(OrFirst(known, waits), idles) ELSE known
  BY SameEnds, SameSlices, Zenon DEF RowBarrier
<1>3. BarriersNow = IF forced # {} THEN forced
                    ELSE IF closed # {} THEN closed
                    ELSE IF ~short THEN {}
                    ELSE IF waits # {} THEN waits
                    ELSE idles
  BY DEF BarriersNow, Barriers, VisibleNow
<1>. HIDE DEF forced, closed, waits, idles, short
<1>4. ASSUME NEW bar \in Nat, NEW ends \in SUBSET (Nat \ {0})
      PROVE  /\ OrFirst(bar, ends) \in Nat
             /\ bar # 0 \/ ends = {} => OrFirst(bar, ends) = bar
             /\ bar = 0 /\ ends # {} => IsLeast(OrFirst(bar, ends), ends) /\ OrFirst(bar, ends) # 0
  <2>1. ends \in SUBSET Nat /\ 0 \notin ends
    OBVIOUS
  <2>. QED
    BY <2>1, FirstOf DEF IsLeast
<1>5. CASE forced # {}
  <2>1. IsLeast(OrFirst(0, forced), forced) /\ OrFirst(0, forced) \in Nat \ {0}
    BY <1>1, <1>4, <1>5
  <2>2. RowBarrier = OrFirst(0, forced)
    BY <1>1, <1>2, <1>4, <2>1
  <2>. QED
    BY <1>3, <1>5, <2>1, <2>2
<1>6. CASE forced = {} /\ closed # {}
  <2>1. OrFirst(0, forced) = 0 /\ IsLeast(known, closed) /\ known \in Nat \ {0}
    BY <1>1, <1>4, <1>6
  <2>2. RowBarrier = known
    BY <1>1, <1>2, <1>4, <2>1
  <2>. HIDE DEF known
  <2>. QED
    BY <1>3, <1>6, <2>1, <2>2
<1>7. CASE forced = {} /\ closed = {} /\ ~short
  <2>1. known = 0
    BY <1>1, <1>4, <1>7
  <2>. QED
    BY <1>2, <1>3, <1>7, <2>1
<1>8. CASE forced = {} /\ closed = {} /\ short /\ waits # {}
  <2>1. known = 0
    BY <1>1, <1>4, <1>8
  <2>2. IsLeast(OrFirst(0, waits), waits) /\ OrFirst(0, waits) \in Nat \ {0}
    BY <1>1, <1>4, <1>8
  <2>3. RowBarrier = OrFirst(0, waits)
    BY <1>1, <1>2, <1>4, <1>8, <2>1, <2>2
  <2>. QED
    BY <1>3, <1>8, <2>2, <2>3
<1>9. CASE forced = {} /\ closed = {} /\ short /\ waits = {}
  <2>1. known = 0 /\ OrFirst(0, waits) = 0
    BY <1>1, <1>4, <1>9
  <2>2. RowBarrier = OrFirst(0, idles)
    BY <1>2, <1>9, <2>1
  <2>3. CASE idles = {}
    BY <1>1, <1>3, <1>4, <1>9, <2>2, <2>3
  <2>4. CASE idles # {}
    <3>1. IsLeast(OrFirst(0, idles), idles) /\ OrFirst(0, idles) \in Nat \ {0}
      BY <1>1, <1>4, <2>4
    <3>. QED
      BY <1>3, <1>9, <2>2, <2>4, <3>1
  <2>. QED
    BY <2>3, <2>4
<1>. QED
  BY <1>5, <1>6, <1>7, <1>8, <1>9

\* Slices of ordered rows and picks from sets come to the same window.
LEMMA RowsSelect == HistoryInv => AgreesWithRows
<1>. SUFFICES ASSUME HistoryInv PROVE AgreesWithRows
  OBVIOUS
<1>. DEFINE chosen == Head_n(IF RowBarrier = 0 THEN VisibleRows ELSE UpTo(VisibleRows, RowBarrier),
                             RowsNeeded)
            nothing == PendingRows = <<>> \/ (RowBarrier = 0 /\ Len(VisibleRows) < RowsNeeded)
            manifest == Tail_n(ContextRows \o chosen, RowPolicy.width)
            short == Short(requests, live, Kind, after, started)
            W == {s \in VisibleNow : \A b \in BarriersNow : s <= b}
<1>1. RefWindow = IF nothing THEN [new |-> <<>>, manifest |-> <<>>]
                  ELSE [new |-> chosen, manifest |-> manifest]
  BY DEF RefWindow
<1>2. New = IF PendingNow = {} THEN {}
            ELSE IF BarriersNow = {} /\ short THEN {} ELSE Earliest(W, NeededNow)
  BY DEF New, NewInputs, PendingNow, BarriersNow, VisibleNow, NeededNow
<1>3. Manifest(requests, live, Kind, after, started)
        = Latest(Latest(ConsumedNow, PolicyNow.width) \cup New, PolicyNow.width)
  BY DEF Manifest, ConsumedNow, PolicyNow, New
<1>4. ToSet(<<>>) = {}
  BY DEF ToSet
<1>5. CASE PendingNow = {}
  <2>1. PendingRows = <<>>
    BY <1>5, SamePending
  <2>2. RefWindow.new = <<>> /\ New = {}
    BY <1>1, <1>2, <1>5, <2>1
  <2>. QED
    BY <1>4, <2>2 DEF AgreesWithRows
<1>6. CASE PendingNow # {}
  <2>. USE <1>6
  <2>1. PendingRows # <<>>
    BY SamePending
  <2>2. nothing <=> BarriersNow = {} /\ short
    BY <2>1, SameBarrier, SameSlices
  <2>3. CASE BarriersNow = {} /\ short
    <3>1. RefWindow.new = <<>> /\ New = {}
      BY <1>1, <1>2, <2>2, <2>3
    <3>. QED
      BY <1>4, <3>1 DEF AgreesWithRows
  <2>4. CASE ~ (BarriersNow = {} /\ short)
    <3>1. RefWindow.new = chosen /\ RefWindow.manifest = manifest
      <4>. HIDE DEF chosen, manifest, nothing
      <4>. QED
        BY <1>1, <2>2, <2>4
    <3>2. New = Earliest(W, NeededNow)
      <4>. HIDE DEF W
      <4>. QED
        BY <1>2, <2>4
    <3>3. /\ Ascends(VisibleRows) /\ ToSet(VisibleRows) = VisibleNow
          /\ Ascends(ContextRows) /\ ToSet(ContextRows) = Latest(ConsumedNow, PolicyNow.width)
          /\ RowsNeeded = NeededNow /\ VisibleNow \subseteq PendingNow
      BY SameSlices
    <3>4. NeededNow \in Nat /\ PolicyNow.width \in Nat /\ RowPolicy = PolicyNow
      BY SameJudge
    <3>5. /\ PendingNow \in SUBSET (0..Highwater) /\ ConsumedNow \in SUBSET (0..Highwater)
          /\ Highwater \in Nat
      BY SameInputs
    <3>. DEFINE run == IF RowBarrier = 0 THEN VisibleRows ELSE UpTo(VisibleRows, RowBarrier)
    <3>6. Ascends(run) /\ ToSet(run) = W
      <4>1. CASE BarriersNow = {}
        <5>1. RowBarrier = 0 /\ W = VisibleNow
          BY <4>1, SameBarrier
        <5>. QED
          BY <3>3, <5>1
      <4>2. CASE BarriersNow # {}
        <5>1. RowBarrier # 0 /\ RowBarrier \in Nat /\ IsLeast(RowBarrier, BarriersNow)
          BY <4>2, SameBarrier
        <5>2. BarriersNow \subseteq Nat
          <6>1. live \in SUBSET Nat /\ requests \in Seq(Request)
            BY SameInputs DEF HistoryInv
          <6>. QED
            BY <6>1, BarriersAreNat DEF BarriersNow
        <5>3. W = {s \in ToSet(VisibleRows) : s <= RowBarrier}
          <6>1. ASSUME NEW s \in VisibleNow PROVE (\A b \in BarriersNow : s <= b) <=> s <= RowBarrier
            <7>1. s \in Nat
              BY <3>3, <3>5
            <7>. QED
              BY <5>1, <5>2, <7>1 DEF IsLeast
          <6>. QED
            BY <3>3, <6>1
        <5>4. W \in SUBSET (0..Highwater)
          BY <3>3, <3>5
        <5>5. run = Rows(W)
          <6>. HIDE DEF W
          <6>. QED
            BY <5>1, <5>3 DEF UpTo
        <5>. HIDE DEF W, run
        <5>. QED
          BY <3>5, <5>4, <5>5, RowsAscend
      <4>. QED
        BY <4>1, <4>2
    <3>. HIDE DEF run, W
    <3>7. Ascends(chosen) /\ ToSet(chosen) = New
      <4>1. chosen = Head_n(run, NeededNow)
        BY <3>3 DEF run
      <4>. HIDE DEF chosen
      <4>. QED
        BY <3>2, <3>4, <3>6, <4>1, HeadIsEarliest
    <3>. HIDE DEF chosen
    <3>8. ToSet(manifest) = Manifest(requests, live, Kind, after, started)
      <4>1. New \subseteq PendingNow
        <5>1. W \subseteq VisibleNow
          BY DEF W
        <5>. QED
          BY <3>2, <3>3, <5>1, PicksAreMembers
      <4>2. \A s \in ToSet(ContextRows), t \in ToSet(chosen) : s < t
        <5>1. ASSUME NEW s \in ToSet(ContextRows), NEW t \in ToSet(chosen) PROVE s < t
          <6>1. s \in ConsumedNow /\ t \in PendingNow
            BY <3>3, <3>7, <4>1, PicksAreMembers
          <6>2. s <= after /\ t > after /\ s \in Nat /\ t \in Nat /\ after \in Nat
            BY <3>5, <6>1 DEF ConsumedNow, PendingNow, Consumed, Pending, HistoryInv
          <6>. QED
            BY <6>2
        <5>. QED
          BY <5>1
      <4>3. /\ Ascends(ContextRows \o chosen)
            /\ ToSet(ContextRows \o chosen) = ToSet(ContextRows) \cup New
        BY <3>3, <3>7, <4>2, JoinAscends
      <4>4. ToSet(manifest) = Latest(ToSet(ContextRows) \cup New, PolicyNow.width)
        BY <3>4, <4>3, TailIsLatest
      <4>. QED
        BY <1>3, <3>3, <4>4
    <3>. HIDE DEF manifest
    <3>. QED
      BY <3>1, <3>7, <3>8 DEF AgreesWithRows
  <2>. QED
    BY <2>3, <2>4
<1>. QED
  BY <1>5, <1>6

\* Rewriting a request within its range changes no ownership.
LEMMA RewriteKeeps ==
  ASSUME HistoryInv, NEW i \in DOMAIN requests, NEW q \in Request,
         q.first = requests[i].first, q.last = requests[i].last, q.session = requests[i].session,
         q.width = requests[i].width, q.stride = requests[i].stride,
         requests' = [requests EXCEPT ![i] = q], UNCHANGED <<live, after, started>>
  PROVE  HistoryInv'
<1>1. requests \in Seq(Request) /\ i \in 1..Len(requests) /\ Len(requests) \in Nat
  BY DEF HistoryInv
<1>2. /\ requests' \in Seq(Request) /\ Len(requests') = Len(requests)
      /\ DOMAIN requests' = DOMAIN requests
  BY <1>1, ExceptSeq
<1>3. \A j \in DOMAIN requests :
        /\ requests'[j].first = requests[j].first /\ requests'[j].last = requests[j].last
        /\ requests'[j].width = requests[j].width /\ requests'[j].stride = requests[j].stride
  BY <1>1
<1>4. Highwater' = Highwater
  <2>1. requests' # <<>> /\ requests # <<>>
    BY <1>1, <1>2
  <2>2. Len(requests) \in DOMAIN requests
    BY <1>1
  <2>. QED
    BY <1>2, <1>3, <2>1, <2>2 DEF Highwater, Last
<1>. QED
  BY <1>2, <1>3, <1>4 DEF HistoryInv, Ordered, Sliding, SeqsOf

\* A request is appended behind all others, its inputs alive.
LEMMA AdmitKeeps ==
  ASSUME HistoryInv, NEW p \in Policies, Admit(p)
  PROVE  HistoryInv'
<1>. DEFINE q == [first |-> Highwater + 1, last |-> Highwater + p.size, session |-> p.session,
                  eligible |-> p.eligible, force |-> p.force, finished |-> FALSE,
                  width |-> p.width, stride |-> p.stride, idle |-> p.idle, wait |-> p.wait]
            n == Len(requests)
<1>1. /\ requests \in Seq(Request) /\ n \in Nat /\ DOMAIN requests = 1..n /\ Highwater \in Nat
  BY DEF HistoryInv
<1>2. /\ p.size \in Nat \ {0} /\ p.width \in 1..MaxWidth /\ p.stride \in 1..MaxWidth
      /\ p.stride <= p.width /\ p.session \in Sessions /\ p.eligible \in SUBSET Kinds
      /\ p.force \in BOOLEAN /\ p.idle \in Deadlines /\ p.wait \in Deadlines
  BY PoliciesAssumption
<1>3. q \in Request
  <2>1. Highwater + 1 \in Nat /\ Highwater + p.size \in Nat
    BY <1>1, <1>2
  <2>. QED
    BY <1>2, <2>1 DEF Request
<1>4. /\ requests' = Append(requests, q) /\ live' = live \cup (Highwater + 1)..(Highwater + p.size)
      /\ UNCHANGED <<after, started>>
  BY DEF Admit
<1>. HIDE DEF q
<1>5. /\ requests' \in Seq(Request) /\ Len(requests') = n + 1 /\ DOMAIN requests' = 1..(n + 1)
      /\ \A i \in 1..n : requests'[i] = requests[i]
      /\ requests'[n + 1] = q
  BY <1>1, <1>3, <1>4, AppendProperties
<1>6. q.first = Highwater + 1 /\ q.last = Highwater + p.size /\ q.stride <= q.width
  BY <1>2 DEF q
<1>7. Highwater' = Highwater + p.size
  <2>1. requests' # <<>>
    BY <1>1, <1>5
  <2>. QED
    BY <1>5, <1>6, <2>1 DEF Highwater, Last
<1>8. \A i \in 1..n : /\ requests[i].first \in Nat /\ requests[i].last \in Nat
                      /\ 1 <= requests[i].first /\ requests[i].last <= Highwater
  <2>1. \A i \in 1..n : requests[i] \in Request
    BY <1>1
  <2>. QED
    BY <1>1, <2>1 DEF Request, HistoryInv
<1>9. Ordered(requests')
  <2>1. \A i \in 1..(n + 1) : requests'[i].first <= requests'[i].last
    <3>1. \A i \in 1..n : requests[i].first <= requests[i].last
      BY <1>1 DEF HistoryInv, Ordered
    <3>2. q.first <= q.last
      BY <1>1, <1>2, <1>6
    <3>. QED
      BY <1>1, <1>5, <3>1, <3>2
  <2>2. ASSUME NEW i \in 1..(n + 1), NEW j \in 1..(n + 1), i < j
        PROVE  requests'[i].last < requests'[j].first
    <3>1. i \in 1..n
      BY <1>1, <2>2
    <3>2. CASE j \in 1..n
      BY <1>1, <1>5, <2>2, <3>1, <3>2 DEF HistoryInv, Ordered
    <3>3. CASE j = n + 1
      BY <1>1, <1>5, <1>6, <1>8, <3>1, <3>3
    <3>. QED
      BY <1>1, <3>2, <3>3
  <2>. QED
    BY <1>5, <2>1, <2>2 DEF Ordered
<1>10. Sliding(requests')
  BY <1>1, <1>5, <1>6 DEF Sliding, HistoryInv
<1>11. /\ Highwater' \in Nat
       /\ \A i \in DOMAIN requests' : 1 <= requests'[i].first /\ requests'[i].last <= Highwater'
  <2>1. Highwater' \in Nat /\ Highwater <= Highwater' /\ 1 <= Highwater + 1
    BY <1>1, <1>2, <1>7
  <2>2. ASSUME NEW i \in 1..n
        PROVE  1 <= requests'[i].first /\ requests'[i].last <= Highwater'
    <3>1. /\ requests'[i] = requests[i] /\ requests[i].last \in Nat
          /\ 1 <= requests[i].first /\ requests[i].last <= Highwater
      BY <1>5, <1>8
    <3>. QED
      BY <1>1, <2>1, <3>1
  <2>3. 1 <= requests'[n + 1].first /\ requests'[n + 1].last <= Highwater'
    BY <1>5, <1>6, <1>7, <2>1
  <2>4. \A i \in 1..(n + 1) : i \in 1..n \/ i = n + 1
    BY <1>1
  <2>. QED
    BY <1>5, <2>1, <2>2, <2>3, <2>4
<1>12. live' \subseteq 1..Highwater'
  <2>1. SUFFICES ASSUME NEW s \in live' PROVE s \in 1..Highwater'
    OBVIOUS
  <2>2. CASE s \in live
    <3>1. s \in 1..Highwater
      BY <2>2 DEF HistoryInv
    <3>. QED
      BY <1>1, <1>2, <1>7, <3>1
  <2>3. CASE s \in (Highwater + 1)..(Highwater + p.size)
    BY <1>1, <1>2, <1>7, <2>3
  <2>. QED
    BY <1>4, <2>1, <2>2, <2>3
<1>13. ASSUME NEW s \in live' PROVE \E i \in DOMAIN requests' : s \in SeqsOf(requests'[i])
  <2>1. CASE s \in live
    <3>1. PICK i \in 1..n : s \in SeqsOf(requests[i])
      BY <1>1, <2>1 DEF HistoryInv
    <3>2. i \in DOMAIN requests' /\ requests'[i] = requests[i]
      BY <1>1, <1>5
    <3>. QED
      BY <3>1, <3>2
  <2>2. CASE s \in (Highwater + 1)..(Highwater + p.size)
    <3>1. n + 1 \in DOMAIN requests' /\ s \in SeqsOf(requests'[n + 1])
      BY <1>1, <1>5, <1>6, <2>2 DEF SeqsOf
    <3>. QED
      BY <3>1
  <2>. QED
    BY <1>4, <2>1, <2>2
<1>. QED
  BY <1>4, <1>5, <1>9, <1>10, <1>11, <1>12, <1>13 DEF HistoryInv

\* Every step of the log keeps it.
LEMMA HistoryKept == HistoryInv /\ [Next]_vars => HistoryInv'
<1>. SUFFICES ASSUME HistoryInv, [Next]_vars PROVE HistoryInv'
  OBVIOUS
<1>1. \A i \in DOMAIN requests : requests[i] \in Request
  BY DEF HistoryInv
<1>2. ASSUME NEW s \in live, Erase(s) PROVE HistoryInv'
  BY <1>2 DEF Erase, HistoryInv, Highwater
<1>3. ASSUME NEW s \in Sessions, FinishSession(s) PROVE HistoryInv'
  <2>1. PICK i \in LatestOfSession(requests, s) : requests' = [requests EXCEPT ![i].finished = TRUE]
    BY <1>3 DEF FinishSession
  <2>. DEFINE q == [requests[i] EXCEPT !.finished = TRUE]
  <2>2. i \in DOMAIN requests
    BY DEF LatestOfSession
  <2>3. requests[i] \in Request
    BY <1>1, <2>2
  <2>4. /\ q \in Request
        /\ q.first = requests[i].first /\ q.last = requests[i].last
        /\ q.session = requests[i].session
        /\ q.width = requests[i].width /\ q.stride = requests[i].stride
    BY <2>3 DEF Request
  <2>5. requests' = [requests EXCEPT ![i] = q] /\ UNCHANGED <<live, after, started>>
    BY <1>3, <2>1 DEF FinishSession
  <2>. HIDE DEF q
  <2>. QED
    BY <2>2, <2>4, <2>5, RewriteKeeps
<1>4. ASSUME NEW i \in DOMAIN requests, Elapse(i) PROVE HistoryInv'
  <2>1. requests[i] \in Request /\ UNCHANGED <<live, after, started>>
    BY <1>1, <1>4 DEF Elapse
  <2>2. CASE requests' = [requests EXCEPT ![i].idle = "due"]
    <3>. DEFINE q == [requests[i] EXCEPT !.idle = "due"]
    <3>1. /\ q \in Request
          /\ q.first = requests[i].first /\ q.last = requests[i].last
          /\ q.session = requests[i].session
          /\ q.width = requests[i].width /\ q.stride = requests[i].stride
      BY <2>1 DEF Request, Deadlines
    <3>2. requests' = [requests EXCEPT ![i] = q]
      BY <2>2
    <3>. HIDE DEF q
    <3>. QED
      BY <2>1, <3>1, <3>2, RewriteKeeps
  <2>3. CASE requests' = [requests EXCEPT ![i].wait = "due"]
    <3>. DEFINE q == [requests[i] EXCEPT !.wait = "due"]
    <3>1. /\ q \in Request
          /\ q.first = requests[i].first /\ q.last = requests[i].last
          /\ q.session = requests[i].session
          /\ q.width = requests[i].width /\ q.stride = requests[i].stride
      BY <2>1 DEF Request, Deadlines
    <3>2. requests' = [requests EXCEPT ![i] = q]
      BY <2>3
    <3>. HIDE DEF q
    <3>. QED
      BY <2>1, <3>1, <3>2, RewriteKeeps
  <2>. QED
    BY <1>4, <2>2, <2>3 DEF Elapse
<1>5. CASE Complete
  <2>1. live \in SUBSET Nat /\ requests \in Seq(Request)
    BY SameInputs DEF HistoryInv
  <2>2. New \in SUBSET Nat
    BY <2>1, SelectionIsNat DEF New
  <2>. QED
    BY <1>5, <2>2 DEF Complete, HistoryInv, Highwater
<1>6. CASE UNCHANGED vars
  BY <1>6 DEF vars, HistoryInv, Highwater
<1>7. ASSUME NEW p \in Policies, Admit(p) PROVE HistoryInv'
  BY <1>7, AdmitKeeps
<1>. QED
  BY <1>2, <1>3, <1>4, <1>5, <1>6, <1>7 DEF Next

LEMMA HistoryBegins == Init => HistoryInv
<1>. SUFFICES ASSUME Init PROVE HistoryInv
  OBVIOUS
<1>1. /\ requests \in Seq(Request) /\ Len(requests) = 0 /\ DOMAIN requests = {}
      /\ Highwater = 0 /\ live = {} /\ after = 0 /\ started = FALSE
  BY EmptySeq DEF Init, Highwater
<1>. QED
  BY <1>1 DEF HistoryInv, Ordered, Sliding

\* Whatever was published, erased and finished, and whichever deadlines have
\* passed, the set reading of _select used throughout picks and stores what
\* the code's ordered queries and list slices do (AgreesWithRows).
THEOREM ReadingsAgree == Spec => []AgreesWithRows
BY HistoryBegins, HistoryKept, RowsSelect, PTL DEF Spec


-----------------------------------------------------------------------------
(* The circuit breaker.                                                    *)

USE CallbackAssumption, CacheAssumption, CircuitAssumption

\* A closed breaker has not seen the failures that open it.
CircuitInv ==
  /\ CircuitTypeOK
  /\ NoProbeIsForgotten
  /\ circuit.period = "closed" => circuit.failures < OpenAfterFailures

\* Every step of the circuit keeps its probe known.
LEMMA CircuitInductive == CircuitInv /\ [CircuitNext]_circuitVars => CircuitInv'
<1>. SUFFICES ASSUME CircuitInv, [CircuitNext]_circuitVars
              PROVE  CircuitInv'
  OBVIOUS
<1>. USE DEF CircuitInv, CircuitTypeOK, Circuit, Closed, NoProbeIsForgotten
<1>1. ASSUME NEW c \in Calls, AdmitCall(c) \/ AdmitProbe(c) \/ FailedLate(c)
      PROVE  CircuitInv'
  BY <1>1 DEF AdmitCall, AdmitProbe, FailedLate
<1>2. ASSUME NEW c \in Calls, Succeeded(c)
      PROVE  CircuitInv'
  BY <1>2 DEF Succeeded
<1>3. ASSUME NEW c \in Calls, FailedProbe(c)
      PROVE  CircuitInv'
  <2>1. /\ circuit' = [period |-> "open", failures |-> circuit.failures, probe |-> "none",
                       doubled |-> IF circuit.doubled < MaxDoublings
                                   THEN circuit.doubled + 1 ELSE circuit.doubled]
        /\ ticket' = [ticket EXCEPT ![c] = "none"]
    BY <1>3 DEF FailedProbe, Unmarked
  <2>. QED
    BY <2>1
<1>4. ASSUME NEW c \in Calls, NEW quota \in BOOLEAN, FailedClosed(c, quota)
      PROVE  CircuitInv'
  <2>1. circuit.period = "closed" /\ circuit.failures + 1 \in 0..OpenAfterFailures
    BY <1>4 DEF FailedClosed
  <2>2. /\ circuit' = [period |-> IF Opens(circuit.failures + 1, quota) THEN "open" ELSE "closed",
                       failures |-> circuit.failures + 1, doubled |-> circuit.doubled,
                       probe |-> Unmarked(c)]
        /\ ticket' = [ticket EXCEPT ![c] = "none"]
    BY <1>4 DEF FailedClosed
  <2>3. circuit'.period = "closed" => circuit'.failures < OpenAfterFailures
    BY <2>1, <2>2 DEF Opens
  <2>4. /\ Unmarked(c) \in {"none", "running", "stale"}
        /\ Unmarked(c) # "none" => circuit.probe # "none" /\ ticket[c] # "probe"
    BY DEF Unmarked
  <2>5. NoProbeIsForgotten'
    BY <2>2, <2>4
  <2>. QED
    BY <2>1, <2>2, <2>3, <2>4, <2>5
<1>5. ASSUME NEW c \in Calls, Close(c)
      PROVE  CircuitInv'
  <2>1. /\ circuit' = [period |-> circuit.period, failures |-> circuit.failures,
                       doubled |-> circuit.doubled, probe |-> Unmarked(c)]
        /\ ticket' = [ticket EXCEPT ![c] = "none"]
    BY <1>5 DEF Close
  <2>2. /\ Unmarked(c) \in {"none", "running", "stale"}
        /\ Unmarked(c) # "none" => circuit.probe # "none" /\ ticket[c] # "probe"
    BY DEF Unmarked
  <2>3. NoProbeIsForgotten'
    BY <2>1, <2>2
  <2>. QED
    BY <2>1, <2>2, <2>3
<1>6. ASSUME PeriodEnds \/ ProbeGrowsStale
      PROVE  CircuitInv'
  BY <1>6 DEF PeriodEnds, ProbeGrowsStale
<1>7. CASE UNCHANGED circuitVars
  BY <1>7 DEF circuitVars
<1>. QED
  BY <1>1, <1>2, <1>3, <1>4, <1>5, <1>6, <1>7 DEF CircuitNext

\* The circuit is closed below its threshold of failures, throughout.
LEMMA CircuitInvariant == CircuitSpec => []CircuitInv
<1>1. CircuitInit => CircuitInv
  BY DEF CircuitInit, CircuitInv, CircuitTypeOK, Circuit, Closed, NoProbeIsForgotten
<1>. QED
  BY <1>1, CircuitInductive, PTL DEF CircuitSpec

\* A probe's mark outlives no probe: with no probe under way the next call
\* after the open period is admitted (ProviderCircuit.settle).
THEOREM ProbeRemembered == CircuitSpec => []NoProbeIsForgotten
<1>1. CircuitInv => NoProbeIsForgotten
  BY DEF CircuitInv
<1>. QED
  BY <1>1, CircuitInvariant, PTL

-----------------------------------------------------------------------------
(* The instance cache.                                                     *)

\* Instance i has loaded a configuration at least as new as its stamp and v.
LoadedSince(i, v) ==
  i \in 1..built /\ instance[i].loaded >= instance[i].stamp /\ instance[i].loaded >= v

\* The construction lock is held from the second lookup on.
LockInv == \A g \in Getters :
  getter[g].at \in {"recheck", "stamp", "load", "store"} => builder = g

\* What a getter has in hand carries what it needs.
GetterInv(g) ==
  /\ getter[g].was <= version /\ getter[g].must <= fence
  /\ getter[g].at \in {"inspect", "evict"} => LoadedSince(getter[g].holds, getter[g].must)
  /\ getter[g].at = "recheck" => LoadedSince(getter[g].holds, fence)
  /\ getter[g].at = "store" => /\ LoadedSince(getter[g].holds, fence)
                               /\ instance[getter[g].holds].loaded >= getter[g].was
  /\ getter[g].at = "load" =>
       /\ getter[g].holds \in 1..built /\ getter[g].holds # entry
       /\ instance[getter[g].holds].stamp <= version

\* An instance that is still to be loaded is seen by nobody else.
Unseen(g, h) ==
  getter[g].at = "load" /\ getter[h].at \in {"inspect", "evict"} =>
    getter[h].holds # getter[g].holds

\* The cached instance has loaded what the last invalidation was about.
EntryInv == entry # NoInstance => LoadedSince(entry, fence)

CacheInv ==
  /\ CacheTypeOK /\ LockInv /\ EntryInv
  /\ \A g \in Getters : GetterInv(g)
  /\ \A g, h \in Getters : Unseen(g, h)

\* Only the hands of getter g change.
Handed(g) ==
  /\ getter' \in [Getters -> Getter]
  /\ \A h \in Getters \ {g} : getter'[h] = getter[h]

\* Getter g goes on with what it has.
LEMMA Gone ==
  ASSUME CacheTypeOK, NEW g \in Getters, NEW p \in Steps, Go(g, p)
  PROVE  /\ Handed(g)
         /\ getter'[g].at = p /\ getter'[g].holds = getter[g].holds
         /\ getter'[g].must = getter[g].must /\ getter'[g].was = getter[g].was
BY DEF CacheTypeOK, Go, Handed, Getter

\* Getter g leaves with instance i.
LEMMA GetterLeft ==
  ASSUME CacheTypeOK, NEW g \in Getters, NEW i \in 0..MaxInstances, NEW b \in BOOLEAN,
         Serve(g, i, b)
  PROVE  /\ Handed(g)
         /\ getter'[g].at = "idle" /\ getter'[g].holds = i
         /\ getter'[g].must = 0 /\ getter'[g].was = 0
<1>1. ASSUME NEW r \in Getter
      PROVE  /\ [r EXCEPT !.holds = i, !.blind = b] \in Getter
             /\ [r EXCEPT !.holds = i, !.blind = b].at = r.at
             /\ [r EXCEPT !.holds = i, !.blind = b].holds = i
             /\ [r EXCEPT !.holds = i, !.blind = b].must = r.must
             /\ [r EXCEPT !.holds = i, !.blind = b].was = r.was
  BY DEF Getter
<1>2. Resting \in Getter /\ Resting.at = "idle" /\ Resting.must = 0 /\ Resting.was = 0
  BY DEF Resting, Getter, Steps, NoInstance
<1>. QED
  BY <1>1, <1>2 DEF CacheTypeOK, Serve, Handed

\* Getter g turns to instance i.
TurnsTo(g, p, i) ==
  \/ getter' = [getter EXCEPT ![g].at = p, ![g].holds = i]
  \/ \E b \in BOOLEAN :
       getter' = [getter EXCEPT ![g].at = p, ![g].holds = i, ![g].blind = b]

\* A getter that goes on takes along what it must see.
LEMMA Turned ==
  ASSUME CacheTypeOK, NEW g \in Getters, NEW p \in Steps, NEW i \in 0..MaxInstances,
         TurnsTo(g, p, i)
  PROVE  /\ Handed(g)
         /\ getter'[g].at = p /\ getter'[g].holds = i
         /\ getter'[g].must = getter[g].must /\ getter'[g].was = getter[g].was
<1>1. CASE getter' = [getter EXCEPT ![g].at = p, ![g].holds = i]
  <2>1. ASSUME NEW r \in Getter
        PROVE  /\ [r EXCEPT !.at = p, !.holds = i] \in Getter
               /\ [r EXCEPT !.at = p, !.holds = i].at = p
               /\ [r EXCEPT !.at = p, !.holds = i].holds = i
               /\ [r EXCEPT !.at = p, !.holds = i].must = r.must
               /\ [r EXCEPT !.at = p, !.holds = i].was = r.was
    BY DEF Getter
  <2>2. /\ getter[g] \in Getter /\ getter'[g] = [getter[g] EXCEPT !.at = p, !.holds = i]
        /\ \A h \in Getters \ {g} : getter'[h] = getter[h]
    BY <1>1 DEF CacheTypeOK
  <2>3. getter' \in [Getters -> Getter]
    BY <1>1, <2>1, <2>2 DEF CacheTypeOK
  <2>. QED
    BY <2>1, <2>2, <2>3 DEF Handed
<1>2. ASSUME NEW b \in BOOLEAN,
             getter' = [getter EXCEPT ![g].at = p, ![g].holds = i, ![g].blind = b]
      PROVE  /\ Handed(g)
             /\ getter'[g].at = p /\ getter'[g].holds = i
             /\ getter'[g].must = getter[g].must /\ getter'[g].was = getter[g].was
  <2>1. ASSUME NEW r \in Getter
        PROVE  /\ [r EXCEPT !.at = p, !.holds = i, !.blind = b] \in Getter
               /\ [r EXCEPT !.at = p, !.holds = i, !.blind = b].at = p
               /\ [r EXCEPT !.at = p, !.holds = i, !.blind = b].holds = i
               /\ [r EXCEPT !.at = p, !.holds = i, !.blind = b].must = r.must
               /\ [r EXCEPT !.at = p, !.holds = i, !.blind = b].was = r.was
    BY DEF Getter
  <2>2. /\ getter[g] \in Getter
        /\ getter'[g] = [getter[g] EXCEPT !.at = p, !.holds = i, !.blind = b]
        /\ \A h \in Getters \ {g} : getter'[h] = getter[h]
    BY <1>2 DEF CacheTypeOK
  <2>3. getter' \in [Getters -> Getter]
    BY <1>2, <2>1, <2>2 DEF CacheTypeOK
  <2>. QED
    BY <2>1, <2>2, <2>3 DEF Handed
<1>. QED
  BY <1>1, <1>2 DEF TurnsTo

\* Getter g begins.
Begins(g, p, i, m, v) ==
  getter' = [getter EXCEPT ![g].at = p, ![g].holds = i, ![g].must = m, ![g].was = v,
                           ![g].blind = FALSE]

\* A getter that begins notes what it must see.
LEMMA Begun ==
  ASSUME CacheTypeOK, NEW g \in Getters, NEW p \in Steps, NEW i \in 0..MaxInstances,
         NEW m \in 0..MaxVersion, NEW v \in 0..MaxVersion, Begins(g, p, i, m, v)
  PROVE  /\ Handed(g)
         /\ getter'[g].at = p /\ getter'[g].holds = i
         /\ getter'[g].must = m /\ getter'[g].was = v
<1>1. ASSUME NEW r \in Getter
      PROVE  LET q == [r EXCEPT !.at = p, !.holds = i, !.must = m, !.was = v, !.blind = FALSE]
             IN  /\ q \in Getter /\ q.at = p /\ q.holds = i /\ q.must = m /\ q.was = v
  BY DEF Getter
<1>. QED
  BY <1>1, ZenonT(40) DEF CacheTypeOK, Handed, Begins

\* The numbers in a well typed state.
Numbers ==
  /\ version \in Nat /\ fence \in Nat /\ fence <= version
  /\ built \in Nat /\ entry \in 0..built
  /\ \A i \in 1..built : instance[i].stamp \in Nat /\ instance[i].loaded \in Nat
  /\ \A g \in Getters : /\ getter[g].holds \in Nat
                        /\ getter[g].must \in Nat /\ getter[g].was \in Nat

\* Versions, instances and marks are numbers.
LEMMA TypesAreNumbers == CacheTypeOK => Numbers
BY DEF CacheTypeOK, Numbers, Getter

\* Every step of the cache keeps what a getter has in hand recent.
LEMMA CacheInductive == CacheInv /\ [CacheNext]_cacheVars => CacheInv'
<1>. SUFFICES ASSUME CacheInv, [CacheNext]_cacheVars
              PROVE  CacheInv'
  OBVIOUS
<1>. USE DEF NoInstance
<1>1. /\ CacheTypeOK /\ LockInv /\ EntryInv
      /\ \A g \in Getters : GetterInv(g)
      /\ \A g, h \in Getters : Unseen(g, h)
  BY DEF CacheInv
<1>2. Numbers
  BY <1>1, TypesAreNumbers
<1>3. \A g \in Getters : /\ getter[g].holds \in 0..MaxInstances
                         /\ getter[g].blind \in BOOLEAN
  BY <1>1 DEF CacheTypeOK, Getter
<1>4. ASSUME NEW g \in Getters, Look(g)
      PROVE  CacheInv'
  <2>1. /\ Handed(g)
        /\ getter'[g].at = IF entry = NoInstance THEN "enter" ELSE "inspect"
        /\ getter'[g].holds = entry
        /\ getter'[g].must = fence /\ getter'[g].was = version
    <3>1. /\ "enter" \in Steps /\ "inspect" \in Steps
          /\ entry \in 0..MaxInstances /\ fence \in 0..MaxVersion /\ version \in 0..MaxVersion
      BY <1>1 DEF CacheTypeOK, Steps
    <3>2. CASE entry = NoInstance
      <4>1. Begins(g, "enter", entry, fence, version)
        BY <1>4, <3>2 DEF Look, Begins
      <4>. QED
        BY <1>1, <3>1, <3>2, <4>1, Begun
    <3>3. CASE entry # NoInstance
      <4>1. Begins(g, "inspect", entry, fence, version)
        BY <1>4, <3>3 DEF Look, Begins
      <4>. QED
        BY <1>1, <3>1, <3>3, <4>1, Begun
    <3>. QED
      BY <3>2, <3>3
  <2>2. CacheTypeOK'
    BY <1>4, <1>1, <2>1 DEF Look, Handed, CacheTypeOK
  <2>3. LockInv'
    BY <1>4, <1>1, <2>1 DEF Look, Handed, LockInv
  <2>4. EntryInv'
    BY <1>4, <1>1, <1>2, <2>1 DEF Look, Handed,
           Numbers, EntryInv, GetterInv, LoadedSince, LockInv, Unseen
  <2>5. ASSUME NEW h \in Getters
        PROVE  GetterInv(h)'
    <3>1. CASE h = g
      <4>1. UNCHANGED <<version, built, instance, entry, fence>>
        BY <1>4 DEF Look
      <4>2. /\ getter'[h].must <= fence /\ getter'[h].was <= version
            /\ getter'[h].at = "inspect" => LoadedSince(entry, fence)
        BY <3>1, <1>1, <1>2, <2>1 DEF Numbers, EntryInv
      <4>. QED
        BY <3>1, <2>1, <4>1, <4>2 DEF GetterInv, LoadedSince
    <3>2. CASE h # g
      BY <3>2, <1>4, <1>1, <1>2, <2>1 DEF Look, Handed,
             Numbers, EntryInv, GetterInv, LoadedSince, LockInv, Unseen
    <3>. QED
      BY <3>1, <3>2
  <2>6. ASSUME NEW h \in Getters, NEW k \in Getters
        PROVE  Unseen(h, k)'
    BY <1>4, <1>1, <1>2, <2>1 DEF Look, Handed,
           Numbers, EntryInv, GetterInv, LoadedSince, LockInv, Unseen
  <2>. QED
    BY <2>2, <2>3, <2>4, <2>5, <2>6 DEF CacheInv
<1>5. ASSUME NEW g \in Getters, Inspect(g)
      PROVE  CacheInv'
  <2>1. /\ Handed(g) /\ getter'[g].holds = getter[g].holds
        /\ \/ getter'[g].at = "idle" /\ getter'[g].must = 0 /\ getter'[g].was = 0
           \/ getter'[g].at = "evict" /\ getter'[g].must = getter[g].must /\ getter'[g].was = getter[g].was
    BY <1>5, <1>1, <1>3, Gone, GetterLeft DEF Inspect, Steps
  <2>2. CacheTypeOK'
    BY <1>5, <1>1, <2>1 DEF Inspect, Handed, CacheTypeOK
  <2>3. LockInv'
    BY <1>5, <1>1, <2>1 DEF Inspect, Handed, LockInv
  <2>4. EntryInv'
    BY <1>5, <1>1, <1>2, <2>1 DEF Inspect, Handed,
           Numbers, EntryInv, GetterInv, LoadedSince, LockInv, Unseen
  <2>5. ASSUME NEW h \in Getters
        PROVE  GetterInv(h)'
    <3>1. CASE h = g
      BY <3>1, <1>5, <1>1, <1>2, <2>1 DEF Inspect, Handed,
             Numbers, EntryInv, GetterInv, LoadedSince, LockInv, Unseen
    <3>2. CASE h # g
      BY <3>2, <1>5, <1>1, <1>2, <2>1 DEF Inspect, Handed,
             Numbers, EntryInv, GetterInv, LoadedSince, LockInv, Unseen
    <3>. QED
      BY <3>1, <3>2
  <2>6. ASSUME NEW h \in Getters, NEW k \in Getters
        PROVE  Unseen(h, k)'
    BY <1>5, <1>1, <1>2, <2>1 DEF Inspect, Handed,
           Numbers, EntryInv, GetterInv, LoadedSince, LockInv, Unseen
  <2>. QED
    BY <2>2, <2>3, <2>4, <2>5, <2>6 DEF CacheInv
<1>6. ASSUME NEW g \in Getters, EvictInspected(g)
      PROVE  CacheInv'
  <2>1. /\ Handed(g) /\ getter'[g].at = "enter"
        /\ getter'[g].must = getter[g].must /\ getter'[g].was = getter[g].was
    BY <1>6, <1>1, Gone DEF EvictInspected, Steps
  <2>2. CacheTypeOK'
    BY <1>6, <1>1, <2>1 DEF EvictInspected, Handed, CacheTypeOK
  <2>3. LockInv'
    BY <1>6, <1>1, <2>1 DEF EvictInspected, Handed, LockInv
  <2>4. EntryInv'
    BY <1>6, <1>1, <1>2, <2>1 DEF EvictInspected, Handed,
           Numbers, EntryInv, GetterInv, LoadedSince, LockInv, Unseen
  <2>5. ASSUME NEW h \in Getters
        PROVE  GetterInv(h)'
    <3>1. CASE h = g
      BY <3>1, <1>6, <1>1, <1>2, <2>1 DEF EvictInspected, Handed,
             Numbers, EntryInv, GetterInv, LoadedSince, LockInv, Unseen
    <3>2. CASE h # g
      BY <3>2, <1>6, <1>1, <1>2, <2>1 DEF EvictInspected, Handed,
             Numbers, EntryInv, GetterInv, LoadedSince, LockInv, Unseen
    <3>. QED
      BY <3>1, <3>2
  <2>6. ASSUME NEW h \in Getters, NEW k \in Getters
        PROVE  Unseen(h, k)'
    BY <1>6, <1>1, <1>2, <2>1 DEF EvictInspected, Handed,
           Numbers, EntryInv, GetterInv, LoadedSince, LockInv, Unseen
  <2>. QED
    BY <2>2, <2>3, <2>4, <2>5, <2>6 DEF CacheInv
<1>7. ASSUME NEW g \in Getters, Enter(g)
      PROVE  CacheInv'
  <2>1. /\ Handed(g)
        /\ getter'[g].at = IF entry = NoInstance THEN "stamp" ELSE "recheck"
        /\ getter'[g].holds = entry
        /\ getter'[g].must = getter[g].must /\ getter'[g].was = getter[g].was
    <3>1. "stamp" \in Steps /\ "recheck" \in Steps /\ entry \in 0..MaxInstances
      BY <1>1 DEF CacheTypeOK, Steps
    <3>2. CASE entry = NoInstance
      <4>1. TurnsTo(g, "stamp", entry)
        BY <1>7, <3>2 DEF Enter, TurnsTo
      <4>. QED
        BY <1>1, <3>1, <3>2, <4>1, Turned
    <3>3. CASE entry # NoInstance
      <4>1. TurnsTo(g, "recheck", entry)
        BY <1>7, <3>3 DEF Enter, TurnsTo
      <4>. QED
        BY <1>1, <3>1, <3>3, <4>1, Turned
    <3>. QED
      BY <3>2, <3>3
  <2>2. CacheTypeOK'
    BY <1>7, <1>1, <2>1 DEF Enter, Handed, CacheTypeOK
  <2>3. LockInv'
    BY <1>7, <1>1, <2>1 DEF Enter, Handed, LockInv
  <2>4. EntryInv'
    BY <1>7, <1>1, <1>2, <2>1 DEF Enter, Handed,
           Numbers, EntryInv, GetterInv, LoadedSince, LockInv, Unseen
  <2>5. ASSUME NEW h \in Getters
        PROVE  GetterInv(h)'
    <3>1. CASE h = g
      BY <3>1, <1>7, <1>1, <1>2, <2>1 DEF Enter, Handed,
             Numbers, EntryInv, GetterInv, LoadedSince, LockInv, Unseen
    <3>2. CASE h # g
      BY <3>2, <1>7, <1>1, <1>2, <2>1 DEF Enter, Handed,
             Numbers, EntryInv, GetterInv, LoadedSince, LockInv, Unseen
    <3>. QED
      BY <3>1, <3>2
  <2>6. ASSUME NEW h \in Getters, NEW k \in Getters
        PROVE  Unseen(h, k)'
    BY <1>7, <1>1, <1>2, <2>1 DEF Enter, Handed,
           Numbers, EntryInv, GetterInv, LoadedSince, LockInv, Unseen
  <2>. QED
    BY <2>2, <2>3, <2>4, <2>5, <2>6 DEF CacheInv
<1>8. ASSUME NEW g \in Getters, RecheckFresh(g)
      PROVE  CacheInv'
  <2>1. /\ Handed(g)
        /\ getter'[g].at = "idle" /\ getter'[g].must = 0 /\ getter'[g].was = 0
    BY <1>8, <1>1, <1>3, GetterLeft DEF RecheckFresh
  <2>2. CacheTypeOK'
    BY <1>8, <1>1, <2>1 DEF RecheckFresh, Handed, CacheTypeOK
  <2>3. LockInv'
    BY <1>8, <1>1, <2>1 DEF RecheckFresh, Handed, LockInv
  <2>4. EntryInv'
    BY <1>8, <1>1, <1>2, <2>1 DEF RecheckFresh, Handed,
           Numbers, EntryInv, GetterInv, LoadedSince, LockInv, Unseen
  <2>5. ASSUME NEW h \in Getters
        PROVE  GetterInv(h)'
    <3>1. CASE h = g
      BY <3>1, <1>8, <1>1, <1>2, <2>1 DEF RecheckFresh, Handed,
             Numbers, EntryInv, GetterInv, LoadedSince, LockInv, Unseen
    <3>2. CASE h # g
      BY <3>2, <1>8, <1>1, <1>2, <2>1 DEF RecheckFresh, Handed,
             Numbers, EntryInv, GetterInv, LoadedSince, LockInv, Unseen
    <3>. QED
      BY <3>1, <3>2
  <2>6. ASSUME NEW h \in Getters, NEW k \in Getters
        PROVE  Unseen(h, k)'
    BY <1>8, <1>1, <1>2, <2>1 DEF RecheckFresh, Handed,
           Numbers, EntryInv, GetterInv, LoadedSince, LockInv, Unseen
  <2>. QED
    BY <2>2, <2>3, <2>4, <2>5, <2>6 DEF CacheInv
<1>9. ASSUME NEW g \in Getters, RecheckOutdated(g)
      PROVE  CacheInv'
  <2>1. /\ Handed(g) /\ getter'[g].at = "stamp"
        /\ getter'[g].must = getter[g].must /\ getter'[g].was = getter[g].was
    BY <1>9, <1>1, Gone DEF RecheckOutdated, Steps
  <2>2. CacheTypeOK'
    BY <1>9, <1>1, <2>1 DEF RecheckOutdated, Handed, CacheTypeOK
  <2>3. LockInv'
    BY <1>9, <1>1, <2>1 DEF RecheckOutdated, Handed, LockInv
  <2>4. EntryInv'
    BY <1>9, <1>1, <1>2, <2>1 DEF RecheckOutdated, Handed,
           Numbers, EntryInv, GetterInv, LoadedSince, LockInv, Unseen
  <2>5. ASSUME NEW h \in Getters
        PROVE  GetterInv(h)'
    <3>1. CASE h = g
      BY <3>1, <1>9, <1>1, <1>2, <2>1 DEF RecheckOutdated, Handed,
             Numbers, EntryInv, GetterInv, LoadedSince, LockInv, Unseen
    <3>2. CASE h # g
      BY <3>2, <1>9, <1>1, <1>2, <2>1 DEF RecheckOutdated, Handed,
             Numbers, EntryInv, GetterInv, LoadedSince, LockInv, Unseen
    <3>. QED
      BY <3>1, <3>2
  <2>6. ASSUME NEW h \in Getters, NEW k \in Getters
        PROVE  Unseen(h, k)'
    BY <1>9, <1>1, <1>2, <2>1 DEF RecheckOutdated, Handed,
           Numbers, EntryInv, GetterInv, LoadedSince, LockInv, Unseen
  <2>. QED
    BY <2>2, <2>3, <2>4, <2>5, <2>6 DEF CacheInv
<1>10. ASSUME NEW g \in Getters, Stamp(g)
      PROVE  CacheInv'
  <2>1. /\ Handed(g) /\ getter'[g].at = "load" /\ getter'[g].holds = built + 1
        /\ getter'[g].must = getter[g].must /\ getter'[g].was = getter[g].was
    <3>1. built + 1 \in 0..MaxInstances /\ built' = built + 1 /\ "load" \in Steps
      BY <1>10, <1>1 DEF Stamp, CacheTypeOK, Steps
    <3>2. TurnsTo(g, "load", built + 1)
      BY <1>10, <3>1 DEF Stamp, TurnsTo
    <3>. QED
      BY <1>1, <3>1, <3>2, Turned
  <2>2. CacheTypeOK'
    <3>1. built + 1 \in 1..MaxInstances /\ built' = built + 1 /\ version \in 0..MaxVersion
      BY <1>10, <1>1 DEF Stamp, CacheTypeOK
    <3>2. instance' = [instance EXCEPT ![built + 1].stamp = version]
      BY <1>10, <3>1 DEF Stamp
    <3>3. instance' \in [1..MaxInstances -> [stamp: 0..MaxVersion, loaded: 0..MaxVersion]]
      BY <1>1, <3>1, <3>2 DEF CacheTypeOK
    <3>. QED
      BY <1>10, <1>1, <2>1, <3>1, <3>3, SMTT(20) DEF Stamp, Handed, CacheTypeOK
  <2>7. /\ built' = built + 1 /\ instance'[built + 1].stamp = version
        /\ \A i \in 1..built : instance'[i] = instance[i]
    BY <1>10, <1>1 DEF Stamp, CacheTypeOK
  <2>8. UNCHANGED <<version, fence, entry, builder>> /\ getter[g].at = "stamp" /\ builder = g
    BY <1>10, <1>1 DEF Stamp, LockInv
  <2>3. LockInv'
    BY <1>10, <1>1, <2>1 DEF Stamp, Handed, LockInv
  <2>4. EntryInv'
    BY <1>10, <1>1, <1>2, <2>1, <2>7, <2>8 DEF Handed,
           Numbers, EntryInv, GetterInv, LoadedSince, LockInv, Unseen
  <2>5. ASSUME NEW h \in Getters
        PROVE  GetterInv(h)'
    <3>1. CASE h = g
      BY <3>1, <1>10, <1>1, <1>2, <2>1, <2>7, <2>8 DEF Handed,
             Numbers, EntryInv, GetterInv, LoadedSince, LockInv, Unseen
    <3>2. CASE h # g
      BY <3>2, <1>10, <1>1, <1>2, <2>1, <2>7, <2>8 DEF Handed,
             Numbers, EntryInv, GetterInv, LoadedSince, LockInv, Unseen
    <3>. QED
      BY <3>1, <3>2
  <2>6. ASSUME NEW h \in Getters, NEW k \in Getters
        PROVE  Unseen(h, k)'
    BY <1>10, <1>1, <1>2, <2>1, <2>7, <2>8 DEF Handed,
           Numbers, EntryInv, GetterInv, LoadedSince, LockInv, Unseen
  <2>. QED
    BY <2>2, <2>3, <2>4, <2>5, <2>6 DEF CacheInv
<1>11. ASSUME NEW g \in Getters, Load(g)
      PROVE  CacheInv'
  <2>1. /\ Handed(g) /\ getter'[g].at = "store" /\ getter'[g].holds = getter[g].holds
        /\ getter'[g].must = getter[g].must /\ getter'[g].was = getter[g].was
    BY <1>11, <1>1, Gone DEF Load, Steps
  <2>2. CacheTypeOK'
    BY <1>11, <1>1, <2>1 DEF Load, Handed, CacheTypeOK
  <2>7. /\ getter[g].holds \in 1..built /\ built' = built
        /\ instance'[getter[g].holds].stamp = instance[getter[g].holds].stamp
        /\ instance'[getter[g].holds].loaded = version
        /\ \A i \in 1..built \ {getter[g].holds} : instance'[i] = instance[i]
    BY <1>11, <1>1 DEF Load, CacheTypeOK, GetterInv
  <2>8. UNCHANGED <<version, fence, entry, builder>> /\ getter[g].at = "load" /\ builder = g
    BY <1>11, <1>1 DEF Load, LockInv
  <2>3. LockInv'
    BY <1>11, <1>1, <2>1 DEF Load, Handed, LockInv
  <2>4. EntryInv'
    BY <1>11, <1>1, <1>2, <2>1, <2>7, <2>8 DEF Handed,
           Numbers, EntryInv, GetterInv, LoadedSince, LockInv, Unseen
  <2>5. ASSUME NEW h \in Getters
        PROVE  GetterInv(h)'
    <3>1. CASE h = g
      BY <3>1, <1>11, <1>1, <1>2, <2>1, <2>7, <2>8 DEF Handed,
             Numbers, EntryInv, GetterInv, LoadedSince, LockInv, Unseen
    <3>2. CASE h # g
      BY <3>2, <1>11, <1>1, <1>2, <2>1, <2>7, <2>8 DEF Handed,
             Numbers, EntryInv, GetterInv, LoadedSince, LockInv, Unseen
    <3>. QED
      BY <3>1, <3>2
  <2>6. ASSUME NEW h \in Getters, NEW k \in Getters
        PROVE  Unseen(h, k)'
    BY <1>11, <1>1, <1>2, <2>1, <2>7, <2>8 DEF Handed,
           Numbers, EntryInv, GetterInv, LoadedSince, LockInv, Unseen
  <2>. QED
    BY <2>2, <2>3, <2>4, <2>5, <2>6 DEF CacheInv
<1>12. ASSUME NEW g \in Getters, Store(g)
      PROVE  CacheInv'
  <2>1. /\ Handed(g)
        /\ getter'[g].at = "idle" /\ getter'[g].must = 0 /\ getter'[g].was = 0
    BY <1>12, <1>1, <1>3, GetterLeft DEF Store
  <2>2. CacheTypeOK'
    BY <1>12, <1>1, <2>1 DEF Store, Handed, CacheTypeOK, GetterInv, LoadedSince
  <2>3. LockInv'
    BY <1>12, <1>1, <2>1 DEF Store, Handed, LockInv
  <2>4. EntryInv'
    BY <1>12, <1>1, <1>2, <2>1 DEF Store, Handed,
           Numbers, EntryInv, GetterInv, LoadedSince, LockInv, Unseen
  <2>5. ASSUME NEW h \in Getters
        PROVE  GetterInv(h)'
    <3>1. CASE h = g
      BY <3>1, <1>12, <1>1, <1>2, <2>1 DEF Store, Handed,
             Numbers, EntryInv, GetterInv, LoadedSince, LockInv, Unseen
    <3>2. CASE h # g
      BY <3>2, <1>12, <1>1, <1>2, <2>1 DEF Store, Handed,
             Numbers, EntryInv, GetterInv, LoadedSince, LockInv, Unseen
    <3>. QED
      BY <3>1, <3>2
  <2>6. ASSUME NEW h \in Getters, NEW k \in Getters
        PROVE  Unseen(h, k)'
    BY <1>12, <1>1, <1>2, <2>1 DEF Store, Handed,
           Numbers, EntryInv, GetterInv, LoadedSince, LockInv, Unseen
  <2>. QED
    BY <2>2, <2>3, <2>4, <2>5, <2>6 DEF CacheInv
<1>13. ASSUME Write \/ InvalidateEntry \/ Expire
       PROVE  CacheInv'
  <2>1. CacheTypeOK'
    BY <1>13, <1>1, SMTT(20) DEF CacheTypeOK, Write, InvalidateEntry, Expire
  <2>2. /\ UNCHANGED <<built, instance, builder, getter>>
        /\ version' >= version /\ fence' >= fence
        /\ fence' = fence \/ builder = NoGetter
        /\ entry' = NoInstance \/ (entry' = entry /\ fence' = fence)
        /\ fence' \in Nat /\ version' \in Nat
    BY <1>13, <1>2 DEF Numbers, Write, InvalidateEntry, Expire
  <2>. QED
    BY <1>1, <1>2, <2>1, <2>2
       DEF Numbers, CacheInv, LockInv, EntryInv, GetterInv, LoadedSince, Unseen
<1>14. CASE UNCHANGED cacheVars
  BY <1>14, <1>1 DEF cacheVars, CacheInv, CacheTypeOK, LockInv, EntryInv, GetterInv, LoadedSince, Unseen
<1>. QED
  BY <1>4, <1>5, <1>6, <1>7, <1>8, <1>9, <1>10, <1>11, <1>12, <1>13, <1>14 DEF CacheNext

\* What a getter has in hand is recent throughout.
LEMMA CacheInvariant == CacheSpec => []CacheInv
<1>1. CacheInit => CacheInv
  <2>. SUFFICES ASSUME CacheInit PROVE CacheInv
    OBVIOUS
  <2>1. Resting \in Getter /\ Resting.at = "idle" /\ Resting.must = 0 /\ Resting.was = 0
    BY DEF Resting, Getter, Steps, NoInstance
  <2>. QED
    BY <2>1 DEF CacheInit, CacheInv, CacheTypeOK, LockInv, GetterInv, EntryInv, Unseen, NoInstance
<1>. QED
  BY <1>1, CacheInductive, PTL DEF CacheSpec

\* What a getter that leaves is served, and on what grounds.
LEMMA ServedInstance ==
  ASSUME CacheInv, NEW g \in Getters, ServesNow(g), [CacheNext]_cacheVars
  PROVE  /\ Served(g)'.loaded >= getter[g].must
         /\ ~getter'[g].blind => Served(g)'.loaded >= getter[g].was
<1>. USE DEF NoInstance
<1>1. /\ CacheTypeOK /\ LockInv /\ EntryInv
      /\ GetterInv(g)
      /\ Numbers /\ getter[g].holds \in 0..MaxInstances /\ getter[g].blind \in BOOLEAN
  BY TypesAreNumbers DEF CacheInv, CacheTypeOK, Getter
<1>2. \A h \in Getters :
        Look(h) \/ EvictInspected(h) \/ Enter(h) \/ RecheckOutdated(h) \/ Stamp(h) \/ Load(h) =>
          getter'[g].at # "idle" \/ getter[g].at = "idle"
  <2>. SUFFICES ASSUME NEW h \in Getters PROVE
         Look(h) \/ EvictInspected(h) \/ Enter(h) \/ RecheckOutdated(h) \/ Stamp(h) \/ Load(h) =>
           getter'[g].at # "idle" \/ getter[g].at = "idle"
    OBVIOUS
  <2>1. CASE h = g
    BY <1>1, <2>1 DEF CacheTypeOK, Getter, Look, EvictInspected, Enter, RecheckOutdated, Stamp,
                      Load, Go
  <2>2. CASE h # g
    <3>1. Look(h) \/ EvictInspected(h) \/ Enter(h) \/ RecheckOutdated(h) \/ Stamp(h) \/ Load(h)
            => getter'[g] = getter[g]
      BY <1>1, <2>2 DEF CacheTypeOK, Look, EvictInspected, Enter, RecheckOutdated, Stamp, Load, Go
    <3>. QED
      BY <3>1
  <2>. QED
    BY <2>1, <2>2
<1>3. \A h \in Getters \ {g} : Inspect(h) \/ RecheckFresh(h) \/ Store(h) => getter'[g] = getter[g]
  BY <1>1 DEF CacheTypeOK, Inspect, RecheckFresh, Store, Serve, Go
<1>4. CASE Inspect(g) \/ RecheckFresh(g)
  <2>1. \/ Inspect(g) /\ Go(g, "evict")
        \/ \E b \in BOOLEAN : Fresh(getter[g].holds, b) /\ Serve(g, getter[g].holds, b)
    BY <1>4 DEF Inspect, RecheckFresh
  <2>2. CASE Go(g, "evict")
    BY <1>1, <2>2 DEF Go, ServesNow, CacheTypeOK, Getter
  <2>3. ASSUME NEW b \in BOOLEAN, Fresh(getter[g].holds, b), Serve(g, getter[g].holds, b)
        PROVE  /\ Served(g)'.loaded >= getter[g].must
               /\ ~getter'[g].blind => Served(g)'.loaded >= getter[g].was
    <3>1. /\ getter'[g].holds = getter[g].holds /\ (~getter'[g].blind => ~b)
          /\ instance' = instance
      BY <1>1, <1>4, <2>3 DEF Serve, Inspect, RecheckFresh, CacheTypeOK, Resting
    <3>2. LoadedSince(getter[g].holds, getter[g].must)
      BY <1>1, <1>4 DEF Inspect, RecheckFresh, GetterInv, LoadedSince, Numbers
    <3>. QED
      BY <1>1, <2>3, <3>1, <3>2 DEF Served, Fresh, LoadedSince, GetterInv, Numbers
  <2>. QED
    BY <2>1, <2>2, <2>3
<1>5. CASE Store(g)
  <2>1. getter'[g].holds = getter[g].holds /\ instance' = instance
    BY <1>1, <1>5 DEF Store, Serve, CacheTypeOK, Resting
  <2>. QED
    BY <1>1, <1>5, <2>1 DEF Store, Served, GetterInv, LoadedSince, Numbers
<1>6. CASE Write \/ InvalidateEntry \/ Expire \/ UNCHANGED cacheVars
  BY <1>6 DEF Write, InvalidateEntry, Expire, cacheVars, ServesNow
<1>. QED
  BY <1>2, <1>3, <1>4, <1>5, <1>6 DEF CacheNext, ServesNow

\* A get that begins after an invalidation has completed is never served an
\* instance built from an older configuration (ReflexioCache.get_or_create).
THEOREM InvalidationSeen == CacheSpec => InvalidationIsSeen
<1>1. CacheInv /\ [CacheNext]_cacheVars =>
        [\A g \in Getters : ServesNow(g) => Served(g)'.loaded >= getter[g].must]_cacheVars
  BY ServedInstance
<1>. QED
  BY <1>1, CacheInvariant, PTL DEF CacheSpec, InvalidationIsSeen

\* A get served on the word of a probe sees what was stored when it began.
THEOREM FreshHitCurrent == CacheSpec => FreshHitIsCurrent
<1>1. CacheInv /\ [CacheNext]_cacheVars =>
        [\A g \in Getters : ServesNow(g) /\ ~getter'[g].blind =>
           Served(g)'.loaded >= getter[g].was]_cacheVars
  BY ServedInstance
<1>. QED
  BY <1>1, CacheInvariant, PTL DEF CacheSpec, FreshHitIsCurrent

-----------------------------------------------------------------------------
(* The callback pool.                                                      *)

\* Taking out the element at i moves those behind it up.
LEMMA RemovedAt ==
  ASSUME NEW S, NEW s \in Seq(S), NEW i \in DOMAIN s
  PROVE  /\ RemoveAt(s, i) \in Seq(S)
         /\ Len(RemoveAt(s, i)) = Len(s) - 1
         /\ \A j \in 1..(Len(s) - 1) : RemoveAt(s, i)[j] = IF j < i THEN s[j] ELSE s[j + 1]
<1>1. i \in 1..Len(s) /\ Len(s) \in Nat
  OBVIOUS
<1>. DEFINE front == SubSeq(s, 1, i - 1)
            back  == SubSeq(s, i + 1, Len(s))
<1>2. /\ front \in Seq(S) /\ Len(front) = i - 1
      /\ \A j \in 1..(i - 1) : front[j] = s[j]
  BY <1>1, SubSeqProperties
<1>3. /\ back \in Seq(S) /\ Len(back) = Len(s) - i
      /\ \A j \in 1..(Len(s) - i) : back[j] = s[i + j]
  BY <1>1, SubSeqProperties
<1>. HIDE DEF front, back
<1>4. PICK t : t = front \o back
  OBVIOUS
<1>5. RemoveAt(s, i) = t
  BY <1>4 DEF RemoveAt, front, back
<1>6. /\ t \in Seq(S) /\ Len(t) = Len(s) - 1
      /\ \A j \in 1..(Len(s) - 1) : t[j] = IF j <= i - 1 THEN front[j] ELSE back[j - (i - 1)]
  <2>1. /\ t \in Seq(S)
        /\ Len(t) = Len(front) + Len(back)
        /\ \A j \in 1..(Len(front) + Len(back)) :
             t[j] = IF j <= Len(front) THEN front[j] ELSE back[j - Len(front)]
    BY <1>2, <1>3, <1>4, ConcatProperties, SMTT(20)
  <2>2. Len(front) + Len(back) = Len(s) - 1
    BY <1>1, <1>2, <1>3
  <2>. QED
    BY <1>2, <2>1, <2>2
<1>7. ASSUME NEW j \in 1..(Len(s) - 1)
      PROVE  t[j] = IF j < i THEN s[j] ELSE s[j + 1]
  <2>1. CASE j < i
    BY <1>1, <1>2, <1>6, <2>1
  <2>2. CASE ~(j < i)
    <3>1. j - (i - 1) \in 1..(Len(s) - i) /\ i + (j - (i - 1)) = j + 1
      BY <1>1, <2>2
    <3>2. t[j] = back[j - (i - 1)]
      BY <1>1, <1>6, <2>2
    <3>3. back[j - (i - 1)] = s[i + (j - (i - 1))]
      BY <1>3, <3>1
    <3>. QED
      BY <2>2, <3>1, <3>2, <3>3
  <2>. QED
    BY <2>1, <2>2
<1>. QED
  BY <1>5, <1>6, <1>7

\* A sequence over a set is one over a larger set.
LEMMA WiderSeq ==
  ASSUME NEW S, NEW T, S \subseteq T, NEW s \in Seq(S)
  PROVE  s \in Seq(T)
OBVIOUS

\* What a sequence holds is of its type.
LEMMA SeqElements ==
  ASSUME NEW S, NEW s \in Seq(S)
  PROVE  Len(s) \in Nat /\ DOMAIN s = 1..Len(s) /\ \A i \in DOMAIN s : s[i] \in S
OBVIOUS

\* The objects that wait.
Waiting == {queue[i] : i \in DOMAIN queue}

\* Objects wait once; a key's entry names the one that waits for it, and the
\* running callbacks have keys of their own.
PoolInv ==
  /\ CallbackTypeOK
  /\ \A i, j \in DOMAIN queue : i # j => queue[i] # queue[j]
  /\ \A k \in Keys : pendingByKey[k] # NoCallback =>
       pendingByKey[k] \in Waiting /\ callbacks[pendingByKey[k]].key = k
  /\ \A c \in Waiting : callbacks[c].key \in Keys => pendingByKey[callbacks[c].key] = c
  /\ \A v, w \in Workers :
       v # w /\ running[v] # NoCallback /\ running[w] # NoCallback
         /\ callbacks[running[v]].key \in Keys
       => callbacks[running[v]].key # callbacks[running[w]].key
  /\ \A c \in Waiting : callbacks[c].fire \in 1..fires
  /\ \A n \in 1..fires : n \notin settled => \E c \in Waiting : callbacks[c].fire = n

\* The strengthened invariant has both properties of the pool as parts.
LEMMA PoolInvSuffices == PoolInv => NoFireIsForgotten /\ KeysAreSerial
<1>. SUFFICES ASSUME PoolInv PROVE NoFireIsForgotten /\ KeysAreSerial
  OBVIOUS
<1>1. NoFireIsForgotten
  BY DEF PoolInv, NoFireIsForgotten, Waiting
<1>2. ASSUME NEW i \in DOMAIN queue, NEW j \in DOMAIN queue, i # j,
             callbacks[queue[i]].key \in Keys
      PROVE  callbacks[queue[i]].key # callbacks[queue[j]].key
  BY <1>2 DEF PoolInv, Waiting
<1>. QED
  BY <1>1, <1>2 DEF PoolInv, KeysAreSerial

\* What each operation does to the objects that wait.
LEMMA PoolTypes ==
  ASSUME PoolInv
  PROVE  /\ fires \in Nat /\ MaxFires \in Nat /\ fires <= MaxFires
         /\ callbacks \in [Fires -> Callback] /\ Fires = 1..MaxFires
         /\ queue \in Seq(1..fires) /\ DOMAIN queue = 1..Len(queue) /\ Len(queue) \in Nat
         /\ \A i \in 1..Len(queue) : queue[i] \in 1..fires
         /\ Waiting \subseteq 1..fires
BY DEF PoolInv, CallbackTypeOK, Fires, Waiting

\* A fire that overtakes another of its key is kept in its place.
LEMMA CoalesceKeeps ==
  ASSUME PoolInv, NEW k \in Keys, Coalesce(k)
  PROVE  PoolInv'
<1>1. PICK c \in Waiting : c = pendingByKey[k]
  BY DEF Coalesce, PoolInv
<1>2. c \in 1..fires /\ fires' = fires + 1 /\ fires' \in 1..MaxFires /\ c \in Fires
  BY PoolTypes DEF Coalesce
<1>3. /\ callbacks' \in [Fires -> Callback]
      /\ callbacks'[c].fire = fires'
      /\ \A d \in Fires : callbacks'[d].key = callbacks[d].key
      /\ \A d \in Fires \ {c} : callbacks'[d] = callbacks[d]
  <2>1. callbacks \in [Fires -> Callback] /\ callbacks[c] \in Callback
    BY <1>2, PoolTypes
  <2>2. ASSUME NEW r \in Callback
        PROVE  /\ [r EXCEPT !.fire = fires'] \in Callback
               /\ [r EXCEPT !.fire = fires'].fire = fires'
               /\ [r EXCEPT !.fire = fires'].key = r.key
    BY <1>2 DEF Callback
  <2>3. callbacks' = [callbacks EXCEPT ![c].fire = fires']
    BY <1>1 DEF Coalesce
  <2>4. /\ callbacks'[c] = [callbacks[c] EXCEPT !.fire = fires']
        /\ \A d \in Fires \ {c} : callbacks'[d] = callbacks[d]
    BY <1>2, <2>1, <2>3
  <2>5. callbacks' \in [Fires -> Callback]
    BY <1>2, <2>1, <2>2, <2>3
  <2>. QED
    BY <2>1, <2>2, <2>4, <2>5, ZenonT(40)
<1>4. /\ UNCHANGED <<queue, pendingByKey, running>> /\ Waiting' = Waiting
      /\ settled' = settled \cup {callbacks[c].fire}
  BY <1>1 DEF Coalesce, Waiting
<1>5. callbacks[c].fire \in 1..fires
  BY <1>1 DEF PoolInv
<1>6. CallbackTypeOK'
  <2>1. queue' \in Seq(1..fires')
    <3>1. 1..fires \subseteq 1..fires' /\ queue \in Seq(1..fires) /\ queue' = queue
      BY <1>2, <1>4, PoolTypes
    <3>. QED
      BY <3>1, WiderSeq
  <2>2. /\ fires' \in 0..MaxFires
        /\ pendingByKey' \in [Keys -> 0..fires'] /\ running' \in [Workers -> 0..fires']
        /\ settled' \subseteq 1..fires'
    <3>1. 0..fires \subseteq 0..fires' /\ 1..fires \subseteq 1..fires'
      BY <1>2, PoolTypes
    <3>2. /\ pendingByKey \in [Keys -> 0..fires] /\ running \in [Workers -> 0..fires]
          /\ settled \subseteq 1..fires
      BY DEF PoolInv, CallbackTypeOK
    <3>3. fires' \in 0..MaxFires
      BY <1>2, PoolTypes
    <3>4. settled' \subseteq 1..fires'
      BY <1>4, <1>5, <3>1, <3>2
    <3>5. pendingByKey' \in [Keys -> 0..fires'] /\ running' \in [Workers -> 0..fires']
      BY <1>4, <3>1, <3>2
    <3>. QED
      BY <3>3, <3>4, <3>5
  <2>. QED
    BY <1>3, <2>1, <2>2 DEF CallbackTypeOK
<1>7. ASSUME NEW n \in 1..fires', n \notin settled'
      PROVE  \E d \in Waiting : callbacks'[d].fire = n
  <2>1. CASE n = fires'
    BY <1>3, <2>1
  <2>2. CASE n # fires'
    <3>1. n \in 1..fires
      BY <1>2, <1>7, <2>2, PoolTypes
    <3>2. n \notin settled /\ n # callbacks[c].fire
      BY <1>4, <1>7
    <3>3. PICK d \in Waiting : callbacks[d].fire = n
      BY <3>1, <3>2 DEF PoolInv
    <3>4. d # c /\ d \in Fires
      BY <1>2, <3>2, <3>3, PoolTypes
    <3>. QED
      BY <1>3, <3>3, <3>4
  <2>. QED
    BY <2>1, <2>2
<1>8. \A d \in Fires : callbacks'[d].key = callbacks[d].key
  BY <1>3
<1>9. Waiting \subseteq Fires
  BY PoolTypes
<1>10. \A w \in Workers : running[w] # NoCallback => running[w] \in Fires
  BY PoolTypes DEF PoolInv, CallbackTypeOK, NoCallback
<1>11. \A d \in Waiting : callbacks'[d].fire \in 1..fires'
  <2>. SUFFICES ASSUME NEW d \in Waiting
                PROVE  callbacks'[d].fire \in 1..fires'
    OBVIOUS
  <2>1. callbacks[d].fire \in 1..fires /\ fires \in Nat
    BY PoolTypes DEF PoolInv
  <2>2. CASE d = c
    BY <1>2, <1>3, <1>9, <2>1, <2>2
  <2>3. CASE d # c
    BY <1>2, <1>3, <1>9, <2>1, <2>3
  <2>. QED
    BY <2>2, <2>3
<1>12. \A v, w \in Workers :
         v # w /\ running'[v] # NoCallback /\ running'[w] # NoCallback
           /\ callbacks'[running'[v]].key \in Keys
         => callbacks'[running'[v]].key # callbacks'[running'[w]].key
  BY <1>4, <1>8, <1>10 DEF PoolInv
<1>13. /\ \A i, j \in DOMAIN queue' : i # j => queue'[i] # queue'[j]
       /\ \A l \in Keys : pendingByKey'[l] # NoCallback =>
            pendingByKey'[l] \in Waiting' /\ callbacks'[pendingByKey'[l]].key = l
       /\ \A d \in Waiting' : callbacks'[d].key \in Keys => pendingByKey'[callbacks'[d].key] = d
  BY <1>4, <1>8, <1>9 DEF PoolInv
<1>. QED
  BY <1>4, <1>6, <1>7, <1>11, <1>12, <1>13 DEF PoolInv

\* The objects a full queue is left with, and the new one.
LEMMA EnqueueOrder ==
  ASSUME PoolInv, NEW k \in Keys \cup {NoKey}, Enqueue(k)
  PROVE  /\ fires' = fires + 1 /\ fires' \in 1..MaxFires
         /\ queue' \in Seq(1..fires')
         /\ \A i, j \in DOMAIN queue' : i # j => queue'[i] # queue'[j]
         /\ Dropped \subseteq Waiting
         /\ Waiting' = (Waiting \ Dropped) \cup {fires'}
<1>1. /\ fires' = fires + 1 /\ fires' \in 1..MaxFires /\ fires' \notin 1..fires
      /\ 1..fires \subseteq 1..fires'
  BY PoolTypes DEF Enqueue
<1>2. queue \in Seq(1..fires) /\ \A i, j \in DOMAIN queue : i # j => queue[i] # queue[j]
  BY PoolTypes DEF PoolInv
<1>3. PICK q : /\ q = IF Full THEN Tail(queue) ELSE queue
               /\ q \in Seq(1..fires)
               /\ \A i, j \in DOMAIN q : i # j => q[i] # q[j]
               /\ {q[i] : i \in DOMAIN q} = Waiting \ Dropped
               /\ Dropped \subseteq Waiting
  <2>1. CASE Full
    <3>1. queue # <<>> /\ Len(queue) \in Nat
      BY <1>2, <2>1 DEF Full
    <3>2. /\ Tail(queue) \in Seq(1..fires) /\ Len(Tail(queue)) = Len(queue) - 1
          /\ \A i \in 1..Len(Tail(queue)) : Tail(queue)[i] = queue[i + 1]
      BY <1>2, <3>1, HeadTailProperties
    <3>3. Head(queue) = queue[1] /\ 1 \in DOMAIN queue /\ Dropped = {queue[1]}
      BY <1>2, <2>1, <3>1 DEF Dropped
    <3>4. {Tail(queue)[i] : i \in DOMAIN Tail(queue)} = Waiting \ {queue[1]}
      <4>1. ASSUME NEW i \in DOMAIN Tail(queue)
            PROVE  Tail(queue)[i] \in Waiting \ {queue[1]}
        <5>1. i + 1 \in DOMAIN queue /\ i + 1 # 1 /\ Tail(queue)[i] = queue[i + 1]
          BY <1>2, <3>1, <3>2
        <5>. QED
          BY <1>2, <3>3, <5>1 DEF Waiting
      <4>2. ASSUME NEW c \in Waiting, c # queue[1]
            PROVE  \E i \in DOMAIN Tail(queue) : Tail(queue)[i] = c
        <5>1. PICK j \in DOMAIN queue : queue[j] = c
          BY DEF Waiting
        <5>2. j - 1 \in 1..Len(Tail(queue)) /\ (j - 1) + 1 = j
          BY <1>2, <3>1, <3>2, <4>2, <5>1
        <5>3. Tail(queue)[j - 1] = c
          BY <3>2, <5>1, <5>2
        <5>. QED
          BY <3>2, <5>2, <5>3
      <4>. QED
        BY <4>1, <4>2
    <3>5. \A i, j \in DOMAIN Tail(queue) : i # j => Tail(queue)[i] # Tail(queue)[j]
      BY <1>2, <3>1, <3>2
    <3>. QED
      BY <2>1, <3>2, <3>3, <3>4, <3>5 DEF Waiting
  <2>2. CASE ~Full
    BY <1>2, <2>2 DEF Dropped, Waiting
  <2>. QED
    BY <2>1, <2>2
<1>4. queue' = Append(q, fires') /\ q \in Seq(1..fires')
  BY <1>1, <1>3, WiderSeq DEF Enqueue
<1>5. /\ queue' \in Seq(1..fires') /\ Len(queue') = Len(q) + 1
      /\ \A i \in 1..Len(q) : queue'[i] = q[i]
      /\ queue'[Len(q) + 1] = fires'
  BY <1>1, <1>4, AppendProperties
<1>6. Len(q) \in Nat /\ DOMAIN q = 1..Len(q) /\ DOMAIN queue' = 1..(Len(q) + 1)
      /\ \A i \in DOMAIN q : q[i] \in 1..fires
  <2>1. Len(q) \in Nat /\ DOMAIN q = 1..Len(q) /\ \A i \in DOMAIN q : q[i] \in 1..fires
    BY <1>3, SeqElements
  <2>2. DOMAIN queue' = 1..Len(queue')
    BY <1>5, SeqElements
  <2>. QED
    BY <1>5, <2>1, <2>2
<1>7. ASSUME NEW i \in DOMAIN queue', NEW j \in DOMAIN queue', i # j
      PROVE  queue'[i] # queue'[j]
  <2>1. CASE i \in DOMAIN q /\ j \in DOMAIN q
    BY <1>3, <1>5, <1>6, <1>7, <2>1
  <2>2. CASE i \in DOMAIN q /\ j \notin DOMAIN q
    BY <1>1, <1>5, <1>6, <1>7, <2>2
  <2>3. CASE i \notin DOMAIN q /\ j \in DOMAIN q
    BY <1>1, <1>5, <1>6, <1>7, <2>3
  <2>4. CASE i \notin DOMAIN q /\ j \notin DOMAIN q
    BY <1>6, <1>7, <2>4
  <2>. QED
    BY <2>1, <2>2, <2>3, <2>4
<1>8. Waiting' = {queue'[i] : i \in DOMAIN queue'}
  BY DEF Waiting
<1>9. Waiting' = (Waiting \ Dropped) \cup {fires'}
  <2>1. \A i \in DOMAIN queue' : queue'[i] \in {q[j] : j \in DOMAIN q} \cup {fires'}
    BY <1>5, <1>6
  <2>2. \A j \in DOMAIN q : q[j] \in Waiting'
    BY <1>5, <1>6, <1>8
  <2>3. fires' \in Waiting'
    BY <1>5, <1>6, <1>8
  <2>4. Waiting' \subseteq {q[j] : j \in DOMAIN q} \cup {fires'}
    BY <1>8, <2>1
  <2>5. {q[j] : j \in DOMAIN q} \subseteq Waiting'
    BY <2>2
  <2>. QED
    BY <1>3, <2>3, <2>4, <2>5
<1>. QED
  BY <1>1, <1>3, <1>5, <1>7, <1>9

\* A fire that is queued is kept.
LEMMA EnqueueKeeps ==
  ASSUME PoolInv, NEW k \in Keys \cup {NoKey}, Enqueue(k)
  PROVE  PoolInv'
<1>. DEFINE c == fires + 1
<1>1. /\ fires' = c /\ c \in 1..MaxFires /\ c \notin 1..fires /\ c # NoCallback
      /\ 1..fires \subseteq 1..c /\ 0..fires \subseteq 0..c /\ c \in 1..c
      /\ c \in Fires /\ c \in 0..MaxFires
  BY EnqueueOrder, PoolTypes DEF NoCallback
<1>2. /\ queue' \in Seq(1..c)
      /\ \A i, j \in DOMAIN queue' : i # j => queue'[i] # queue'[j]
      /\ Dropped \subseteq Waiting /\ Waiting' = (Waiting \ Dropped) \cup {c}
  BY <1>1, EnqueueOrder
<1>3. /\ callbacks' \in [Fires -> Callback]
      /\ callbacks'[c].key = k /\ callbacks'[c].fire = c
      /\ \A d \in Fires \ {c} : callbacks'[d] = callbacks[d]
  <2>1. callbacks' = [callbacks EXCEPT ![c] = [key |-> k, fire |-> c]]
    BY <1>1 DEF Enqueue
  <2>2. [key |-> k, fire |-> c] \in Callback
    BY <1>1 DEF Callback
  <2>. QED
    BY <1>1, <2>1, <2>2, PoolTypes
<1>4. Waiting \subseteq 1..fires /\ 1..fires \subseteq Fires \ {c}
  BY <1>1, PoolTypes
<1>5. \A l \in Keys : pendingByKey'[l] =
        IF l = k THEN c ELSE IF pendingByKey[l] \in Dropped THEN NoCallback ELSE pendingByKey[l]
  BY <1>1 DEF Enqueue, LosesEntry
<1>6. /\ running' = running
      /\ settled' = settled \cup {callbacks[d].fire : d \in Dropped}
      /\ k \in Keys => pendingByKey[k] = NoCallback
  BY DEF Enqueue
<1>. HIDE DEF c
<1>7. CallbackTypeOK'
  <2>1. /\ pendingByKey \in [Keys -> 0..fires] /\ running \in [Workers -> 0..fires]
        /\ settled \subseteq 1..fires
    BY DEF PoolInv, CallbackTypeOK
  <2>2. /\ running' \in [Workers -> 0..c]
        /\ \A d \in Dropped : callbacks[d].fire \in 1..fires
    <3>1. running' \in [Workers -> 0..c]
      BY <1>1, <1>6, <2>1
    <3>2. \A d \in Dropped : callbacks[d].fire \in 1..fires
      BY <1>2 DEF PoolInv
    <3>. QED
      BY <3>1, <3>2
  <2>5. settled' \subseteq 1..c
    <3>1. settled' \subseteq 1..fires
      BY <1>6, <2>1, <2>2
    <3>. QED
      BY <1>1, <3>1
  <2>3. \A l \in Keys : pendingByKey'[l] \in 0..c
    BY <1>1, <1>5, <2>1 DEF NoCallback
  <2>4. pendingByKey' \in [Keys -> 0..c]
    BY <2>3 DEF Enqueue
  <2>. QED
    BY <1>1, <1>2, <1>3, <2>2, <2>4, <2>5 DEF CallbackTypeOK
<1>8. \A l \in Keys : pendingByKey'[l] # NoCallback =>
        pendingByKey'[l] \in Waiting' /\ callbacks'[pendingByKey'[l]].key = l
  <2>. SUFFICES ASSUME NEW l \in Keys, pendingByKey'[l] # NoCallback
                PROVE  pendingByKey'[l] \in Waiting' /\ callbacks'[pendingByKey'[l]].key = l
    OBVIOUS
  <2>1. CASE l = k
    BY <1>2, <1>3, <1>5, <2>1
  <2>2. CASE l # k
    <3>1. /\ pendingByKey'[l] = pendingByKey[l] /\ pendingByKey[l] \in Waiting \ Dropped
          /\ callbacks[pendingByKey[l]].key = l
      BY <1>5, <2>2 DEF PoolInv
    <3>. QED
      BY <1>2, <1>3, <1>4, <3>1
  <2>. QED
    BY <2>1, <2>2
<1>9. \A d \in Waiting' : callbacks'[d].key \in Keys => pendingByKey'[callbacks'[d].key] = d
  <2>. SUFFICES ASSUME NEW d \in Waiting', callbacks'[d].key \in Keys
                PROVE  pendingByKey'[callbacks'[d].key] = d
    OBVIOUS
  <2>1. CASE d = c
    BY <1>3, <1>5, <2>1
  <2>2. CASE d # c
    <3>1. d \in Waiting \ Dropped /\ callbacks'[d] = callbacks[d]
      BY <1>2, <1>3, <1>4, <2>2
    <3>2. pendingByKey[callbacks[d].key] = d /\ d # NoCallback
      BY <3>1, PoolTypes DEF PoolInv, NoCallback
    <3>3. callbacks[d].key # k
      BY <1>6, <3>1, <3>2
    <3>. QED
      BY <1>5, <3>1, <3>2, <3>3
  <2>. QED
    BY <2>1, <2>2
<1>10. \A v, w \in Workers :
         v # w /\ running'[v] # NoCallback /\ running'[w] # NoCallback
           /\ callbacks'[running'[v]].key \in Keys
         => callbacks'[running'[v]].key # callbacks'[running'[w]].key
  <2>1. \A w \in Workers : running[w] # NoCallback => running[w] \in Fires \ {c}
    <3>1. \A w \in Workers : running[w] \in 0..fires
      BY DEF PoolInv, CallbackTypeOK
    <3>2. \A d \in 0..fires : d # NoCallback => d \in 1..fires
      BY PoolTypes DEF NoCallback
    <3>. QED
      BY <1>4, <3>1, <3>2
  <2>. QED
    BY <1>3, <1>6, <2>1 DEF PoolInv
<1>11. \A d \in Waiting' : callbacks'[d].fire \in 1..c
  <2>. SUFFICES ASSUME NEW d \in Waiting'
                PROVE  callbacks'[d].fire \in 1..c
    OBVIOUS
  <2>1. CASE d = c
    BY <1>1, <1>3, <2>1
  <2>2. CASE d # c
    <3>1. d \in Waiting /\ callbacks'[d] = callbacks[d]
      BY <1>2, <1>3, <1>4, <2>2
    <3>2. callbacks[d].fire \in 1..fires
      BY <3>1 DEF PoolInv
    <3>. QED
      BY <1>1, <3>1, <3>2
  <2>. QED
    BY <2>1, <2>2
<1>12. ASSUME NEW n \in 1..c, n \notin settled'
       PROVE  \E d \in Waiting' : callbacks'[d].fire = n
  <2>1. CASE n = c
    BY <1>2, <1>3, <2>1
  <2>2. CASE n # c
    <3>1. n \in 1..fires
      BY <2>2, PoolTypes DEF c
    <3>2. PICK d \in Waiting : callbacks[d].fire = n
      BY <1>6, <1>12, <3>1 DEF PoolInv
    <3>3. d \notin Dropped
      BY <1>6, <1>12, <3>2
    <3>. QED
      BY <1>2, <1>3, <1>4, <3>2, <3>3
  <2>. QED
    BY <2>1, <2>2
<1>. QED
  BY <1>1, <1>2, <1>7, <1>8, <1>9, <1>10, <1>11, <1>12 DEF PoolInv

\* A worker takes one of the objects that wait.
LEMMA TakeKeeps ==
  ASSUME PoolInv, NEW w \in Workers, Take(w)
  PROVE  PoolInv'
<1>1. PICK i \in DOMAIN queue :
        /\ Ready(i)
        /\ queue' = RemoveAt(queue, i)
        /\ pendingByKey' = [k \in Keys |->
             IF k = callbacks[queue[i]].key THEN NoCallback ELSE pendingByKey[k]]
        /\ running' = [running EXCEPT ![w] = queue[i]]
        /\ settled' = settled \cup {callbacks[queue[i]].fire}
  BY DEF Take
<1>2. UNCHANGED <<fires, callbacks>> /\ running[w] = NoCallback
  BY DEF Take
<1>3. PICK c \in Waiting : c = queue[i]
  BY DEF Waiting
<1>4. /\ c \in 1..fires /\ c # NoCallback
      /\ pendingByKey \in [Keys -> 0..fires] /\ running \in [Workers -> 0..fires]
      /\ settled \subseteq 1..fires
      /\ 1..fires \subseteq 0..fires /\ NoCallback \in 0..fires
  BY PoolTypes, SMTT(20) DEF PoolInv, CallbackTypeOK, NoCallback
<1>5. /\ queue' \in Seq(1..fires) /\ Len(queue') = Len(queue) - 1
      /\ \A j \in 1..(Len(queue) - 1) : queue'[j] = IF j < i THEN queue[j] ELSE queue[j + 1]
  BY <1>1, PoolTypes, RemovedAt
<1>6. /\ DOMAIN queue' = 1..(Len(queue) - 1) /\ DOMAIN queue = 1..Len(queue)
      /\ Len(queue) \in Nat /\ i \in 1..Len(queue)
  BY <1>5, PoolTypes, SeqElements
<1>7. \A j \in DOMAIN queue' : \E m \in DOMAIN queue \ {i} :
        queue'[j] = queue[m] /\ m = IF j < i THEN j ELSE j + 1
  <2>. SUFFICES ASSUME NEW j \in DOMAIN queue'
                PROVE  \E m \in DOMAIN queue \ {i} :
                         queue'[j] = queue[m] /\ m = IF j < i THEN j ELSE j + 1
    OBVIOUS
  <2>1. CASE j < i
    BY <1>5, <1>6, <2>1
  <2>2. CASE ~(j < i)
    BY <1>5, <1>6, <2>2
  <2>. QED
    BY <2>1, <2>2
<1>8. ASSUME NEW j \in DOMAIN queue', NEW m \in DOMAIN queue', j # m
      PROVE  queue'[j] # queue'[m]
  <2>1. (IF j < i THEN j ELSE j + 1) # (IF m < i THEN m ELSE m + 1)
    BY <1>6, <1>8
  <2>. QED
    BY <1>7, <2>1 DEF PoolInv
<1>9. Waiting' = Waiting \ {c}
  <2>1. Waiting' \subseteq Waiting \ {c}
    <3>1. \A j \in DOMAIN queue' : queue'[j] \in Waiting \ {c}
      BY <1>3, <1>7 DEF Waiting, PoolInv
    <3>. QED
      BY <3>1 DEF Waiting
  <2>2. ASSUME NEW d \in Waiting, d # c
        PROVE  d \in Waiting'
    <3>1. PICK m \in DOMAIN queue : queue[m] = d
      BY DEF Waiting
    <3>2. m # i
      BY <1>3, <2>2, <3>1
    <3>3. CASE m < i
      <4>1. m \in DOMAIN queue' /\ queue'[m] = d
        BY <1>5, <1>6, <3>1, <3>3
      <4>. QED
        BY <4>1 DEF Waiting
    <3>4. CASE m > i
      <4>1. m - 1 \in DOMAIN queue' /\ ~(m - 1 < i) /\ (m - 1) + 1 = m
        BY <1>6, <3>4
      <4>2. queue'[m - 1] = d
        BY <1>5, <1>6, <3>1, <4>1
      <4>. QED
        BY <4>1, <4>2 DEF Waiting
    <3>. QED
      BY <1>6, <3>2, <3>3, <3>4
  <2>. QED
    BY <2>1, <2>2
<1>10. /\ running'[w] = c /\ \A v \in Workers \ {w} : running'[v] = running[v]
       /\ running' \in [Workers -> 0..fires]
  BY <1>1, <1>3, <1>4
<1>11. CallbackTypeOK'
  <2>1. settled' \subseteq 1..fires
    BY <1>1, <1>3, <1>4, ZenonT(40) DEF PoolInv
  <2>2. pendingByKey' \in [Keys -> 0..fires]
    BY <1>1, <1>4
  <2>. QED
    BY <1>2, <1>5, <1>10, <2>1, <2>2 DEF PoolInv, CallbackTypeOK
<1>12. \A k \in Keys : pendingByKey'[k] # NoCallback =>
         pendingByKey'[k] \in Waiting' /\ callbacks'[pendingByKey'[k]].key = k
  BY <1>1, <1>2, <1>3, <1>9 DEF PoolInv
<1>13. \A d \in Waiting' : callbacks'[d].key \in Keys => pendingByKey'[callbacks'[d].key] = d
  <2>. SUFFICES ASSUME NEW d \in Waiting', callbacks[d].key \in Keys
                PROVE  pendingByKey'[callbacks[d].key] = d
    BY <1>2
  <2>1. d \in Waiting /\ d # c /\ pendingByKey[callbacks[d].key] = d
    BY <1>9 DEF PoolInv
  <2>2. callbacks[d].key # callbacks[c].key
    BY <2>1 DEF PoolInv
  <2>. QED
    BY <1>1, <1>3, <2>1, <2>2
<1>14. \A v \in Workers \ {w} : running[v] # NoCallback /\ callbacks[c].key \in Keys =>
         callbacks[running[v]].key # callbacks[c].key
  BY <1>1, <1>3, CallbackAssumption DEF Ready, ActiveKeys
<1>15. \A u, v \in Workers :
         u # v /\ running'[u] # NoCallback /\ running'[v] # NoCallback
           /\ callbacks'[running'[u]].key \in Keys
         => callbacks'[running'[u]].key # callbacks'[running'[v]].key
  BY <1>2, <1>10, <1>14 DEF PoolInv
<1>16. /\ \A d \in Waiting' : callbacks'[d].fire \in 1..fires'
       /\ \A n \in 1..fires' : n \notin settled' => \E d \in Waiting' : callbacks'[d].fire = n
  BY <1>1, <1>2, <1>3, <1>9 DEF PoolInv
<1>. QED
  BY <1>8, <1>11, <1>12, <1>13, <1>15, <1>16 DEF PoolInv

\* Every step of the pool keeps its fires.
LEMMA PoolInductive == PoolInv /\ [CallbackNext]_callbackVars => PoolInv'
<1>. SUFFICES ASSUME PoolInv, [CallbackNext]_callbackVars
              PROVE  PoolInv'
  OBVIOUS
<1>1. ASSUME NEW k \in Keys \cup {NoKey}, Coalesce(k)
      PROVE  PoolInv'
  BY <1>1, CoalesceKeeps DEF Coalesce
<1>2. ASSUME NEW w \in Workers, Return(w)
      PROVE  PoolInv'
  <2>1. /\ UNCHANGED <<fires, callbacks, queue, pendingByKey, settled>> /\ Waiting' = Waiting
        /\ running \in [Workers -> 0..fires] /\ NoCallback \in 0..fires
        /\ running' = [running EXCEPT ![w] = NoCallback]
    BY <1>2, PoolTypes DEF Return, Waiting, PoolInv, CallbackTypeOK, NoCallback
  <2>2. /\ running' \in [Workers -> 0..fires]
        /\ \A v \in Workers : running'[v] \in {running[v], NoCallback}
    BY <2>1
  <2>3. CallbackTypeOK'
    BY <2>1, <2>2 DEF PoolInv, CallbackTypeOK
  <2>. QED
    BY <2>1, <2>2, <2>3 DEF PoolInv
<1>3. CASE UNCHANGED callbackVars
  BY <1>3 DEF callbackVars, PoolInv, CallbackTypeOK, Waiting
<1>. QED
  BY <1>1, <1>2, <1>3, EnqueueKeeps, TakeKeeps DEF CallbackNext

\* The fires are kept throughout.
LEMMA PoolInvariant == CallbackSpec => []PoolInv
<1>1. CallbackInit => PoolInv
  <2>. SUFFICES ASSUME CallbackInit PROVE PoolInv
    OBVIOUS
  <2>1. Waiting = {} /\ DOMAIN queue = {}
    BY DEF CallbackInit, Waiting
  <2>2. CallbackTypeOK
    BY DEF CallbackInit, CallbackTypeOK, Callback, Fires, NoCallback
  <2>. QED
    BY <2>1, <2>2 DEF CallbackInit, PoolInv
<1>. QED
  BY <1>1, PoolInductive, PTL DEF CallbackSpec

\* No submitted callback is lost: until it starts, is dropped for lack of room
\* or is overtaken, an object in the queue runs it (BoundedCallbackExecutor).
THEOREM FiresRemembered == CallbackSpec => []NoFireIsForgotten
BY PoolInvariant, PoolInvSuffices, PTL

\* Callbacks of one key never overlap, and at most one of them waits.
THEOREM KeysSerial == CallbackSpec => []KeysAreSerial
BY PoolInvariant, PoolInvSuffices, PTL

-----------------------------------------------------------------------------
(* The lease of an explicit caller.                                        *)

USE LeaseAssumption, JournalAssumption

Owner == [phase: Phases, lost: BOOLEAN, uncertain: BOOLEAN, warned: BOOLEAN,
          reported: BOOLEAN]
Beat == [answer: {"off", "waiting", "renewed", "refused", "failed"}, after: BOOLEAN]

AtWork == {"body", "unlost", "fenced"}

\* Once lost, a lease is not had again under the same name: what was answered
\* of the loss stays true.
LossIsFinal(b, owned) == b.after => ~owned /\ b.answer \in {"refused", "failed"}

\* A caller that is warned still sees a flag when it comes to look: no renewal
\* that succeeded is left to be heard, to lower it.
WarningIsKept(o, b, owned) ==
  /\ o.phase \in {"away", "claiming"} \cup AtWork => ~o.reported
  /\ o.phase \in {"away", "claiming"} => ~o.warned
  /\ o.phase = "claiming" => b = NoBeat
  /\ o.phase \in AtWork /\ o.warned =>
       /\ ~owned /\ b.answer # "renewed"
       /\ o.lost \/ o.uncertain
       /\ o.phase = "unlost" => o.uncertain
       /\ o.phase # "fenced"
  /\ o.reported => ~o.warned

CallerInv(o, b, owned) == LossIsFinal(b, owned) /\ WarningIsKept(o, b, owned)

LeaseInv ==
  /\ LeaseTypeOK
  /\ \A c \in Callers : CallerInv(owner[c], beat[c], Owned(c))

\* Nobody at work and no heartbeat is a sound state of a caller.
LEMMA RestingCaller == NoOwner \in Owner /\ NoBeat \in Beat /\ CallerInv(NoOwner, NoBeat, FALSE)
BY DEF NoOwner, Owner, NoBeat, Beat, Phases, AtWork, CallerInv, LossIsFinal, WarningIsKept

\* Initially nobody is at work.
LEMMA LeaseInitial == LeaseInit => LeaseInv
BY RestingCaller, ZenonT(40) DEF LeaseInit, LeaseInv, LeaseTypeOK, Owned, Owner, Beat

\* A step of caller c leaves to the others what they know, and their lease at
\* most runs out.
LEMMA CallerStep ==
  ASSUME LeaseInv, NEW c \in Callers, NEW o \in Owner, NEW b \in Beat,
         owner' = [owner EXCEPT ![c] = o], beat' = [beat EXCEPT ![c] = b],
         token' \in Callers \cup {NoCaller}, unexpired' \in BOOLEAN,
         \A d \in Callers \ {c} : Owned(d)' => Owned(d),
         CallerInv(o, b, Owned(c)')
  PROVE  LeaseInv'
<1>1. LeaseTypeOK'
  BY DEF LeaseInv, LeaseTypeOK, Owner, Beat
<1>2. owner'[c] = o /\ beat'[c] = b
  BY DEF LeaseInv, LeaseTypeOK
<1>3. ASSUME NEW d \in Callers \ {c}
      PROVE  CallerInv(owner'[d], beat'[d], Owned(d)')
  <2>1. owner'[d] = owner[d] /\ beat'[d] = beat[d]
    BY DEF LeaseInv, LeaseTypeOK
  <2>2. CallerInv(owner[d], beat[d], Owned(d))
    BY DEF LeaseInv
  <2>. QED
    BY <2>1, <2>2 DEF CallerInv, LossIsFinal, WarningIsKept
<1>. QED
  BY <1>1, <1>2, <1>3 DEF LeaseInv

\* A step that changes neither the row nor an answer.
LEMMA OwnerStep ==
  ASSUME LeaseInv, NEW c \in Callers, NEW o \in Owner,
         owner' = [owner EXCEPT ![c] = o], UNCHANGED <<token, unexpired, beat>>,
         CallerInv(o, beat[c], Owned(c))
  PROVE  LeaseInv'
<1>1. beat[c] \in Beat /\ beat' = [beat EXCEPT ![c] = beat[c]]
  BY DEF LeaseInv, LeaseTypeOK, Beat
<1>2. \A d \in Callers : Owned(d)' <=> Owned(d)
  BY DEF Owned
<1>3. token' \in Callers \cup {NoCaller} /\ unexpired' \in BOOLEAN
  BY DEF LeaseInv, LeaseTypeOK
<1>4. CallerInv(o, beat[c], Owned(c)')
  BY <1>2 DEF CallerInv, LossIsFinal, WarningIsKept
<1>. QED
  BY <1>1, <1>2, <1>3, <1>4, CallerStep, Zenon

\* A step of the calling thread keeps what its heartbeat knows.
LEMMA CallerKeeps ==
  ASSUME LeaseInv, NEW c \in Callers,
         \/ AskForLease(c) \/ Claim(c) \/ ClaimFails(c) \/ CancelTurn(c)
         \/ BodyFails(c) \/ BodyEnds(c) \/ ReadUncertain(c) \/ ReturnFenced(c)
  PROVE  LeaseInv'
<1>. DEFINE o == owner[c]
            Phase(p) == [o EXCEPT !.phase = p]
            Left(success) == [o EXCEPT !.phase = "leaving", !.reported = success]
<1>1. o \in Owner /\ beat[c] \in Beat /\ CallerInv(o, beat[c], Owned(c))
  BY DEF LeaseInv, LeaseTypeOK, Owner, Beat
<1>2. ASSUME NEW p \in Phases
      PROVE  /\ Phase(p) \in Owner /\ Phase(p).phase = p
             /\ Phase(p).lost = o.lost /\ Phase(p).uncertain = o.uncertain
             /\ Phase(p).warned = o.warned /\ Phase(p).reported = o.reported
  BY <1>1 DEF Owner
<1>3. ASSUME NEW s \in BOOLEAN
      PROVE  /\ Left(s) \in Owner /\ Left(s).phase = "leaving"
             /\ Left(s).warned = o.warned /\ Left(s).reported = s
  BY <1>1 DEF Owner, Phases
<1>4. ASSUME NEW s \in BOOLEAN, owner' = Leave(c, s), UNCHANGED <<token, unexpired, beat>>,
             s => ~o.warned
      PROVE  LeaseInv'
  <2>1. CallerInv(Left(s), beat[c], Owned(c))
    BY <1>1, <1>3, <1>4 DEF CallerInv, LossIsFinal, WarningIsKept, AtWork
  <2>2. owner' = [owner EXCEPT ![c] = Left(s)]
    BY <1>4 DEF Leave
  <2>. QED
    BY <1>3, <1>4, <2>1, <2>2, OwnerStep, Zenon
<1>5. CASE AskForLease(c)
  <2>1. owner' = [owner EXCEPT ![c] = Phase("claiming")]
    BY <1>5 DEF AskForLease
  <2>2. Phase("claiming") \in Owner
    BY <1>2 DEF Phases
  <2>3. CallerInv(Phase("claiming"), beat[c], Owned(c))
    BY <1>1, <1>2, <1>5 DEF AskForLease, Phases, CallerInv, LossIsFinal, WarningIsKept, AtWork
  <2>. QED
    BY <1>5, <2>1, <2>2, <2>3, OwnerStep DEF AskForLease
<1>6. CASE Claim(c)
  <2>. DEFINE b == [beat[c] EXCEPT !.answer = "waiting"]
  <2>1. owner' = [owner EXCEPT ![c] = Phase("body")] /\ Phase("body") \in Owner
    BY <1>2, <1>6 DEF Claim, Phases
  <2>2. beat' = [beat EXCEPT ![c] = b] /\ b \in Beat /\ b.answer = "waiting" /\ ~b.after
    BY <1>1, <1>6 DEF Claim, Beat, CallerInv, WarningIsKept, NoBeat
  <2>3. CallerInv(Phase("body"), b, Owned(c)')
    BY <1>1, <1>2, <1>6, <2>2
    DEF Claim, Phases, CallerInv, LossIsFinal, WarningIsKept, AtWork
  <2>4. \A d \in Callers \ {c} : Owned(d)' => Owned(d)
    BY <1>6 DEF Claim, Owned
  <2>5. token' \in Callers \cup {NoCaller} /\ unexpired' \in BOOLEAN
    BY <1>6 DEF Claim
  <2>. QED
    BY <2>1, <2>2, <2>3, <2>4, <2>5, CallerStep, Zenon
<1>7. CASE ClaimFails(c)
  <2>1. \A d \in Callers : Owned(d)' => Owned(d)
    BY <1>7 DEF ClaimFails, Owned
  <2>2. token' \in Callers \cup {NoCaller} /\ unexpired' \in BOOLEAN
    BY <1>7 DEF ClaimFails, LeaseInv, LeaseTypeOK
  <2>3. owner' = [owner EXCEPT ![c] = NoOwner] /\ beat' = [beat EXCEPT ![c] = beat[c]]
    BY <1>7 DEF ClaimFails, LeaseInv, LeaseTypeOK
  <2>4. CallerInv(NoOwner, beat[c], Owned(c)')
    BY <1>1, <2>1 DEF CallerInv, LossIsFinal, WarningIsKept, NoOwner, AtWork
  <2>. QED
    BY <1>1, RestingCaller, <2>1, <2>2, <2>3, <2>4, CallerStep, Zenon
<1>8. CASE CancelTurn(c)
  <2>. DEFINE n == [o EXCEPT !.lost = TRUE]
  <2>1. n \in Owner /\ owner' = [owner EXCEPT ![c] = n]
    BY <1>1, <1>8 DEF CancelTurn, Owner
  <2>2. CallerInv(n, beat[c], Owned(c))
    BY <1>1, <1>8 DEF CancelTurn, Owner, CallerInv, LossIsFinal, WarningIsKept, AtWork
  <2>. QED
    BY <1>8, <2>1, <2>2, OwnerStep DEF CancelTurn
<1>9. CASE BodyFails(c)
  BY <1>4, <1>9 DEF BodyFails
<1>10. CASE BodyEnds(c)
  <2>1. CASE o.lost
    BY <1>4, <1>10, <2>1 DEF BodyEnds
  <2>2. CASE ~o.lost
    <3>1. owner' = [owner EXCEPT ![c] = Phase("unlost")] /\ Phase("unlost") \in Owner
      BY <1>2, <1>10, <2>2 DEF BodyEnds, Phases
    <3>2. CallerInv(Phase("unlost"), beat[c], Owned(c))
      BY <1>1, <1>2, <1>10, <2>2
      DEF BodyEnds, Phases, CallerInv, LossIsFinal, WarningIsKept, AtWork
    <3>. QED
      BY <1>10, <3>1, <3>2, OwnerStep DEF BodyEnds
  <2>. QED
    BY <2>1, <2>2
<1>11. CASE ReadUncertain(c)
  <2>1. o.warned => o.uncertain /\ ~Owned(c)
    BY <1>1, <1>11 DEF ReadUncertain, CallerInv, WarningIsKept, AtWork
  <2>2. CASE ~o.uncertain \/ o.lost \/ ~Owned(c)
    BY <1>4, <1>11, <2>1, <2>2 DEF ReadUncertain
  <2>3. CASE o.uncertain /\ ~o.lost /\ Owned(c)
    <3>1. owner' = [owner EXCEPT ![c] = Phase("fenced")] /\ Phase("fenced") \in Owner
      BY <1>2, <1>11, <2>3 DEF ReadUncertain, Phases
    <3>2. CallerInv(Phase("fenced"), beat[c], Owned(c))
      BY <1>1, <1>2, <1>11, <2>1, <2>3
      DEF ReadUncertain, Phases, CallerInv, LossIsFinal, WarningIsKept, AtWork
    <3>. QED
      BY <1>11, <3>1, <3>2, OwnerStep DEF ReadUncertain
  <2>. QED
    BY <2>2, <2>3
<1>12. CASE ReturnFenced(c)
  <2>1. ~o.warned /\ (~o.lost) \in BOOLEAN
    BY <1>1, <1>12 DEF ReturnFenced, CallerInv, WarningIsKept, AtWork, Owner
  <2>. QED
    BY <1>4, <1>12, <2>1 DEF ReturnFenced
<1>. QED
  BY <1>5, <1>6, <1>7, <1>8, <1>9, <1>10, <1>11, <1>12

\* So do the heartbeat, the release, and a lease that runs out.
LEMMA BeatKeeps ==
  ASSUME LeaseInv, NEW c \in Callers,
         Release(c) \/ Renew(c) \/ BeatEnds(c) \/ Hear(c) \/ RunsOut(c) \/ Died(c)
  PROVE  LeaseInv'
<1>. DEFINE o == owner[c]
            b == beat[c]
<1>1. o \in Owner /\ b \in Beat /\ CallerInv(o, b, Owned(c))
  BY DEF LeaseInv, LeaseTypeOK, Owner, Beat
<1>2. token \in Callers \cup {NoCaller} /\ unexpired \in BOOLEAN
  BY DEF LeaseInv, LeaseTypeOK
<1>3. owner = [owner EXCEPT ![c] = o] /\ beat = [beat EXCEPT ![c] = b]
  BY DEF LeaseInv, LeaseTypeOK
<1>4. ASSUME UNCHANGED <<token, unexpired>>
      PROVE  /\ \A d \in Callers : Owned(d)' <=> Owned(d)
             /\ token' \in Callers \cup {NoCaller} /\ unexpired' \in BOOLEAN
  BY <1>2, <1>4 DEF Owned
<1>5. CASE Release(c)
  <2>. DEFINE n == IF b.answer = "waiting" THEN NoBeat ELSE b
  <2>1. \A d \in Callers : Owned(d)' => Owned(d)
    BY <1>5 DEF Release, Owned
  <2>2. token' \in Callers \cup {NoCaller} /\ unexpired' \in BOOLEAN
    BY <1>2, <1>5 DEF Release
  <2>3. owner' = [owner EXCEPT ![c] = NoOwner] /\ beat' = [beat EXCEPT ![c] = n]
    BY <1>5 DEF Release
  <2>4. n \in Beat
    BY <1>1, RestingCaller
  <2>5. CallerInv(NoOwner, n, Owned(c)')
    BY <1>1, <2>1, RestingCaller DEF CallerInv, LossIsFinal, WarningIsKept, NoOwner, NoBeat, AtWork
  <2>. QED
    BY RestingCaller, <2>1, <2>2, <2>3, <2>4, <2>5, CallerStep, Zenon
<1>6. CASE Renew(c)
  <2>. PICK answer \in {"failed", IF Owned(c) THEN "renewed" ELSE "refused"} :
         beat' = [beat EXCEPT ![c] = [answer |-> answer, after |-> ~Owned(c)]]
    BY <1>6 DEF Renew
  <2>. DEFINE n == [answer |-> answer, after |-> ~Owned(c)]
  <2>1. n \in Beat /\ n.answer = answer /\ (n.after <=> ~Owned(c))
    BY DEF Beat
  <2>2. o.phase # "claiming"
    BY <1>1, <1>6 DEF Renew, CallerInv, WarningIsKept, NoBeat
  <2>3. CallerInv(o, n, Owned(c)')
    BY <1>1, <1>4, <1>6, <2>1, <2>2 DEF Renew, CallerInv, LossIsFinal, WarningIsKept
  <2>4. owner' = [owner EXCEPT ![c] = o] /\ beat' = [beat EXCEPT ![c] = n]
    BY <1>3, <1>6 DEF Renew
  <2>. QED
    BY <1>1, <1>4, <1>6, <2>1, <2>3, <2>4, CallerStep DEF Renew
<1>7. CASE BeatEnds(c)
  <2>1. CallerInv(o, NoBeat, Owned(c)')
    BY <1>1, <1>4, <1>7 DEF BeatEnds, CallerInv, LossIsFinal, WarningIsKept, NoBeat
  <2>2. owner' = [owner EXCEPT ![c] = o] /\ beat' = [beat EXCEPT ![c] = NoBeat]
    BY <1>3, <1>7 DEF BeatEnds
  <2>. QED
    BY <1>1, <1>4, <1>7, <2>1, <2>2, RestingCaller, CallerStep DEF BeatEnds
<1>8. CASE Hear(c)
  <2>. DEFINE warned == o.warned \/ (b.after /\ o.phase = "body")
              told == [o EXCEPT !.lost = @ \/ b.answer = "refused",
                                !.uncertain = IF b.answer = "refused" THEN @
                                              ELSE b.answer = "failed",
                                !.warned = warned]
              n == IF b.answer = "refused" \/ o.phase = "away" THEN NoBeat
                   ELSE [answer |-> "waiting", after |-> FALSE]
  <2>1. beat' = [beat EXCEPT ![c] = n] /\ n \in Beat /\ ~n.after /\ n.answer # "renewed"
    BY <1>8, RestingCaller DEF Hear, Beat, NoBeat
  <2>2. o.phase # "claiming"
    BY <1>1, <1>8 DEF Hear, CallerInv, WarningIsKept, NoBeat
  <2>3. CASE o.phase = "away"
    <3>1. CallerInv(o, n, Owned(c)')
      BY <1>1, <2>1, <2>2, <2>3 DEF CallerInv, LossIsFinal, WarningIsKept, AtWork
    <3>2. owner' = [owner EXCEPT ![c] = o]
      BY <1>3, <1>8, <2>3 DEF Hear
    <3>. QED
      BY <1>1, <1>4, <1>8, <2>1, <3>1, <3>2, CallerStep DEF Hear
  <2>4. CASE o.phase # "away"
    <3>1. /\ told \in Owner /\ told.phase = o.phase /\ told.reported = o.reported
          /\ told.lost = (o.lost \/ b.answer = "refused")
          /\ told.uncertain = IF b.answer = "refused" THEN o.uncertain ELSE b.answer = "failed"
          /\ told.warned = warned
      BY <1>1 DEF Owner, Beat
    <3>2. owner' = [owner EXCEPT ![c] = told]
      <4>. DEFINE half == [o EXCEPT !.lost = @ \/ b.answer = "refused",
                                    !.uncertain = IF b.answer = "refused" THEN @
                                                  ELSE b.answer = "failed"]
                  halves == [owner EXCEPT ![c] = half]
      <4>1. Heard(c, b.answer) = halves /\ halves \in [Callers -> Owner] /\ halves[c] = half
        BY <1>1 DEF Heard, Owner, LeaseInv, LeaseTypeOK, Beat
      <4>2. owner' = [halves EXCEPT ![c] = [half EXCEPT !.warned = half.warned
                                               \/ (b.after /\ o.phase = "body")]]
        BY <1>8, <2>4, <4>1 DEF Hear
      <4>3. half.warned = o.warned /\ [half EXCEPT !.warned = warned] = told
        BY <1>1 DEF Owner
      <4>4. owner' = [halves EXCEPT ![c] = told]
        BY <4>2, <4>3
      <4>. QED
        BY <4>4
    <3>3. CallerInv(told, n, Owned(c)')
      BY <1>1, <1>4, <1>8, <2>1, <2>2, <2>4, <3>1
      DEF Hear, CallerInv, LossIsFinal, WarningIsKept, AtWork, Owner, Phases
    <3>. QED
      BY <1>4, <1>8, <2>1, <3>1, <3>2, <3>3, CallerStep DEF Hear
  <2>. QED
    BY <2>3, <2>4
<1>9. CASE RunsOut(c)
  <2>1. CallerInv(o, b, FALSE)
    BY <1>1 DEF CallerInv, LossIsFinal, WarningIsKept
  <2>2. ~Owned(c)' /\ \A d \in Callers \ {c} : Owned(d)' => Owned(d)
    BY <1>9 DEF RunsOut, Owned
  <2>3. CallerInv(o, b, Owned(c)')
    BY <2>1, <2>2 DEF CallerInv, LossIsFinal, WarningIsKept
  <2>4. token' \in Callers \cup {NoCaller} /\ unexpired' \in BOOLEAN
    BY <1>2, <1>9 DEF RunsOut
  <2>5. owner' = [owner EXCEPT ![c] = o] /\ beat' = [beat EXCEPT ![c] = b]
    BY <1>3, <1>9 DEF RunsOut
  <2>. QED
    BY <1>1, <2>2, <2>3, <2>4, <2>5, CallerStep, Zenon
<1>10. CASE Died(c)
  <2>1. CallerInv(NoOwner, NoBeat, Owned(c)')
    BY RestingCaller DEF CallerInv, LossIsFinal, WarningIsKept, NoBeat, NoOwner, AtWork
  <2>. QED
    BY <1>4, <1>10, <2>1, RestingCaller, CallerStep DEF Died
<1>. QED
  BY <1>5, <1>6, <1>7, <1>8, <1>9, <1>10

\* Every step keeps what the heartbeats know.
LEMMA LeaseInductive == LeaseInv /\ [LeaseNext]_leaseVars => LeaseInv'
<1>. SUFFICES ASSUME LeaseInv, [LeaseNext]_leaseVars
              PROVE  LeaseInv'
  OBVIOUS
<1>1. ASSUME LeaseTypeOK', UNCHANGED <<owner, beat>>,
             \A c \in Callers : Owned(c)' => Owned(c)
      PROVE  LeaseInv'
  BY <1>1 DEF LeaseInv, CallerInv, LossIsFinal, WarningIsKept
<1>2. CASE WorkerTurn
  BY <1>1, <1>2 DEF WorkerTurn, LeaseInv, LeaseTypeOK, Owned
<1>3. CASE UNCHANGED leaseVars
  BY <1>1, <1>3 DEF leaseVars, LeaseInv, LeaseTypeOK, Owned
<1>. QED
  BY <1>2, <1>3, CallerKeeps, BeatKeeps DEF LeaseNext

\* A caller whose heartbeat has heard of the loss of its lease does not report
\* success, for any number of callers (UserWorkLease.validate_explicit_return).
THEOREM LossReported == LeaseSpec => []LostLeaseIsReported
<1>1. LeaseInv => LostLeaseIsReported
  BY DEF LeaseInv, CallerInv, WarningIsKept, LostLeaseIsReported
<1>. QED
  BY <1>1, LeaseInitial, LeaseInductive, PTL DEF LeaseSpec

-----------------------------------------------------------------------------
(* The journal of a large window.                                          *)

Hand == [doing: Stages, step: PaidSteps, changed: BOOLEAN, copy: Manifests,
         current: BOOLEAN]

\* A turn whose copy is current has the row in hand, of a window that is not
\* extracted.  A step it asks for has no receipt in the copy, and a request it
\* has sent as it was could still be cut off once more.
TurnInv(x, m) ==
  /\ x.current => x.copy = m /\ ~m.checkpoint.extracted
  /\ x.doing \in {"asking", "called"} \cup Answers =>
       x.step \notin x.copy.checkpoint.done
  /\ x.doing = "called" /\ ~x.changed =>
       x.copy.checkpoint.truncated[x.step] < MaxTruncated

\* The journal counts every answer cut off, and an extracted window is whole.
RowInv(m, n, truncated) ==
  /\ m \in Manifests /\ m.attempts <= AttemptLimit
  /\ n \in Nat /\ n <= m.attempts
  /\ truncated = m.checkpoint.truncated
  /\ \A s \in PaidSteps : truncated[s] <= MaxTruncated
  /\ m.checkpoint.extracted => PlanSteps(m.checkpoint) \subseteq m.checkpoint.done

\* Each call that may yet be given back, under way or answered without usage,
\* is one of the calls paid.
Refundable == {"called", "unmetered"}
Out == {t \in Turns : turn[t].doing \in Refundable}
OutInv == IsFiniteSet(Out) /\ Cardinality(Out) <= paid

JournalInv ==
  /\ JournalTypeOK /\ OutInv
  /\ RowInv(journal, paid, cut)
  /\ \A t \in Turns : TurnInv(turn[t], journal)

\* The limits are numbers.
LEMMA Limits == {Chunks, AttemptLimit, MaxTruncated} \subseteq Nat /\ Chunks >= 1
BY DEF JournalAssumption

\* A plan is a sequence of chunks and halves.
LEMMA PlanIsSeq ==
  ASSUME NEW c \in Checkpoint
  PROVE  ChunkPlan(c) \in Seq(1..(Chunks + 2))
<1>. DEFINE Some == 1..(Chunks + 2)
            whole == [i \in 1..Chunks |-> i]
<1>1. whole \in Seq(Some) /\ Len(whole) = Chunks /\ \A i \in 1..Chunks : whole[i] = i
  <2>1. whole \in [1..Chunks -> Some]
    BY Limits
  <2>2. whole \in Seq(Some)
    BY <2>1, Limits, SeqDef
  <2>. QED
    BY <2>2, Limits, LenProperties
<1>2. c.split \in 0..Chunks
  BY DEF Checkpoint
<1>. HIDE DEF whole
<1>3. SubSeq(whole, 1, c.split - 1) \in Seq(Some)
  <2>1. \A i \in 1..(c.split - 1) : whole[i] \in Some
    BY <1>1, <1>2, Limits
  <2>. QED
    BY <1>2, <2>1, Limits, SubSeqProperties
<1>4. SubSeq(whole, c.split + 1, Chunks) \in Seq(Some)
  <2>1. \A i \in (c.split + 1)..Chunks : whole[i] \in Some
    BY <1>1, <1>2, Limits
  <2>. QED
    BY <1>2, <2>1, Limits, SubSeqProperties
<1>5. <<Chunks + 1, Chunks + 2>> \in Seq(Some)
  BY Limits
<1>6. SubSeq(whole, 1, c.split - 1) \o <<Chunks + 1, Chunks + 2>> \in Seq(Some)
  BY <1>3, <1>5, ConcatProperties
<1>7. SubSeq(whole, 1, c.split - 1) \o <<Chunks + 1, Chunks + 2>>
        \o SubSeq(whole, c.split + 1, Chunks) \in Seq(Some)
  BY <1>4, <1>6, ConcatProperties
<1>. QED
  BY <1>1, <1>7 DEF ChunkPlan, whole

\* The next step is one without a receipt: the first such chunk of the plan,
\* or the reconciliation of chunks that all have theirs.
LEMMA NextHasNoReceipt ==
  ASSUME NEW c \in Checkpoint, PlanSteps(c) \ c.done # {}
  PROVE  NextStep(c) \in PaidSteps \ c.done
<1>. DEFINE plan == ChunkPlan(c)
<1>1. plan \in Seq(1..(Chunks + 2)) /\ Len(plan) \in Nat /\ DOMAIN plan = 1..Len(plan)
  BY PlanIsSeq, LenProperties
<1>2. \A i \in DOMAIN plan : plan[i] \in PaidSteps
  BY <1>1, Limits, ElementOfSeq DEF PaidSteps
<1>3. CASE Unfinished(c) = {}
  <2>1. Reconciliation \in PlanSteps(c) \ c.done
    BY <1>3 DEF Unfinished, PlanSteps
  <2>. QED
    BY <1>3, <2>1, Limits DEF NextStep, Reconciliation, PaidSteps
<1>4. CASE Unfinished(c) # {}
  <2>. DEFINE open == {i \in DOMAIN plan : plan[i] \notin c.done}
  <2>1. open # {} /\ open \subseteq Nat
    BY <1>1, <1>4 DEF Unfinished, Planned
  <2>2. PICK i \in open : \A k \in open : ~(<<k, i>> \in OpToRel(<, Nat))
    BY <2>1, NatLessThanWellFounded, WFMin
  <2>3. \A k \in 1..(i - 1) : plan[k] \in c.done
    <3>1. ASSUME NEW k \in 1..(i - 1), k \in open
          PROVE  FALSE
      <4>1. i \in Nat /\ k \in Nat /\ k < i
        BY <1>1, <2>1, SMTT(20)
      <4>2. <<k, i>> \in OpToRel(<, Nat)
        BY <4>1 DEF OpToRel
      <4>. QED
        BY <2>2, <3>1, <4>2
    <3>. QED
      BY <1>1, <2>1, <3>1, SMTT(20)
  <2>4. plan[CHOOSE j \in DOMAIN plan :
               plan[j] \notin c.done /\ \A k \in 1..(j - 1) : plan[k] \in c.done]
          \in PaidSteps \ c.done
    BY <1>2, <2>2, <2>3
  <2>. QED
    BY <1>4, <2>4 DEF NextStep
<1>. QED
  BY <1>3, <1>4

\* A step of turn t that pays at least for the call it leaves refundable.
Paying(was, is) ==
  /\ paid' \in Int
  /\ was \in Refundable /\ is \notin Refundable => paid' >= paid - 1
  /\ was \notin Refundable /\ is \in Refundable => paid' >= paid + 1
  /\ (was \in Refundable <=> is \in Refundable) => paid' >= paid

\* The calls under way stay within those paid for, if a turn that makes one
\* pays and one that returns had paid.
LEMMA OutKept ==
  ASSUME OutInv, paid \in Nat, NEW t \in Turns, Paying(turn[t].doing, turn'[t].doing),
         \A u \in Turns \ {t} : turn'[u].doing = turn[u].doing
  PROVE  OutInv' /\ paid' \in Nat
<1>. DEFINE rest == Out \ {t}
<1>1. /\ IsFiniteSet(Out) /\ Cardinality(Out) \in Nat /\ Cardinality(Out) <= paid
  BY FS_CardinalityType DEF OutInv
<1>2. /\ IsFiniteSet(rest) /\ Cardinality(rest) \in Nat
      /\ Cardinality(rest) = IF t \in Out THEN Cardinality(Out) - 1 ELSE Cardinality(Out)
  BY <1>1, FS_RemoveElement, FS_CardinalityType
<1>3. t \in Out <=> turn[t].doing \in Refundable
  BY DEF Out
<1>4. CASE turn'[t].doing \in Refundable
  <2>1. Out' = rest \cup {t}
    BY <1>4 DEF Out
  <2>2. IsFiniteSet(Out') /\ Cardinality(Out') = Cardinality(rest) + 1
    BY <1>2, <2>1, FS_AddElement
  <2>. QED
    BY <1>1, <1>2, <1>3, <1>4, <2>2 DEF OutInv, Paying, Refundable
<1>5. CASE turn'[t].doing \notin Refundable
  <2>1. Out' = rest
    BY <1>5 DEF Out
  <2>. QED
    BY <1>1, <1>2, <1>3, <1>5, <2>1 DEF OutInv, Paying, Refundable
<1>. QED
  BY <1>4, <1>5

\* A turn without work has nothing that the row must match.
LEMMA RestingHand == NoTurnWork \in Hand /\ \A m \in Manifests : TurnInv(NoTurnWork, m)
<1>1. NoManifest \in Manifests
  BY Limits DEF NoManifest, Manifests, NewCheckpoint, Checkpoint
<1>. QED
  BY <1>1, Limits DEF NoTurnWork, Hand, Stages, PaidSteps, TurnInv, Answers

\* The journal is empty before the first turn.
LEMMA JournalInitial == JournalInit => JournalInv
<1>. SUFFICES ASSUME JournalInit
              PROVE  JournalInv
  OBVIOUS
<1>. DEFINE none == [s \in PaidSteps |-> 0]
<1>1. /\ NewCheckpoint \in Checkpoint
      /\ NewCheckpoint.truncated = none /\ NewCheckpoint.extracted = FALSE
  BY Limits DEF NewCheckpoint, Checkpoint
<1>2. /\ NoManifest \in Manifests /\ NoManifest.attempts = 0
      /\ NoManifest.checkpoint = NewCheckpoint
  BY <1>1 DEF NoManifest, Manifests
<1>3. JournalTypeOK
  BY <1>2, RestingHand DEF JournalInit, JournalTypeOK, Hand
<1>4. OutInv
  <2>1. Out = {}
    BY DEF JournalInit, Out, NoTurnWork, Refundable
  <2>. QED
    BY <2>1, FS_EmptySet DEF JournalInit, OutInv
<1>5. RowInv(journal, paid, cut)
  BY <1>1, <1>2, Limits DEF JournalInit, RowInv
<1>. QED
  BY <1>2, <1>3, <1>4, <1>5, RestingHand DEF JournalInit, JournalInv

\* A step that leaves the journal as it is.
LEMMA HandedOn ==
  ASSUME JournalInv, NEW t \in Turns, NEW x \in Hand, turn' = [turn EXCEPT ![t] = x],
         UNCHANGED <<journal, cut>>, holder' \in Turns \cup {NoTurn},
         TurnInv(x, journal), paid' <= paid, Paying(turn[t].doing, x.doing)
  PROVE  JournalInv'
<1>1. turn'[t] = x /\ \A u \in Turns \ {t} : turn'[u] = turn[u]
  BY DEF JournalInv, JournalTypeOK
<1>2. OutInv' /\ paid' \in Nat
  BY <1>1, OutKept DEF JournalInv, JournalTypeOK
<1>3. RowInv(journal, paid', cut)
  BY <1>2 DEF JournalInv, RowInv, Manifests
<1>4. JournalTypeOK'
  BY <1>2 DEF JournalInv, JournalTypeOK, Hand
<1>. QED
  BY <1>1, <1>2, <1>3, <1>4 DEF JournalInv

\* A write of turn t, from a current copy.
LEMMA SavedRow ==
  ASSUME JournalInv, NEW t \in Turns, NEW attempts, NEW checkpoint, NEW x \in Hand,
         Save(t, attempts, checkpoint, x), holder' \in Turns \cup {NoTurn},
         NEW m, m = [attempts |-> attempts, checkpoint |-> checkpoint],
         RowInv(m, paid', cut'), TurnInv([x EXCEPT !.copy = m], m),
         Paying(turn[t].doing, x.doing)
  PROVE  JournalInv'
<1>. DEFINE y == [x EXCEPT !.copy = m]
<1>1. y \in Hand /\ y.doing = x.doing /\ journal' = m /\ m \in Manifests
  BY DEF Hand, Save, RowInv
<1>2. turn' = [u \in Turns |-> IF u = t THEN y ELSE [turn[u] EXCEPT !.current = FALSE]]
  BY DEF Save
<1>3. ASSUME NEW u \in Turns \ {t}
      PROVE  /\ turn'[u] \in Hand /\ turn'[u].doing = turn[u].doing
             /\ TurnInv(turn'[u], m)
  <2>1. turn[u] \in Hand /\ TurnInv(turn[u], journal)
    BY DEF JournalInv, JournalTypeOK, Hand
  <2>2. turn'[u] = [turn[u] EXCEPT !.current = FALSE]
    BY <1>2
  <2>3. /\ turn'[u] \in Hand /\ ~turn'[u].current
        /\ turn'[u].doing = turn[u].doing /\ turn'[u].step = turn[u].step
        /\ turn'[u].copy = turn[u].copy /\ turn'[u].changed = turn[u].changed
    BY <2>1, <2>2 DEF Hand
  <2>. QED
    BY <2>1, <2>3 DEF TurnInv
<1>4. turn'[t] = y
  BY <1>2
<1>5. OutInv' /\ paid' \in Nat
  BY <1>1, <1>3, <1>4, OutKept DEF JournalInv, JournalTypeOK
<1>6. JournalTypeOK'
  <2>1. turn' \in [Turns -> Hand]
    BY <1>1, <1>2, <1>3
  <2>2. cut' \in [PaidSteps -> Nat]
    BY DEF RowInv, Manifests, Checkpoint
  <2>. QED
    BY <1>1, <1>5, <2>1, <2>2 DEF JournalTypeOK, Hand
<1>. QED
  BY <1>1, <1>3, <1>4, <1>5, <1>6 DEF JournalInv

\* What the other lemmas know of turn t and of the row.
LEMMA InHand ==
  ASSUME JournalInv, NEW t \in Turns
  PROVE  /\ turn[t] \in Hand /\ TurnInv(turn[t], journal)
         /\ journal \in Manifests /\ RowInv(journal, paid, cut)
         /\ paid \in Nat /\ holder \in Turns \cup {NoTurn}
         /\ Accepted(t) => turn[t].copy = journal /\ ~journal.checkpoint.extracted
BY DEF JournalInv, JournalTypeOK, Hand, Accepted, TurnInv

\* A turn that ends leaves its calls charged.
LEMMA TurnEnded ==
  ASSUME JournalInv, NEW t \in Turns, turn' = [turn EXCEPT ![t] = NoTurnWork],
         UNCHANGED <<journal, cut>>, holder' \in {holder, NoTurn},
         \/ paid' = paid
         \/ turn[t].doing \in Refundable /\ paid' = paid - 1
  PROVE  JournalInv'
<1>1. NoTurnWork \in Hand /\ TurnInv(NoTurnWork, journal) /\ NoTurnWork.doing = "nothing"
  BY InHand, RestingHand DEF NoTurnWork
<1>2. paid' <= paid /\ Paying(turn[t].doing, NoTurnWork.doing)
  BY <1>1, InHand DEF Paying, Refundable
<1>3. holder' \in Turns \cup {NoTurn}
  BY InHand
<1>. QED
  BY <1>1, <1>2, <1>3, HandedOn, Zenon

\* The plan depends on the split chunk only.
LEMMA SamePlan ==
  ASSUME NEW c, NEW d, c.split = d.split
  PROVE  PlanSteps(c) = PlanSteps(d)
BY DEF PlanSteps, Planned, ChunkPlan

\* Starting, taking a step and extracting keep the journal.
LEMMA StartKeeps ==
  ASSUME JournalInv, NEW t \in Turns, StartTurn(t) \/ TakeStep(t) \/ Extract(t)
  PROVE  JournalInv'
<1>. DEFINE x == turn[t]
            c == x.copy.checkpoint
<1>1. /\ x \in Hand /\ TurnInv(x, journal) /\ c \in Checkpoint
      /\ Accepted(t) => x.copy = journal
  BY InHand DEF Hand, Manifests
<1>2. journal \in Manifests /\ paid \in Nat /\ holder \in Turns \cup {NoTurn}
  BY InHand
<1>3. CASE StartTurn(t)
  <2>. DEFINE y == [NoTurnWork EXCEPT !.doing = "next", !.copy = journal, !.current = TRUE]
  <2>1. /\ y \in Hand /\ y.doing = "next" /\ y.copy = journal
    BY <1>2, RestingHand DEF Hand, Stages, Answers
  <2>2. TurnInv(y, journal)
    BY <1>3, <2>1 DEF StartTurn, TurnInv, Answers
  <2>3. Paying(x.doing, y.doing) /\ paid' <= paid
    BY <1>2, <1>3, <2>1 DEF StartTurn, Paying, Refundable
  <2>. QED
    BY <1>3, <2>1, <2>2, <2>3, HandedOn DEF StartTurn
<1>4. CASE TakeStep(t)
  <2>1. CASE turn' = [turn EXCEPT ![t].doing = "asking", ![t].step = NextStep(c)]
             /\ UNCHANGED <<journal, holder>>
    <3>. DEFINE y == [x EXCEPT !.doing = "asking", !.step = NextStep(c)]
    <3>1. NextStep(c) \in PaidSteps \ c.done
      BY <1>1, <1>4, NextHasNoReceipt DEF TakeStep
    <3>2. /\ y \in Hand /\ y.doing = "asking" /\ y.step = NextStep(c) /\ y.copy = x.copy
          /\ y.current = x.current
      BY <1>1, <3>1 DEF Hand, Stages, Answers
    <3>3. TurnInv(y, journal)
      BY <1>1, <3>1, <3>2 DEF TurnInv
    <3>4. Paying(x.doing, y.doing) /\ paid' <= paid
      BY <1>2, <1>4, <3>2 DEF TakeStep, Paying, Refundable
    <3>5. turn' = [turn EXCEPT ![t] = y]
      BY <2>1
    <3>. QED
      BY <1>2, <1>4, <2>1, <3>2, <3>3, <3>4, <3>5, HandedOn DEF TakeStep
  <2>2. CASE EndTurn(t)
    BY <1>4, <2>2, TurnEnded DEF TakeStep, EndTurn
  <2>. QED
    BY <1>4, <2>1, <2>2 DEF TakeStep
<1>5. CASE Extract(t)
  <2>1. CASE Accepted(t)
    <3>. DEFINE d == [c EXCEPT !.extracted = TRUE]
                m == [attempts |-> journal.attempts, checkpoint |-> d]
    <3>1. /\ d \in Checkpoint /\ d.truncated = c.truncated /\ d.split = c.split
          /\ d.done = c.done
      BY <1>1 DEF Checkpoint
    <3>2. PlanSteps(d) \subseteq d.done
      BY <1>5, <3>1, SamePlan DEF Extract
    <3>3. c = journal.checkpoint
      BY <1>1, <2>1
    <3>4. RowInv(m, paid', cut')
      BY <1>2, <1>5, <3>1, <3>2, <3>3, InHand DEF Extract, RowInv, Manifests
    <3>5. /\ Save(t, journal.attempts, d, NoTurnWork)
          /\ holder' \in Turns \cup {NoTurn}
      BY <1>5, <2>1 DEF Extract
    <3>6. TurnInv([NoTurnWork EXCEPT !.copy = m], m)
      BY RestingHand DEF TurnInv, Answers, NoTurnWork
    <3>7. Paying(x.doing, NoTurnWork.doing)
      BY <1>2, <1>5 DEF Extract, Paying, Refundable, NoTurnWork
    <3>. QED
      BY <3>4, <3>5, <3>6, <3>7, RestingHand, SavedRow, Zenon
  <2>2. CASE ~Accepted(t)
    BY <1>5, <2>2, TurnEnded DEF Extract, EndTurn
  <2>. QED
    BY <2>1, <2>2
<1>. QED
  BY <1>3, <1>4, <1>5

\* So do a reservation, and every end of a call that writes nothing.
LEMMA CallKeeps ==
  ASSUME JournalInv, NEW t \in Turns,
         \/ \E changed \in BOOLEAN : Reserve(t, changed)
         \/ GiveTurnUp(t) \/ AnswerUnmetered(t) \/ UseAnswer(t)
         \/ CallFails(t) \/ RefundIsRefused(t)
  PROVE  JournalInv'
<1>. DEFINE x == turn[t]
            c == x.copy.checkpoint
<1>1. /\ x \in Hand /\ TurnInv(x, journal) /\ c \in Checkpoint
      /\ Accepted(t) => x.copy = journal /\ ~journal.checkpoint.extracted
  BY InHand DEF Hand, Manifests
<1>2. /\ journal \in Manifests /\ paid \in Nat /\ holder \in Turns \cup {NoTurn}
      /\ RowInv(journal, paid, cut)
  BY InHand
<1>3. ASSUME NEW changed \in BOOLEAN, Reserve(t, changed)
      PROVE  JournalInv'
  <2>. DEFINE m == [attempts |-> journal.attempts + 1, checkpoint |-> c]
              y == [x EXCEPT !.doing = "called", !.changed = changed]
              z == [y EXCEPT !.copy = m]
  <2>1. x.copy = journal /\ ~journal.checkpoint.extracted /\ x.doing = "asking"
    BY <1>1, <1>3 DEF Reserve
  <2>2. y \in Hand /\ y.doing = "called"
    BY <1>1 DEF Hand, Stages, Answers
  <2>3. m \in Manifests /\ m.attempts = journal.attempts + 1 /\ m.checkpoint = journal.checkpoint
    BY <1>2, <2>1 DEF Manifests
  <2>9. paid' = paid + 1 /\ cut' = cut /\ journal.attempts < AttemptLimit
    BY <1>3 DEF Reserve, WithinLimit
  <2>4. RowInv(m, paid', cut')
    <3>. HIDE DEF m
    <3>1. journal.attempts \in Nat
      BY <1>2 DEF Manifests
    <3>. QED
      BY <1>2, <2>1, <2>3, <2>9, <3>1, Limits DEF RowInv
  <2>5. /\ z.doing = "called" /\ z.copy = m /\ z.step = x.step /\ z.changed = changed
    BY <1>1, <2>3 DEF Hand
  <2>6. TurnInv(z, m)
    BY <1>1, <1>3, <2>1, <2>3, <2>5 DEF Reserve, MayBeSent, TurnInv
  <2>7. Save(t, journal.attempts + 1, c, y) /\ holder' \in Turns \cup {NoTurn}
    BY <1>2, <1>3 DEF Reserve
  <2>8. Paying(x.doing, y.doing)
    BY <1>2, <2>1, <2>2, <2>9 DEF Paying, Refundable
  <2>. QED
    BY <2>2, <2>4, <2>6, <2>7, <2>8, SavedRow, Zenon
<1>4. CASE GiveTurnUp(t)
  BY <1>4, TurnEnded DEF GiveTurnUp, EndTurn
<1>5. ASSUME NEW doing \in {"answered", "asking", "unmetered"}, Goes(t, doing),
             x.doing \in {"called"} \cup Answers,
             doing = "unmetered" => x.doing = "called",
             UNCHANGED <<journal, holder, paid, cut>>
      PROVE  JournalInv'
  <2>. DEFINE y == [x EXCEPT !.doing = doing]
  <2>1. /\ y \in Hand /\ y.doing = doing /\ y.step = x.step /\ y.copy = x.copy
        /\ y.current = x.current
    BY <1>1 DEF Hand, Stages, Answers
  <2>2. TurnInv(y, journal)
    BY <1>1, <1>5, <2>1 DEF TurnInv, Answers
  <2>3. Paying(x.doing, y.doing) /\ paid' <= paid
    BY <1>2, <1>5, <2>1 DEF Paying, Refundable
  <2>4. turn' = [turn EXCEPT ![t] = y]
    BY <1>5 DEF Goes
  <2>. QED
    BY <1>2, <1>5, <2>1, <2>2, <2>3, <2>4, HandedOn
<1>6. CASE AnswerUnmetered(t)
  BY <1>5, <1>6 DEF AnswerUnmetered
<1>7. CASE CallFails(t)
  BY <1>5, <1>7 DEF CallFails
<1>8. CASE UseAnswer(t)
  BY <1>5, <1>8 DEF UseAnswer
<1>9. CASE RefundIsRefused(t)
  BY <1>9, TurnEnded DEF RefundIsRefused, EndTurn
<1>. QED
  BY <1>3, <1>4, <1>6, <1>7, <1>8, <1>9

\* So does an answer that is counted.
LEMMA ObserveKeeps ==
  ASSUME JournalInv, NEW t \in Turns, Observe(t)
  PROVE  JournalInv'
<1>. DEFINE x == turn[t]
            c == x.copy.checkpoint
<1>1. /\ x \in Hand /\ TurnInv(x, journal) /\ c \in Checkpoint /\ x.doing = "called"
      /\ Accepted(t) => x.copy = journal /\ ~journal.checkpoint.extracted
  BY InHand DEF Hand, Manifests, Observe
<1>2. /\ journal \in Manifests /\ paid \in Nat /\ holder \in Turns \cup {NoTurn}
      /\ RowInv(journal, paid, cut)
  BY InHand
<1>3. PICK length \in BOOLEAN :
        LET counts == length /\ ~x.changed IN
        IF Accepted(t)
          THEN /\ Save(t, journal.attempts, IF counts THEN Counted(t) ELSE c,
                        [x EXCEPT !.doing = IF length THEN "cutOff" ELSE "metered"])
               /\ cut' = IF counts THEN [cut EXCEPT ![x.step] = @ + 1] ELSE cut
               /\ UNCHANGED holder
          ELSE EndTurn(t) /\ UNCHANGED cut
  BY DEF Observe
<1>4. paid' = paid
  BY DEF Observe
<1>5. CASE ~Accepted(t)
  BY <1>3, <1>4, <1>5, TurnEnded DEF EndTurn
<1>6. CASE Accepted(t)
  <2>. DEFINE counts == length /\ ~x.changed
              d == IF counts THEN Counted(t) ELSE c
              m == [attempts |-> journal.attempts, checkpoint |-> d]
              y == [x EXCEPT !.doing = IF length THEN "cutOff" ELSE "metered"]
              z == [y EXCEPT !.copy = m]
  <2>1. c = journal.checkpoint /\ cut = c.truncated /\ ~c.extracted
    BY <1>1, <1>2, <1>6 DEF RowInv
  <2>2. /\ d \in Checkpoint /\ d.done = c.done /\ d.split = c.split
        /\ ~d.extracted /\ d.truncated = cut'
    <3>1. CASE ~counts
      BY <1>1, <1>3, <1>6, <2>1, <3>1
    <3>2. CASE counts
      <4>. DEFINE n == [c.truncated EXCEPT ![x.step] = @ + 1]
      <4>1. n \in [PaidSteps -> Nat] /\ cut' = n
        BY <1>1, <1>3, <1>6, <2>1, <3>2 DEF Checkpoint, Hand
      <4>2. Counted(t) = [c EXCEPT !.truncated = n]
        BY DEF Counted
      <4>3. /\ Counted(t) \in Checkpoint /\ Counted(t).truncated = n
            /\ Counted(t).done = c.done /\ Counted(t).split = c.split
            /\ Counted(t).extracted = c.extracted
        <5>. HIDE DEF n
        <5>. QED
          BY <1>1, <4>1, <4>2 DEF Checkpoint
      <4>. QED
        BY <2>1, <3>2, <4>1, <4>3
    <3>. QED
      BY <3>1, <3>2
  <2>3. \A s \in PaidSteps : cut'[s] <= MaxTruncated
    <3>1. counts => cut[x.step] < MaxTruncated
      BY <1>1, <2>1 DEF TurnInv
    <3>2. cut \in [PaidSteps -> Nat] /\ \A s \in PaidSteps : cut[s] <= MaxTruncated
      BY <1>1, <1>2, <2>1 DEF Checkpoint, RowInv
    <3>3. cut' = IF counts THEN [cut EXCEPT ![x.step] = @ + 1] ELSE cut
      BY <1>3, <1>6
    <3>. QED
      BY <3>1, <3>2, <3>3, Limits
  <2>4. m \in Manifests /\ m.attempts = journal.attempts /\ m.checkpoint = d
    <3>. HIDE DEF d
    <3>. QED
      BY <1>2, <2>2 DEF Manifests
  <2>5. RowInv(m, paid', cut')
    <3>. HIDE DEF m, d
    <3>. QED
      BY <1>2, <1>4, <2>2, <2>3, <2>4 DEF RowInv
  <2>6. /\ y \in Hand /\ y.doing \in {"cutOff", "metered"} /\ y.step = x.step
    BY <1>1 DEF Hand, Stages, Answers
  <2>7. z.doing = y.doing /\ z.step = x.step /\ z.copy = m
    <3>. HIDE DEF m
    <3>. QED
      BY <1>1 DEF Hand
  <2>8. TurnInv(z, m)
    <3>1. x.step \notin d.done
      BY <1>1, <2>2 DEF TurnInv
    <3>. HIDE DEF m, d, y, z
    <3>. QED
      BY <2>2, <2>4, <2>6, <2>7, <3>1 DEF TurnInv
  <2>9. Save(t, journal.attempts, d, y) /\ holder' \in Turns \cup {NoTurn}
    BY <1>2, <1>3, <1>6
  <2>10. Paying(x.doing, y.doing)
    BY <1>1, <1>2, <1>4, <2>6 DEF Paying, Refundable
  <2>. QED
    BY <2>5, <2>6, <2>8, <2>9, <2>10, SavedRow, Zenon
<1>. QED
  BY <1>5, <1>6

\* So do a refund, a split and a receipt.
LEMMA SettleKeeps ==
  ASSUME JournalInv, NEW t \in Turns, CallIsRefused(t) \/ SplitChunk(t) \/ CompleteStep(t)
  PROVE  JournalInv'
<1>. DEFINE x == turn[t]
            c == x.copy.checkpoint
<1>1. /\ x \in Hand /\ TurnInv(x, journal) /\ c \in Checkpoint
      /\ Accepted(t) => x.copy = journal /\ ~journal.checkpoint.extracted
  BY InHand DEF Hand, Manifests
<1>2. /\ journal \in Manifests /\ journal.attempts \in Nat /\ paid \in Nat
      /\ holder \in Turns \cup {NoTurn} /\ RowInv(journal, paid, cut)
  BY InHand DEF Manifests
<1>3. CASE CallIsRefused(t)
  <2>1. CASE ~Accepted(t)
    BY <1>3, <2>1, TurnEnded DEF CallIsRefused, GiveBack, EndTurn, Refundable
  <2>2. CASE Accepted(t)
    <3>. DEFINE m == [attempts |-> journal.attempts - 1, checkpoint |-> c]
                y == [x EXCEPT !.doing = "asking"]
                z == [y EXCEPT !.copy = m]
    <3>1. /\ c = journal.checkpoint /\ x.doing \in Refundable
          /\ paid' = paid - 1 /\ cut' = cut
      BY <1>1, <1>3, <2>2 DEF CallIsRefused, Refundable
    <3>2. y \in Hand /\ y.doing = "asking" /\ y.step = x.step
      BY <1>1 DEF Hand, Stages, Answers
    <3>3. Paying(x.doing, y.doing)
      BY <1>2, <3>1, <3>2 DEF Paying, Refundable
    <3>4. paid' \in Nat
      <4>1. t \in Out
        BY <3>1 DEF Out
      <4>2. Cardinality(Out) \in Nat /\ Cardinality(Out) # 0 /\ Cardinality(Out) <= paid
        BY <4>1, FS_EmptySet, FS_CardinalityType DEF JournalInv, OutInv
      <4>. QED
        BY <1>2, <3>1, <4>2
    <3>5. m \in Manifests /\ m.attempts = journal.attempts - 1 /\ m.checkpoint = c
      BY <1>1, <1>2, <3>1, <3>4 DEF Manifests, RowInv
    <3>6. RowInv(m, paid', cut')
      <4>. HIDE DEF m
      <4>. QED
        BY <1>2, <3>1, <3>4, <3>5, Limits DEF RowInv
    <3>7. z.doing = "asking" /\ z.step = x.step /\ z.copy = m
      BY <1>1 DEF Hand
    <3>8. TurnInv(z, m)
      BY <1>1, <2>2, <3>1, <3>5, <3>7 DEF TurnInv, Refundable, Answers
    <3>9. Save(t, journal.attempts - 1, c, y) /\ holder' \in Turns \cup {NoTurn}
      BY <1>2, <1>3, <2>2 DEF CallIsRefused, GiveBack
    <3>. QED
      BY <3>2, <3>3, <3>6, <3>8, <3>9, SavedRow, Zenon
  <2>. QED
    BY <2>1, <2>2
<1>4. CASE SplitChunk(t)
  <2>. DEFINE d == [c EXCEPT !.split = x.step]
              m == [attempts |-> journal.attempts, checkpoint |-> d]
  <2>1. c = journal.checkpoint /\ ~c.extracted /\ x.step \in 1..Chunks
    BY <1>1, <1>4 DEF SplitChunk
  <2>2. /\ d \in Checkpoint /\ d.truncated = c.truncated /\ ~d.extracted
    BY <1>1, <2>1, Limits DEF Checkpoint
  <2>3. m \in Manifests /\ m.attempts = journal.attempts /\ m.checkpoint = d
    <3>. HIDE DEF d
    <3>. QED
      BY <1>2, <2>2 DEF Manifests
  <2>4. paid' = paid /\ cut' = cut
    BY <1>4 DEF SplitChunk
  <2>5. RowInv(m, paid', cut')
    <3>. HIDE DEF m, d
    <3>. QED
      BY <1>2, <2>1, <2>2, <2>3, <2>4 DEF RowInv
  <2>6. TurnInv([NoTurnWork EXCEPT !.copy = m], m)
    BY RestingHand DEF TurnInv, Answers, NoTurnWork
  <2>7. Save(t, journal.attempts, d, NoTurnWork) /\ holder' \in Turns \cup {NoTurn}
    BY <1>4 DEF SplitChunk
  <2>8. Paying(x.doing, NoTurnWork.doing)
    BY <1>2, <2>4 DEF Paying, Refundable, NoTurnWork
  <2>. QED
    BY <2>5, <2>6, <2>7, <2>8, RestingHand, SavedRow, Zenon
<1>5. CASE CompleteStep(t)
  <2>1. CASE ~Accepted(t)
    BY <1>5, <2>1, TurnEnded DEF CompleteStep, EndTurn
  <2>2. CASE Accepted(t)
    <3>. DEFINE d == [c EXCEPT !.done = @ \cup {x.step}]
                m == [attempts |-> journal.attempts, checkpoint |-> d]
                y == [x EXCEPT !.doing = "next"]
                z == [y EXCEPT !.copy = m]
    <3>1. c = journal.checkpoint /\ ~c.extracted /\ x.doing = "answered"
      BY <1>1, <1>5, <2>2 DEF CompleteStep
    <3>2. d \in Checkpoint /\ d.truncated = c.truncated /\ ~d.extracted
      BY <1>1, <3>1 DEF Checkpoint, Hand
    <3>3. m \in Manifests /\ m.attempts = journal.attempts /\ m.checkpoint = d
      <4>. HIDE DEF d
      <4>. QED
        BY <1>2, <3>2 DEF Manifests
    <3>4. paid' = paid /\ cut' = cut
      BY <1>5 DEF CompleteStep
    <3>5. RowInv(m, paid', cut')
      <4>. HIDE DEF m, d
      <4>. QED
        BY <1>2, <3>1, <3>2, <3>3, <3>4 DEF RowInv
    <3>6. y \in Hand /\ y.doing = "next"
      BY <1>1 DEF Hand, Stages, Answers
    <3>7. z.doing = "next" /\ z.copy = m
      <4>. HIDE DEF m
      <4>. QED
        BY <1>1 DEF Hand
    <3>8. TurnInv(z, m)
      <4>. HIDE DEF m, d, y, z
      <4>. QED
        BY <3>2, <3>3, <3>7 DEF TurnInv, Answers
    <3>9. Save(t, journal.attempts, d, y) /\ holder' \in Turns \cup {NoTurn}
      BY <1>2, <1>5, <2>2 DEF CompleteStep
    <3>10. Paying(x.doing, y.doing)
      BY <1>2, <3>1, <3>4, <3>6 DEF Paying, Refundable
    <3>. QED
      BY <3>5, <3>6, <3>8, <3>9, <3>10, SavedRow, Zenon
  <2>. QED
    BY <2>1, <2>2
<1>. QED
  BY <1>3, <1>4, <1>5

\* Every step keeps the journal.
LEMMA JournalInductive == JournalInv /\ [JournalNext]_journalVars => JournalInv'
<1>. SUFFICES ASSUME JournalInv, [JournalNext]_journalVars
              PROVE  JournalInv'
  OBVIOUS
<1>1. ASSUME UNCHANGED <<journal, turn, paid, cut>>, holder' \in Turns \cup {NoTurn}
      PROVE  JournalInv'
  BY <1>1 DEF JournalInv, JournalTypeOK, OutInv, Out
<1>2. CASE LapseTurn
  BY <1>1, <1>2 DEF LapseTurn
<1>3. CASE UNCHANGED journalVars
  BY <1>1, <1>3 DEF journalVars, JournalInv, JournalTypeOK
<1>4. ASSUME NEW t \in Turns, TurnDies(t)
      PROVE  JournalInv'
  BY <1>4, TurnEnded DEF TurnDies
<1>. QED
  BY <1>2, <1>3, <1>4, StartKeeps, CallKeeps, ObserveKeeps, SettleKeeps DEF JournalNext

\* The journal charges what was paid, throughout.
LEMMA JournalInvariant == JournalSpec => []JournalInv
BY JournalInitial, JournalInductive, PTL DEF JournalSpec

\* The calls whose usage was observed, that failed while their provider served
\* others or that nobody settled are charged to the row of their window and
\* stay within the limit of its manifest, whatever the number of chunks and of
\* turns (OverflowCoordinator's dispatch guard, _observe and _settle_failure,
\* and release_unanswered_attempt, which refuses an attempt with usage).
THEOREM CallsCounted == JournalSpec => []CallsAreCounted
<1>1. JournalInv => CallsAreCounted
  BY DEF JournalInv, RowInv, CallsAreCounted
<1>. QED
  BY <1>1, JournalInvariant, PTL

\* What a step may do to the receipts.
ReceiptsStep ==
  /\ journal.checkpoint.done \subseteq journal'.checkpoint.done
  /\ journal'.checkpoint.split \in {journal.checkpoint.split} \cup
       (IF journal.checkpoint.split = 0 THEN 1..Chunks ELSE {})
  /\ \A t \in Turns : Called(t) => turn'[t].step \notin journal.checkpoint.done

\* A step that leaves the row alone and makes no call keeps the receipts.
LEMMA NoCallMade ==
  ASSUME JournalInv, UNCHANGED journal, NEW t \in Turns, NEW x, x.doing # "called",
         turn' = [turn EXCEPT ![t] = x]
  PROVE  ReceiptsStep
BY DEF JournalInv, JournalTypeOK, Called, ReceiptsStep

\* So does a turn that ends.
LEMMA TurnEndedNoCall ==
  ASSUME JournalInv, UNCHANGED journal, NEW t \in Turns,
         turn' = [turn EXCEPT ![t] = NoTurnWork]
  PROVE  ReceiptsStep
BY NoCallMade DEF NoTurnWork

\* So does a write that adds to the receipts, keeps the split and calls for
\* no step that has one.
LEMMA WrittenRow ==
  ASSUME JournalInv, NEW t \in Turns, NEW attempts, NEW checkpoint, NEW x \in Hand,
         Save(t, attempts, checkpoint, x),
         journal.checkpoint.done \subseteq checkpoint.done,
         \/ checkpoint.split = journal.checkpoint.split
         \/ journal.checkpoint.split = 0 /\ checkpoint.split \in 1..Chunks,
         x.doing # "called" \/ x.step \notin journal.checkpoint.done
  PROVE  ReceiptsStep
<1>1. journal'.checkpoint = checkpoint
  BY DEF Save
<1>2. turn'[t].doing = x.doing /\ turn'[t].step = x.step
  BY DEF Save, Hand
<1>3. \A u \in Turns \ {t} : turn'[u].doing = turn[u].doing
  BY DEF Save, JournalInv, JournalTypeOK
<1>. QED
  BY <1>1, <1>2, <1>3 DEF ReceiptsStep, Called

\* Every action of a turn keeps the receipts.
LEMMA ReceiptsKept ==
  ASSUME JournalInv, NEW t \in Turns,
         \/ StartTurn(t) \/ TakeStep(t) \/ Extract(t)
         \/ \E changed \in BOOLEAN : Reserve(t, changed)
         \/ GiveTurnUp(t) \/ Observe(t) \/ AnswerUnmetered(t) \/ UseAnswer(t)
         \/ CallFails(t) \/ CallIsRefused(t) \/ RefundIsRefused(t)
         \/ SplitChunk(t) \/ CompleteStep(t) \/ TurnDies(t)
  PROVE  ReceiptsStep
<1>. DEFINE x == turn[t]
            c == x.copy.checkpoint
            At(doing) == [x EXCEPT !.doing = doing]
<1>1. /\ x \in Hand /\ TurnInv(x, journal) /\ c \in Checkpoint
      /\ Accepted(t) => c = journal.checkpoint
  BY InHand DEF Hand, Manifests
<1>2. ASSUME NEW d \in Stages
      PROVE  At(d) \in Hand /\ At(d).doing = d /\ At(d).step = x.step
  BY <1>1 DEF Hand
<1>3. /\ {"asking", "answered", "next", "unmetered"} \subseteq Stages
      /\ NoTurnWork.doing = "nothing"
  BY DEF Stages, Answers, NoTurnWork
<1>4. CASE StartTurn(t)
  <2>. DEFINE y == [NoTurnWork EXCEPT !.doing = "next", !.copy = journal, !.current = TRUE]
  <2>1. y.doing = "next"
    BY RestingHand DEF Hand
  <2>. QED
    BY <1>4, <2>1, NoCallMade DEF StartTurn
<1>5. CASE TakeStep(t)
  <2>. DEFINE y == [x EXCEPT !.doing = "asking", !.step = NextStep(c)]
  <2>1. y.doing = "asking"
    BY <1>1 DEF Hand
  <2>2. CASE EndTurn(t)
    BY <2>2, TurnEndedNoCall DEF EndTurn
  <2>3. CASE turn' = [turn EXCEPT ![t].doing = "asking", ![t].step = NextStep(c)]
             /\ UNCHANGED journal
    <3>1. turn' = [turn EXCEPT ![t] = y]
      BY <2>3
    <3>. QED
      BY <2>1, <2>3, <3>1, NoCallMade
  <2>. QED
    BY <1>5, <2>2, <2>3 DEF TakeStep
<1>6. CASE Extract(t)
  <2>1. CASE Accepted(t)
    <3>. DEFINE d == [c EXCEPT !.extracted = TRUE]
    <3>1. d.done = c.done /\ d.split = c.split
      BY <1>1 DEF Checkpoint
    <3>2. Save(t, journal.attempts, d, NoTurnWork)
      BY <1>6, <2>1 DEF Extract
    <3>. QED
      BY <1>1, <1>3, <2>1, <3>1, <3>2, RestingHand, WrittenRow
  <2>2. CASE ~Accepted(t)
    BY <1>6, <2>2, TurnEndedNoCall DEF Extract, EndTurn
  <2>. QED
    BY <2>1, <2>2
<1>7. ASSUME NEW changed \in BOOLEAN, Reserve(t, changed)
      PROVE  ReceiptsStep
  <2>. DEFINE y == [x EXCEPT !.doing = "called", !.changed = changed]
  <2>1. y \in Hand /\ y.step = x.step
    BY <1>1 DEF Hand, Stages, Answers
  <2>2. c = journal.checkpoint /\ x.step \notin c.done
    BY <1>1, <1>7 DEF Reserve, TurnInv
  <2>3. Save(t, journal.attempts + 1, c, y)
    BY <1>7 DEF Reserve
  <2>. QED
    BY <2>1, <2>2, <2>3, WrittenRow
<1>8. CASE GiveTurnUp(t)
  BY <1>8, TurnEndedNoCall DEF GiveTurnUp, EndTurn
<1>9. CASE Observe(t)
  <2>. PICK length \in BOOLEAN :
         IF Accepted(t)
           THEN Save(t, journal.attempts, IF length /\ ~x.changed THEN Counted(t) ELSE c,
                     At(IF length THEN "cutOff" ELSE "metered"))
           ELSE EndTurn(t)
    BY <1>9 DEF Observe
  <2>. DEFINE d == IF length /\ ~x.changed THEN Counted(t) ELSE c
              p == IF length THEN "cutOff" ELSE "metered"
  <2>1. CASE Accepted(t)
    <3>1. d.done = c.done /\ d.split = c.split
      BY <1>1 DEF Checkpoint, Counted
    <3>2. p \in Stages /\ p # "called"
      BY DEF Stages, Answers
    <3>3. At(p) \in Hand /\ At(p).doing # "called"
      BY <1>2, <3>2
    <3>4. Save(t, journal.attempts, d, At(p))
      BY <2>1
    <3>. QED
      BY <1>1, <2>1, <3>1, <3>3, <3>4, WrittenRow
  <2>2. CASE ~Accepted(t)
    BY <2>2, TurnEndedNoCall, <1>9 DEF EndTurn
  <2>. QED
    BY <2>1, <2>2
<1>10. ASSUME NEW d \in {"answered", "asking", "unmetered"}, Goes(t, d),
              UNCHANGED journal
       PROVE  ReceiptsStep
  <2>1. turn' = [turn EXCEPT ![t] = At(d)]
    BY <1>10 DEF Goes
  <2>2. At(d).doing # "called"
    BY <1>2, <1>3, <1>10
  <2>. QED
    BY <1>10, <2>1, <2>2, NoCallMade
<1>11. CASE AnswerUnmetered(t)
  BY <1>10, <1>11 DEF AnswerUnmetered
<1>12. CASE CallFails(t)
  BY <1>10, <1>12 DEF CallFails
<1>13. CASE CallIsRefused(t)
  <2>1. CASE Accepted(t)
    <3>1. Save(t, journal.attempts - 1, c, At("asking"))
      BY <1>13, <2>1 DEF CallIsRefused, GiveBack
    <3>. QED
      BY <1>1, <1>2, <1>3, <2>1, <3>1, WrittenRow
  <2>2. CASE ~Accepted(t)
    BY <1>13, <2>2, TurnEndedNoCall DEF CallIsRefused, GiveBack, EndTurn
  <2>. QED
    BY <2>1, <2>2
<1>14. CASE SplitChunk(t)
  <2>. DEFINE d == [c EXCEPT !.split = x.step]
  <2>1. c = journal.checkpoint /\ c.split = 0 /\ x.step \in 1..Chunks
    BY <1>1, <1>14 DEF SplitChunk
  <2>2. d.done = c.done /\ d.split = x.step
    BY <1>1 DEF Checkpoint
  <2>3. Save(t, journal.attempts, d, NoTurnWork)
    BY <1>14 DEF SplitChunk
  <2>. QED
    BY <1>3, <2>1, <2>2, <2>3, RestingHand, WrittenRow
<1>15. CASE CompleteStep(t)
  <2>1. CASE Accepted(t)
    <3>. DEFINE d == [c EXCEPT !.done = @ \cup {x.step}]
    <3>1. c.done \subseteq d.done /\ d.split = c.split
      BY <1>1 DEF Checkpoint
    <3>2. Save(t, journal.attempts, d, At("next"))
      BY <1>15, <2>1 DEF CompleteStep
    <3>. QED
      <4>1. At("next") \in Hand /\ At("next").doing # "called"
        BY <1>2, <1>3
      <4>. HIDE DEF d, At
      <4>. QED
        BY <1>1, <2>1, <3>1, <3>2, <4>1, WrittenRow
  <2>2. CASE ~Accepted(t)
    BY <1>15, <2>2, TurnEndedNoCall DEF CompleteStep, EndTurn
  <2>. QED
    BY <2>1, <2>2
<1>16. CASE TurnDies(t)
  BY <1>16, TurnEndedNoCall DEF TurnDies
<1>17. CASE UseAnswer(t)
  BY <1>10, <1>17 DEF UseAnswer
<1>18. CASE RefundIsRefused(t)
  BY <1>18, TurnEndedNoCall DEF RefundIsRefused, EndTurn
<1>. QED
  BY <1>4, <1>5, <1>6, <1>7, <1>8, <1>9, <1>11, <1>12, <1>13, <1>14, <1>15, <1>16,
     <1>17, <1>18

\* A receipt stays, a split stays, no step that has its receipt is asked for
\* again, and only a full set of receipts is extracted from.
THEOREM ReceiptsAreKept == JournalSpec => ReceiptsAreReused
<1>1. JournalInv /\ JournalInv' /\ [JournalNext]_journalVars =>
        [/\ journal.checkpoint.done \subseteq journal'.checkpoint.done
         /\ journal'.checkpoint.split \in {journal.checkpoint.split} \cup
              (IF journal.checkpoint.split = 0 THEN 1..Chunks ELSE {})
         /\ \A t \in Turns : Called(t) => turn'[t].step \notin journal.checkpoint.done
         /\ journal'.checkpoint.extracted =>
              PlanSteps(journal'.checkpoint) \subseteq journal'.checkpoint.done]_journalVars
  <2>. SUFFICES ASSUME JournalInv, JournalInv', JournalNext
                PROVE  /\ ReceiptsStep
                       /\ journal'.checkpoint.extracted =>
                            PlanSteps(journal'.checkpoint) \subseteq journal'.checkpoint.done
    BY DEF ReceiptsStep
  <2>1. LapseTurn => ReceiptsStep
    BY DEF LapseTurn, ReceiptsStep, Called
  <2>2. ReceiptsStep
    BY <2>1, ReceiptsKept DEF JournalNext
  <2>. QED
    BY <2>2 DEF JournalInv, RowInv
<1>. QED
  BY <1>1, JournalInvariant, PTL DEF JournalSpec, ReceiptsAreReused

-----------------------------------------------------------------------------
(* The components next to one another.                                     *)

\* One aggregator alone, and two of them, take the steps of aggregation.
LEMMA FewerAggregators ==
  ASSUME Aggregators # {}
  PROVE  (AloneNext => AggregationNext) /\ (PairNext => AggregationNext)
<1>1. OneAggregator \in Aggregators
  BY DEF OneAggregator
<1>2. AloneNext => AggregationNext
  BY <1>1 DEF AloneNext, AggregationNext
<1>3. PairNext => AggregationNext
  BY DEF PairNext, AggregationNext, Writers
<1>. QED
  BY <1>2, <1>3

\* Each component's part of a step of the instance is a step of the component
\* or none.
LEMMA PartsOfSteps ==
  ASSUME Aggregators # {}
  PROVE  [ComponentsNext]_allVars =>
           /\ [Next]_vars /\ [AggregationNext]_aggVars /\ [CallbackNext]_callbackVars
           /\ [CacheNext]_cacheVars /\ [CircuitNext]_circuitVars
           /\ [LeaseNext]_leaseVars /\ [JournalNext]_journalVars
<1>. SUFFICES ASSUME [ComponentsNext]_allVars
              PROVE  /\ [Next]_vars /\ [AggregationNext]_aggVars /\ [CallbackNext]_callbackVars
                     /\ [CacheNext]_cacheVars /\ [CircuitNext]_circuitVars
                     /\ [LeaseNext]_leaseVars /\ [JournalNext]_journalVars
  OBVIOUS
<1>1. CASE UNCHANGED allVars
  BY <1>1 DEF allVars
<1>2. CASE ComponentsNext
  BY <1>2, FewerAggregators DEF ComponentsNext
<1>. QED
  BY <1>1, <1>2

\* A behaviour of the instance is a behaviour of each component, so that what
\* is proved of a component holds of it.
THEOREM InstanceIsEachComponent ==
  ASSUME Aggregators # {}
  PROVE  ComponentsSpec =>
           /\ Spec /\ AggregationSpec /\ CallbackSpec /\ CacheSpec
           /\ CircuitSpec /\ LeaseSpec /\ JournalSpec
<1>1. ComponentsInit =>
        /\ Init /\ AggregationInit /\ CallbackInit /\ CacheInit
        /\ CircuitInit /\ LeaseInit /\ JournalInit
  BY DEF ComponentsInit
<1>. QED
  BY <1>1, PartsOfSteps, PTL
     DEF ComponentsSpec, Spec, AggregationSpec, CallbackSpec, CacheSpec, CircuitSpec,
         LeaseSpec, JournalSpec

\* Every component's variables keep their shape, whatever the numbers of
\* callers, calls, workers, fires, getters, turns, playbooks and aggregators.
THEOREM ComponentsTyped ==
  ASSUME Aggregators # {}
  PROVE  ComponentsSpec => []ComponentsTypeOK
<1>1. CallbackSpec => []CallbackTypeOK
  <2>1. PoolInv => CallbackTypeOK
    BY DEF PoolInv
  <2>. QED
    BY <2>1, PoolInvariant, PTL
<1>2. CacheSpec => []CacheTypeOK
  <2>1. CacheInv => CacheTypeOK
    BY DEF CacheInv
  <2>. QED
    BY <2>1, CacheInvariant, PTL
<1>3. CircuitSpec => []CircuitTypeOK
  <2>1. CircuitInv => CircuitTypeOK
    BY DEF CircuitInv
  <2>. QED
    BY <2>1, CircuitInvariant, PTL
<1>4. LeaseSpec => []LeaseTypeOK
  <2>1. LeaseInv => LeaseTypeOK
    BY DEF LeaseInv
  <2>. QED
    BY <2>1, LeaseInitial, LeaseInductive, PTL DEF LeaseSpec
<1>5. JournalSpec => []JournalTypeOK
  <2>1. JournalInv => JournalTypeOK
    BY DEF JournalInv
  <2>. QED
    BY <2>1, JournalInvariant, PTL
<1>6. /\ AggregationTypeOK /\ CallbackTypeOK /\ CacheTypeOK /\ CircuitTypeOK
      /\ LeaseTypeOK /\ JournalTypeOK
      => ComponentsTypeOK
  BY DEF ComponentsTypeOK
<1>. QED
  BY <1>1, <1>2, <1>3, <1>4, <1>5, <1>6, AggregationTypes, InstanceIsEachComponent, PTL

=============================================================================
