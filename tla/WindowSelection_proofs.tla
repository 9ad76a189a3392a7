------------------------ MODULE WindowSelection_proofs ------------------------
(***************************************************************************)
(* Window selection for every log and every policy: a window takes the     *)
(* first pending inputs without a gap, all it may and no more, and what is *)
(* needed for a kind to rest.                                              *)
(***************************************************************************)
EXTENDS WindowSelection, FiniteSetTheorems, WellFoundedInduction, SequenceTheorems, TLAPS

-----------------------------------------------------------------------------
(* Selection yields accepted inputs only.                                  *)

\* Earliest and Latest pick members of the set they are given.
LEMMA PicksAreMembers ==
  ASSUME NEW S, NEW n
  PROVE  Earliest(S, n) \subseteq S /\ Latest(S, n) \subseteq S
BY DEF Earliest, Latest

\* The inputs of a kind are natural numbers, and so are a new batch and the
\* manifest stored for it.
LEMMA SelectionIsNat ==
  ASSUME NEW reqs \in Seq(Request), NEW alive \in SUBSET Nat, NEW k, NEW pos, NEW begun
  PROVE  /\ NewInputs(reqs, alive, k, pos, begun) \in SUBSET Nat
         /\ Manifest(reqs, alive, k, pos, begun) \in SUBSET Nat
<1>1. Inputs(reqs, alive, k) \subseteq Nat
  BY DEF Inputs
<1>2. Pending(reqs, alive, k, pos) \subseteq Nat /\ Consumed(reqs, alive, k, pos) \subseteq Nat
  BY <1>1 DEF Pending, Consumed
<1>3. Visible(reqs, alive, k, pos) \subseteq Nat
  BY <1>2, PicksAreMembers DEF Visible
<1>4. NewInputs(reqs, alive, k, pos, begun) \subseteq Nat
  <2>1. {s \in Visible(reqs, alive, k, pos) :
           \A b \in Barriers(reqs, alive, k, pos, begun) : s <= b} \subseteq Nat
    BY <1>3
  <2>. QED
    BY <2>1, PicksAreMembers, Zenon DEF NewInputs
<1>5. Manifest(reqs, alive, k, pos, begun) \subseteq Nat
  <2>. DEFINE width == Policy(reqs, alive, k, pos).width
              context == Latest(Consumed(reqs, alive, k, pos), width)
  <2>1. context \cup NewInputs(reqs, alive, k, pos, begun) \subseteq Nat
    BY <1>2, <1>4, PicksAreMembers
  <2>. QED
    BY <2>1, PicksAreMembers, Zenon DEF Manifest
<1>. QED
  BY <1>4, <1>5

-----------------------------------------------------------------------------
(* A window leaves no gap.                                                 *)

\* A set of sequence numbers has a least member.
LEMMA LeastExists ==
  ASSUME NEW S \in SUBSET Nat, S # {}
  PROVE  \E s \in S : IsLeast(s, S)
<1>1. PICK s \in S : \A t \in S : ~ (<<t, s>> \in OpToRel(<, Nat))
  BY WFMin, NatLessThanWellFounded
<1>2. \A t \in S : ~ (t < s)
  BY <1>1 DEF OpToRel
<1>. QED
  BY <1>2 DEF IsLeast

\* The members of a set below a bound are finitely many.
LEMMA BelowIsFinite ==
  ASSUME NEW S \in SUBSET Nat, NEW n \in Nat
  PROVE  /\ IsFiniteSet({t \in S : t < n}) /\ Cardinality({t \in S : t < n}) \in Nat
         /\ IsFiniteSet({t \in S : t <= n}) /\ Cardinality({t \in S : t <= n}) \in Nat
<1>. DEFINE L == {t \in S : t < n}
            M == {t \in S : t <= n}
<1>1. L \in SUBSET Nat /\ M \in SUBSET Nat
  OBVIOUS
<1>2. ASSUME NEW s \in S, s < n \/ s <= n
      PROVE  s <= n
  <2>1. s \in Nat
    OBVIOUS
  <2>. QED
    BY <1>2, <2>1
<1>3. \A s \in L : s <= n
  BY <1>2
<1>4. \A s \in M : s <= n
  OBVIOUS
<1>. HIDE DEF L, M
<1>5. IsFiniteSet(L) /\ IsFiniteSet(M)
  BY <1>1, <1>3, <1>4, FS_BoundedSetOfNaturals
<1>6. IsFiniteSet(L) /\ Cardinality(L) \in Nat /\ IsFiniteSet(M) /\ Cardinality(M) \in Nat
  BY <1>5, FS_CardinalityType
<1>. QED
  BY <1>6 DEF L, M

\* Earliest is a prefix: what precedes a member is a member.
LEMMA EarliestIsPrefix ==
  ASSUME NEW S \in SUBSET Nat, NEW n \in Int, NEW e \in Earliest(S, n), NEW s \in S, s <= e
  PROVE  s \in Earliest(S, n)
<1>. DEFINE below(x) == {t \in S : t < x}
<1>1. e \in S /\ Cardinality(below(e)) < n
  BY DEF Earliest
<1>2. IsFiniteSet(below(e)) /\ Cardinality(below(e)) \in Nat
  BY <1>1, BelowIsFinite
<1>3. IsFiniteSet(below(s)) /\ Cardinality(below(s)) \in Nat
  BY BelowIsFinite
<1>4. below(s) \in SUBSET below(e)
  <2>. SUFFICES ASSUME NEW t \in S, t < s PROVE t < e
    OBVIOUS
  <2>1. t \in Nat /\ s \in Nat /\ e \in Nat
    BY <1>1
  <2>. QED
    BY <2>1
<1>5. Cardinality(below(s)) <= Cardinality(below(e))
  BY <1>2, <1>4, FS_Subset
<1>6. Cardinality(below(s)) < n
  BY <1>1, <1>2, <1>3, <1>5
<1>. QED
  BY <1>6 DEF Earliest

\* Earliest picks at most as many members as it is asked for.
LEMMA EarliestIsBounded ==
  ASSUME NEW S \in SUBSET Nat, NEW n \in Int, NEW e \in Earliest(S, n),
         \A s \in Earliest(S, n) : s <= e
  PROVE  IsFiniteSet(Earliest(S, n)) /\ Cardinality(Earliest(S, n)) \in Nat
         /\ Cardinality(Earliest(S, n)) <= n
<1>. DEFINE E == Earliest(S, n)
            below == {t \in S : t < e}
<1>1. E \in SUBSET S /\ E \in SUBSET Nat /\ e \in S
  BY DEF Earliest
<1>2. IsFiniteSet(E) /\ Cardinality(E) \in Nat
  BY <1>1, FS_BoundedSetOfNaturals, FS_CardinalityType
<1>3. IsFiniteSet(below) /\ Cardinality(below) \in Nat /\ Cardinality(below) < n
  BY <1>1, BelowIsFinite DEF Earliest
<1>4. E \ {e} \in SUBSET below
  <2>. SUFFICES ASSUME NEW s \in E, s # e
                PROVE  s \in below
    OBVIOUS
  <2>1. s <= e /\ s \in S /\ s \in Nat /\ e \in Nat
    BY <1>1
  <2>. QED
    BY <2>1
<1>. HIDE DEF E, below
<1>5. Cardinality(E \ {e}) = Cardinality(E) - 1
  BY <1>2, FS_RemoveElement DEF E
<1>6. Cardinality(E \ {e}) <= Cardinality(below)
  BY <1>3, <1>4, FS_Subset
<1>. QED
  BY <1>2, <1>3, <1>5, <1>6 DEF E

\* The frozen policies let a window slide by at most its width.
Sliding(reqs) == \A i \in DOMAIN reqs : reqs[i].stride <= reqs[i].width

\* The policy that judges a batch is one of the admissions' (_select).
LEMMA PolicyIsAdmitted ==
  ASSUME NEW reqs \in Seq(Request), NEW alive \in SUBSET Nat, NEW k, NEW pos,
         Pending(reqs, alive, k, pos) # {}, Sliding(reqs)
  PROVE  LET p == Policy(reqs, alive, k, pos)
         IN  p.width \in Nat /\ p.stride \in Nat /\ p.stride <= p.width
<1>. DEFINE P == Pending(reqs, alive, k, pos)
            fits(r) == \E s \in P : IsLeast(s, P) /\ s \in SeqsOf(r)
            rows == {reqs[j] : j \in DOMAIN reqs}
<1>1. P \in SUBSET Nat
  BY DEF Pending, Inputs
<1>2. PICK s \in P : IsLeast(s, P)
  BY <1>1, LeastExists
<1>3. PICK i \in DOMAIN reqs : s \in SeqsOf(reqs[i])
  BY DEF Pending, Inputs
<1>4. \E r \in rows : fits(r)
  BY <1>2, <1>3
<1>5. Policy(reqs, alive, k, pos) = CHOOSE r \in rows : fits(r)
  BY DEF Policy
<1>6. Policy(reqs, alive, k, pos) \in rows
  BY <1>4, <1>5
<1>7. \A j \in DOMAIN reqs : reqs[j] \in Request
  OBVIOUS
<1>8. \A r \in rows : r \in Request /\ r.stride <= r.width
  BY <1>7 DEF Sliding
<1>. HIDE DEF rows
<1>9. \A r \in Request : r.width \in Nat /\ r.stride \in Nat
  <2>1. \A r \in Request : r.width \in 1..MaxWidth /\ r.stride \in 1..MaxWidth
    BY DEF Request
  <2>2. \A n \in 1..MaxWidth : n \in Nat
    BY MaxWidthAssumption
  <2>. QED
    BY <2>1, <2>2
<1>. QED
  BY <1>6, <1>8, <1>9

\* A batch never needs more new inputs than the width of its window.
LEMMA NeededFitsWidth ==
  ASSUME NEW reqs \in Seq(Request), NEW alive \in SUBSET Nat, NEW k, NEW pos \in Nat,
         NEW begun \in BOOLEAN, Pending(reqs, alive, k, pos) # {}, Sliding(reqs)
  PROVE  LET n == Needed(reqs, alive, k, pos, begun)
             width == Policy(reqs, alive, k, pos).width
         IN  n \in Int /\ n <= width
<1>. DEFINE p == Policy(reqs, alive, k, pos)
            C == Consumed(reqs, alive, k, pos)
            L == Latest(C, p.width)
<1>1. p.width \in Nat /\ p.stride \in Nat /\ p.stride <= p.width
  BY PolicyIsAdmitted
<1>2. C \in SUBSET Nat /\ \A s \in C : s <= pos
  BY DEF Consumed, Inputs
<1>3. L \in SUBSET Nat /\ \A s \in L : s <= pos
  BY <1>2 DEF Latest
<1>4. Cardinality(L) \in Nat
  BY <1>3, FS_BoundedSetOfNaturals, FS_CardinalityType
<1>. HIDE DEF p, L
<1>5. p.width - Cardinality(L) <= p.width
  BY <1>1, <1>4
<1>6. Needed(reqs, alive, k, pos, begun) \in {p.stride, p.width - Cardinality(L), p.width}
  BY DEF Needed, p, L, C
<1>7. /\ Needed(reqs, alive, k, pos, begun) \in Int
      /\ Needed(reqs, alive, k, pos, begun) <= p.width
  BY <1>1, <1>4, <1>5, <1>6
<1>. QED
  BY <1>7 DEF p

\* What a batch takes: pending inputs behind the position, all of them up to its
\* end, and all of them are in the manifest stored for the window (_select).
LEMMA SelectionHasNoGap ==
  ASSUME NEW reqs \in Seq(Request), NEW alive \in SUBSET Nat, NEW k, NEW pos \in Nat,
         NEW begun \in BOOLEAN, Sliding(reqs),
         NEW end, IsGreatest(end, NewInputs(reqs, alive, k, pos, begun))
  PROVE  LET new == NewInputs(reqs, alive, k, pos, begun)
             man == Manifest(reqs, alive, k, pos, begun)
         IN  /\ new \subseteq Pending(reqs, alive, k, pos)
             /\ end \in new
             /\ \A s \in Pending(reqs, alive, k, pos) : s <= end => s \in new
             /\ new \subseteq man
             /\ \A s \in man : s > pos => s \in new
             /\ man \subseteq Inputs(reqs, alive, k)
<1>. DEFINE I == Inputs(reqs, alive, k)
            P == Pending(reqs, alive, k, pos)
            C == Consumed(reqs, alive, k, pos)
            V == Visible(reqs, alive, k, pos)
            width == Policy(reqs, alive, k, pos).width
            need == Needed(reqs, alive, k, pos, begun)
            bars == Barriers(reqs, alive, k, pos, begun)
            W == {s \in V : \A b \in bars : s <= b}
            N == NewInputs(reqs, alive, k, pos, begun)
            L == Latest(C, width)
            M == Manifest(reqs, alive, k, pos, begun)
<1>1. I \in SUBSET Nat
  BY DEF Inputs
<1>2. P = {s \in I : s > pos} /\ C = {s \in I : s <= pos}
  BY DEF Pending, Consumed
<1>3. V = Earliest(P, width) /\ M = Latest(L \cup N, width)
  BY DEF Visible, Manifest
<1>4. end \in N /\ \A s \in N : s <= end
  BY DEF IsGreatest
<1>5. P # {} /\ N = Earliest(W, need)
  BY <1>4 DEF NewInputs
<1>6. width \in Nat
  BY <1>5, PolicyIsAdmitted
<1>7. need \in Int /\ need <= width
  BY <1>5, NeededFitsWidth
<1>8. bars \in SUBSET Nat
  <2>1. \A i \in DOMAIN reqs : reqs[i].last \in Nat
    <3>1. \A i \in DOMAIN reqs : reqs[i] \in Request
      OBVIOUS
    <3>. QED
      BY <3>1 DEF Request
  <2>2. BatchEnds(reqs, V) \subseteq Nat
    BY <1>1, <1>2, <1>3, PicksAreMembers DEF BatchEnds
  <2>3. SessionTails(reqs, V) \subseteq DOMAIN reqs
    BY DEF SessionTails, LatestOfSession
  <2>4. IdleEnds(reqs, V) \subseteq Nat
    BY <2>1, <2>3 DEF IdleEnds
  <2>5. ForcedEnds(reqs, alive, k, pos) \subseteq Nat /\ FinishedEnds(reqs, alive, k, pos) \subseteq Nat
    BY <2>1 DEF ForcedEnds, FinishedEnds
  <2>. QED
    BY <2>2, <2>4, <2>5, Zenon DEF Barriers
<1>. HIDE DEF I, P, C, V, width, need, bars, N, L, M
<1>9. V \subseteq P /\ W \subseteq V /\ N \subseteq W /\ L \subseteq C
  BY <1>3, <1>5, PicksAreMembers DEF L
<1>10. W \in SUBSET Nat /\ P \in SUBSET Nat /\ N \in SUBSET Nat
  BY <1>1, <1>2, <1>9
<1>11. ASSUME NEW s \in P, s <= end PROVE s \in N
  <2>1. end \in V /\ end \in W /\ s \in Nat /\ end \in Nat
    BY <1>4, <1>9, <1>10
  <2>2. s \in V
    BY <1>3, <1>6, <1>10, <1>11, <2>1, EarliestIsPrefix
  <2>3. \A b \in bars : s <= b
    BY <1>8, <1>11, <2>1
  <2>4. s \in W
    BY <2>2, <2>3
  <2>. HIDE DEF W
  <2>. QED
    BY <1>4, <1>5, <1>7, <1>10, <1>11, <2>4, EarliestIsPrefix
<1>. HIDE DEF W
<1>12. IsFiniteSet(N) /\ Cardinality(N) \in Nat /\ Cardinality(N) <= need
  BY <1>4, <1>5, <1>7, <1>10, EarliestIsBounded
<1>13. ASSUME NEW s \in N PROVE s \in M
  <2>. DEFINE above == {t \in L \cup N : t > s}
  <2>1. s \in Nat /\ s > pos
    BY <1>2, <1>9, <1>10
  <2>2. \A t \in L : t \in Nat /\ t <= pos
    BY <1>1, <1>2, <1>9
  <2>3. above \in SUBSET (N \ {s})
    BY <1>10, <2>1, <2>2
  <2>. HIDE DEF above
  <2>4. IsFiniteSet(N \ {s}) /\ Cardinality(N \ {s}) = Cardinality(N) - 1
    BY <1>12, FS_RemoveElement
  <2>5. IsFiniteSet(above) /\ Cardinality(above) <= Cardinality(N \ {s})
    BY <2>3, <2>4, FS_Subset
  <2>6. Cardinality(above) \in Nat
    BY <2>5, FS_CardinalityType
  <2>7. Cardinality(above) < width
    BY <1>6, <1>7, <1>12, <2>4, <2>5, <2>6
  <2>. QED
    BY <1>3, <2>7 DEF Latest, above
<1>14. M \subseteq L \cup N
  BY <1>3, PicksAreMembers
<1>15. ASSUME NEW s \in M, s > pos PROVE s \in N
  <2>1. \A t \in L : t \in Nat /\ t <= pos
    BY <1>1, <1>2, <1>9
  <2>. QED
    BY <1>14, <1>15, <2>1
<1>16. M \subseteq I
  BY <1>2, <1>9, <1>14
<1>17. N \subseteq P
  BY <1>9
<1>. QED
  BY <1>4, <1>11, <1>13, <1>15, <1>16, <1>17 DEF N, M, P, I

-----------------------------------------------------------------------------
(* Selection takes all it may, and no more.                                *)

\* A bounded set of sequence numbers has a greatest member.
LEMMA GreatestExists ==
  ASSUME NEW b \in Nat, NEW S \in SUBSET (0..b), S # {}
  PROVE  \E s \in S : IsGreatest(s, S)
<1>. DEFINE U == {u \in Nat : \A s \in S : s <= u}
<1>1. b \in U
  OBVIOUS
<1>2. PICK u \in U : IsLeast(u, U)
  <2>1. U \in SUBSET Nat /\ U # {}
    BY <1>1
  <2>. HIDE DEF U
  <2>. QED
    BY <2>1, LeastExists
<1>3. u \in Nat /\ \A s \in S : s \in Nat /\ s <= u
  OBVIOUS
<1>4. u \in S
  <2>. SUFFICES ASSUME u \notin S PROVE FALSE
    OBVIOUS
  <2>1. \A s \in S : s < u
    BY <1>3
  <2>. HIDE DEF U
  <2>2. u - 1 \in Nat /\ \A s \in S : s <= u - 1
    <3>1. PICK s \in S : s \in Nat /\ s < u
      BY <1>3, <2>1
    <3>2. u - 1 \in Nat
      BY <1>3, <3>1
    <3>3. ASSUME NEW t \in S PROVE t <= u - 1
      <4>1. t \in Nat /\ t < u /\ u \in Nat
        BY <1>3, <2>1
      <4>. QED
        BY <4>1
    <3>. QED
      BY <3>2, <3>3
  <2>3. u - 1 \in U
    BY <2>2 DEF U
  <2>. QED
    BY <1>2, <1>3, <2>3 DEF IsLeast
<1>. QED
  BY <1>3, <1>4 DEF IsGreatest

\* The first n of a set: n of them, or all there are.
LEMMA EarliestSize ==
  ASSUME NEW b \in Nat, NEW S \in SUBSET (0..b), NEW n \in Nat
  PROVE  /\ IsFiniteSet(Earliest(S, n)) /\ Cardinality(Earliest(S, n)) \in Nat
         /\ Cardinality(Earliest(S, n)) <= n
         /\ Cardinality(Earliest(S, n)) = n \/ S \subseteq Earliest(S, n)
<1>. DEFINE E == Earliest(S, n)
            below(x) == {t \in S : t < x}
<1>0. S \in SUBSET Nat
  OBVIOUS
<1>1. S \in SUBSET Nat /\ E \in SUBSET S /\ E \in SUBSET (0..b)
  BY <1>0, PicksAreMembers
<1>2. IsFiniteSet(E) /\ Cardinality(E) \in Nat
  BY <1>1, FS_BoundedSetOfNaturals, FS_CardinalityType
<1>3. Cardinality(E) <= n
  <2>1. CASE E = {}
    BY <2>1, FS_EmptySet
  <2>2. CASE E # {}
    <3>1. PICK e \in E : \A s \in E : s <= e
      BY <1>1, <2>2, GreatestExists DEF IsGreatest
    <3>. QED
      BY <1>1, <3>1, EarliestIsBounded
  <2>. QED
    BY <2>1, <2>2
<1>4. ASSUME ~ (S \subseteq E) PROVE Cardinality(E) = n
  <2>. DEFINE R == S \ E
  <2>1. R \in SUBSET Nat /\ R # {}
    BY <1>1, <1>4
  <2>2. PICK p \in R : IsLeast(p, R)
    BY <2>1, LeastExists
  <2>3. p \in S /\ p \in Nat /\ p \notin E /\ \A t \in R : p <= t
    BY <2>1, <2>2 DEF IsLeast
  <2>4. IsFiniteSet(below(p)) /\ Cardinality(below(p)) \in Nat
    BY <1>1, <2>3, BelowIsFinite
  <2>5. below(p) \subseteq E
    <3>. SUFFICES ASSUME NEW t \in S, t < p, t \notin E PROVE FALSE
      OBVIOUS
    <3>1. t \in R /\ t \in Nat
      BY <1>1
    <3>2. p <= t
      BY <2>3, <3>1
    <3>. QED
      BY <2>3, <3>1, <3>2
  <2>6. ~ (Cardinality(below(p)) < n)
    BY <2>3 DEF Earliest
  <2>. HIDE DEF E, below
  <2>7. Cardinality(below(p)) <= Cardinality(E)
    BY <1>2, <2>5, FS_Subset
  <2>. QED
    BY <1>2, <1>3, <2>4, <2>6, <2>7
<1>. QED
  BY <1>2, <1>3, <1>4

\* The last n of a set: n of them, or all there are.
LEMMA LatestSize ==
  ASSUME NEW b \in Nat, NEW S \in SUBSET (0..b), NEW n \in Nat
  PROVE  /\ IsFiniteSet(Latest(S, n)) /\ Cardinality(Latest(S, n)) \in Nat
         /\ Cardinality(Latest(S, n)) <= n
         /\ Cardinality(Latest(S, n)) = n \/ Latest(S, n) = S
<1>. DEFINE L == Latest(S, n)
            above(x) == {t \in S : t > x}
<1>0. S \in SUBSET Nat /\ \A s \in S : s <= b
  OBVIOUS
<1>1. L \in SUBSET S /\ L \in SUBSET (0..b) /\ IsFiniteSet(S) /\ S \in SUBSET Nat
  BY <1>0, PicksAreMembers, FS_BoundedSetOfNaturals
<1>2. IsFiniteSet(L) /\ Cardinality(L) \in Nat
  BY <1>1, FS_BoundedSetOfNaturals, FS_CardinalityType
<1>3. \A x : above(x) \in SUBSET S /\ IsFiniteSet(above(x)) /\ Cardinality(above(x)) \in Nat
  BY <1>1, FS_Subset, FS_CardinalityType
<1>4. Cardinality(L) <= n
  <2>1. CASE L = {}
    BY <2>1, FS_EmptySet
  <2>2. CASE L # {}
    <3>1. PICK e \in L : IsLeast(e, L)
      BY <1>1, <2>2, LeastExists
    <3>2. e \in Nat /\ Cardinality(above(e)) < n
      BY <1>1 DEF Latest
    <3>3. L \ {e} \subseteq above(e)
      <4>. SUFFICES ASSUME NEW s \in L, s # e PROVE s > e
        BY <1>1
      <4>1. s \in Nat /\ e <= s
        BY <1>1, <3>1 DEF IsLeast
      <4>. QED
        BY <3>2, <4>1
    <3>. HIDE DEF L, above
    <3>4. Cardinality(L \ {e}) <= Cardinality(above(e))
      BY <1>3, <3>3, FS_Subset
    <3>5. Cardinality(L \ {e}) = Cardinality(L) - 1
      BY <1>2, FS_RemoveElement
    <3>. QED
      BY <1>2, <1>3, <3>2, <3>4, <3>5
  <2>. QED
    BY <2>1, <2>2
<1>5. ASSUME L # S PROVE Cardinality(L) = n
  <2>. DEFINE R == S \ L
  <2>1. R \in SUBSET (0..b) /\ R # {}
    BY <1>1, <1>5
  <2>2. PICK p \in R : IsGreatest(p, R)
    BY <2>1, GreatestExists
  <2>3. p \in S /\ p \in Nat /\ p \notin L /\ \A t \in R : t <= p
    BY <1>1, <2>2 DEF IsGreatest
  <2>4. above(p) \subseteq L
    <3>. SUFFICES ASSUME NEW t \in S, t > p, t \notin L PROVE FALSE
      OBVIOUS
    <3>1. t \in R /\ t \in Nat
      BY <1>1
    <3>2. t <= p
      BY <2>3, <3>1
    <3>. QED
      BY <2>3, <3>1, <3>2
  <2>5. ~ (Cardinality(above(p)) < n)
    BY <2>3 DEF Latest
  <2>. HIDE DEF L, above
  <2>6. Cardinality(above(p)) <= Cardinality(L)
    BY <1>2, <2>4, FS_Subset
  <2>. QED
    BY <1>2, <1>3, <1>4, <2>5, <2>6
<1>. QED
  BY <1>2, <1>4, <1>5

\* Erasing members leaves no more of them in the last n.
LEMMA LatestShrinks ==
  ASSUME NEW b \in Nat, NEW S \in SUBSET (0..b), NEW T \in SUBSET S, NEW n \in Nat
  PROVE  Cardinality(Latest(T, n)) <= Cardinality(Latest(S, n))
<1>1. T \in SUBSET (0..b)
  OBVIOUS
<1>2. /\ IsFiniteSet(Latest(S, n)) /\ Cardinality(Latest(S, n)) \in Nat
      /\ Cardinality(Latest(S, n)) = n \/ Latest(S, n) = S
  BY LatestSize
<1>3. Cardinality(Latest(T, n)) <= n
  BY <1>1, LatestSize
<1>4. CASE Latest(S, n) = S
  <2>1. Latest(T, n) \in SUBSET Latest(S, n)
    BY <1>4 DEF Latest
  <2>. QED
    BY <1>2, <2>1, FS_Subset
<1>. QED
  BY <1>2, <1>3, <1>4

\* Accepted requests took ranges of their own, each behind the one before it.
Ordered(reqs) ==
  /\ \A i \in DOMAIN reqs : reqs[i].first <= reqs[i].last
  /\ \A i, j \in DOMAIN reqs : i < j => reqs[i].last < reqs[j].first

\* An input belongs to one request.
LEMMA OneOwner ==
  ASSUME NEW reqs \in Seq(Request), Ordered(reqs),
         NEW i \in DOMAIN reqs, NEW j \in DOMAIN reqs,
         NEW s, s \in SeqsOf(reqs[i]), s \in SeqsOf(reqs[j])
  PROVE  i = j
<1>1. reqs[i] \in Request /\ reqs[j] \in Request /\ i \in Nat /\ j \in Nat
  OBVIOUS
<1>2. /\ reqs[i].first \in Nat /\ reqs[i].last \in Nat
      /\ reqs[j].first \in Nat /\ reqs[j].last \in Nat
  BY <1>1 DEF Request
<1>3. s \in Nat /\ reqs[i].first <= s /\ s <= reqs[i].last
      /\ reqs[j].first <= s /\ s <= reqs[j].last
  BY <1>2 DEF SeqsOf
<1>4. ~ (i < j) /\ ~ (j < i)
  BY <1>2, <1>3 DEF Ordered
<1>. QED
  BY <1>1, <1>4

\* What is pending is bounded, and its first input names the policy of its own
\* request, one the kind is eligible for (_select).
LEMMA PolicyOfFirst ==
  ASSUME NEW reqs \in Seq(Request), Ordered(reqs), NEW alive \in SUBSET Nat, NEW k, NEW pos,
         Pending(reqs, alive, k, pos) # {}
  PROVE  \E i \in DOMAIN reqs, s \in Pending(reqs, alive, k, pos) :
           /\ IsLeast(s, Pending(reqs, alive, k, pos))
           /\ s \in SeqsOf(reqs[i]) /\ k \in reqs[i].eligible
           /\ Policy(reqs, alive, k, pos) = reqs[i]
<1>. DEFINE P == Pending(reqs, alive, k, pos)
            fits(r) == \E s \in P : IsLeast(s, P) /\ s \in SeqsOf(r)
            rows == {reqs[j] : j \in DOMAIN reqs}
<1>1. P \in SUBSET Nat
  BY DEF Pending, Inputs
<1>2. PICK s \in P : IsLeast(s, P)
  BY <1>1, LeastExists
<1>3. PICK i \in DOMAIN reqs : s \in SeqsOf(reqs[i]) /\ k \in reqs[i].eligible
  BY DEF Pending, Inputs
<1>4. Policy(reqs, alive, k, pos) = CHOOSE r \in rows : fits(r)
  BY DEF Policy
<1>5. \A r \in rows : fits(r) => r = reqs[i]
  <2>. SUFFICES ASSUME NEW j \in DOMAIN reqs, NEW t \in P, IsLeast(t, P), t \in SeqsOf(reqs[j])
                PROVE  j = i
    OBVIOUS
  <2>1. t \in Nat /\ s \in Nat /\ t <= s /\ s <= t
    BY <1>1, <1>2 DEF IsLeast
  <2>2. t = s
    BY <2>1
  <2>. QED
    BY <1>3, <2>2, OneOwner
<1>6. fits(reqs[i]) /\ reqs[i] \in rows
  BY <1>2, <1>3
<1>. HIDE DEF fits, rows
<1>7. (CHOOSE r \in rows : fits(r)) = reqs[i]
  BY <1>5, <1>6
<1>. QED
  BY <1>2, <1>3, <1>4, <1>7

\* Pending, consumed and visible inputs of a bounded log.
LEMMA VisibleInputs ==
  ASSUME NEW reqs \in Seq(Request), Sliding(reqs), NEW b \in Nat, NEW alive \in SUBSET (0..b),
         NEW k, NEW pos, Pending(reqs, alive, k, pos) # {}
  PROVE  /\ alive \in SUBSET Nat
         /\ Pending(reqs, alive, k, pos) \in SUBSET (0..b)
         /\ Pending(reqs, alive, k, pos) \in SUBSET Nat
         /\ Consumed(reqs, alive, k, pos) \in SUBSET (0..b)
         /\ Visible(reqs, alive, k, pos) \subseteq Pending(reqs, alive, k, pos)
         /\ IsFiniteSet(Visible(reqs, alive, k, pos))
         /\ Cardinality(Visible(reqs, alive, k, pos)) \in Nat
         /\ \/ Cardinality(Visible(reqs, alive, k, pos)) = Policy(reqs, alive, k, pos).width
            \/ Pending(reqs, alive, k, pos) \subseteq Visible(reqs, alive, k, pos)
<1>1. alive \in SUBSET Nat
  OBVIOUS
<1>2. /\ Pending(reqs, alive, k, pos) \in SUBSET (0..b)
      /\ Pending(reqs, alive, k, pos) \in SUBSET Nat
      /\ Consumed(reqs, alive, k, pos) \in SUBSET (0..b)
  BY <1>1 DEF Pending, Consumed, Inputs
<1>3. Policy(reqs, alive, k, pos).width \in Nat
  BY <1>1, PolicyIsAdmitted
<1>. DEFINE P == Pending(reqs, alive, k, pos)
            V == Visible(reqs, alive, k, pos)
            width == Policy(reqs, alive, k, pos).width
<1>4. V = Earliest(P, width)
  BY DEF Visible
<1>. HIDE DEF P, V, width
<1>5. /\ IsFiniteSet(V) /\ Cardinality(V) \in Nat
      /\ Cardinality(V) = width \/ P \subseteq V
  BY <1>2, <1>3, <1>4, EarliestSize DEF P, width
<1>6. V \subseteq P
  BY <1>4, PicksAreMembers
<1>. QED
  BY <1>1, <1>2, <1>5, <1>6 DEF P, V, width

\* A batch asks for one input at least.
LEMMA NeededIsPositive ==
  ASSUME NEW reqs \in Seq(Request), Ordered(reqs), Sliding(reqs), NEW b \in Nat,
         NEW alive \in SUBSET (0..b), NEW k, NEW pos, NEW begun \in BOOLEAN,
         Pending(reqs, alive, k, pos) # {}
  PROVE  /\ Policy(reqs, alive, k, pos).width \in Nat \ {0}
         /\ Needed(reqs, alive, k, pos, begun) \in Nat
         /\ 1 <= Needed(reqs, alive, k, pos, begun)
         /\ Needed(reqs, alive, k, pos, begun) <= Policy(reqs, alive, k, pos).width
<1>. DEFINE p == Policy(reqs, alive, k, pos)
            C == Consumed(reqs, alive, k, pos)
            c == Cardinality(Latest(C, p.width))
            n == Needed(reqs, alive, k, pos, begun)
<1>1. alive \in SUBSET Nat /\ C \in SUBSET (0..b)
  BY VisibleInputs
<1>2. p.width \in Nat \ {0} /\ p.stride \in Nat \ {0} /\ p.stride <= p.width
  <2>1. PICK i \in DOMAIN reqs : p = reqs[i]
    BY <1>1, PolicyOfFirst
  <2>2. reqs[i] \in Request /\ reqs[i].stride <= reqs[i].width
    BY DEF Sliding
  <2>3. reqs[i].width \in 1..MaxWidth /\ reqs[i].stride \in 1..MaxWidth
    BY <2>2 DEF Request
  <2>. QED
    BY <2>1, <2>2, <2>3, MaxWidthAssumption
<1>3. c \in Nat
  BY <1>1, <1>2, LatestSize
<1>4. n = IF begun /\ p.stride > p.width - c THEN p.stride
          ELSE IF begun THEN p.width - c ELSE p.width
  BY DEF Needed
<1>. HIDE DEF p, c, n
<1>5. n \in Nat /\ 1 <= n /\ n <= p.width
  BY <1>2, <1>3, <1>4
<1>. QED
  BY <1>2, <1>5 DEF n, p

\* Every barrier lies at or behind the first pending input, so the batch it
\* closes is not empty (_select, _completion_boundary, _batch_wait_boundary,
\* _idle_boundary).
LEMMA BarriersAdmitFirst ==
  ASSUME NEW reqs \in Seq(Request), Ordered(reqs), NEW b \in Nat, NEW alive \in SUBSET (0..b),
         NEW k, NEW pos \in Nat, NEW begun \in BOOLEAN,
         NEW s, IsLeast(s, Pending(reqs, alive, k, pos)),
         Visible(reqs, alive, k, pos) \subseteq Pending(reqs, alive, k, pos)
  PROVE  \A bar \in Barriers(reqs, alive, k, pos, begun) : s <= bar
<1>. DEFINE P == Pending(reqs, alive, k, pos)
            V == Visible(reqs, alive, k, pos)
<1>0. alive \in SUBSET Nat
  OBVIOUS
<1>1. P \in SUBSET Nat /\ s \in P /\ \A t \in P : s <= t
  <2>1. P \in SUBSET Nat
    BY <1>0 DEF Pending, Inputs
  <2>. HIDE DEF P
  <2>. QED
    BY <2>1 DEF IsLeast, P
<1>2. \A i \in DOMAIN reqs : reqs[i] \in Request
  OBVIOUS
<1>3. \A i \in DOMAIN reqs : reqs[i].first \in Nat /\ reqs[i].last \in Nat
  BY <1>2 DEF Request
<1>4. ASSUME NEW i \in DOMAIN reqs, NEW t \in SeqsOf(reqs[i]) \cap alive,
             t > pos, k \in reqs[i].eligible
      PROVE  t \in P /\ s <= t /\ t \in Nat
  <2>1. t \in P
    BY <1>4 DEF Pending, Inputs
  <2>. HIDE DEF P
  <2>. QED
    BY <1>1, <2>1
<1>5. ASSUME NEW bar \in ForcedEnds(reqs, alive, k, pos) PROVE s <= bar
  <2>1. PICK i \in DOMAIN reqs : /\ bar = reqs[i].last /\ k \in reqs[i].eligible
                                /\ \E t \in SeqsOf(reqs[i]) \cap alive : t > pos
    BY <1>5 DEF ForcedEnds
  <2>2. PICK t \in SeqsOf(reqs[i]) \cap alive : t > pos
    BY <2>1
  <2>3. t <= reqs[i].last
    BY <1>3 DEF SeqsOf
  <2>4. t \in Nat /\ s <= t
    BY <1>4, <2>1, <2>2
  <2>. QED
    BY <1>1, <1>3, <2>1, <2>3, <2>4
<1>6. ASSUME NEW bar \in FinishedEnds(reqs, alive, k, pos) PROVE s <= bar
  <2>1. PICK i \in DOMAIN reqs, m \in DOMAIN reqs :
          /\ bar = reqs[i].last /\ k \in reqs[m].eligible
          /\ \E t \in SeqsOf(reqs[m]) \cap alive : pos < t /\ t <= reqs[i].last
    BY <1>6 DEF FinishedEnds
  <2>2. PICK t \in SeqsOf(reqs[m]) \cap alive : pos < t /\ t <= reqs[i].last
    BY <2>1
  <2>3. t \in Nat
    BY <1>3 DEF SeqsOf
  <2>4. t > pos
    BY <2>2, <2>3
  <2>5. s <= t
    BY <1>4, <2>1, <2>2, <2>4
  <2>. QED
    BY <1>1, <1>3, <2>1, <2>2, <2>3, <2>5
<1>7. ASSUME NEW bar \in BatchEnds(reqs, V) PROVE s <= bar
  <2>1. bar \in V
    BY <1>7 DEF BatchEnds
  <2>. QED
    BY <1>1, <2>1
<1>8. ASSUME NEW bar \in IdleEnds(reqs, V) PROVE s <= bar
  <2>1. PICK j \in SessionTails(reqs, V) : j \in DOMAIN reqs /\ bar = reqs[j].last
    BY <1>8 DEF IdleEnds, SessionTails, LatestOfSession
  <2>2. PICK i \in Owners(reqs, V) : j \in LatestOfSession(reqs, reqs[i].session)
    BY <2>1 DEF SessionTails
  <2>3. i \in DOMAIN reqs /\ j \in DOMAIN reqs /\ i <= j
    BY <2>1, <2>2 DEF LatestOfSession, Owners
  <2>4. PICK t \in SeqsOf(reqs[i]) : t \in V
    BY <2>2 DEF Owners
  <2>5. t \in Nat /\ t <= reqs[i].last /\ s <= t
    BY <1>1, <1>3, <2>3, <2>4 DEF SeqsOf
  <2>6. reqs[i].last <= reqs[j].last
    <3>1. CASE i = j
      BY <1>3, <2>3, <3>1
    <3>2. CASE i # j
      <4>1. i < j
        BY <2>3, <3>2
      <4>2. reqs[i].last < reqs[j].first /\ reqs[j].first <= reqs[j].last
        BY <2>3, <4>1 DEF Ordered
      <4>. QED
        BY <1>3, <2>3, <4>2
    <3>. QED
      BY <3>1, <3>2
  <2>. QED
    BY <1>1, <1>3, <2>1, <2>3, <2>5, <2>6
<1>. QED
  BY <1>5, <1>6, <1>7, <1>8, Zenon DEF Barriers, V

\* Barriers are sequence numbers.
LEMMA BarriersAreNat ==
  ASSUME NEW reqs \in Seq(Request), NEW alive \in SUBSET Nat, NEW k, NEW pos, NEW begun
  PROVE  Barriers(reqs, alive, k, pos, begun) \subseteq Nat
<1>. DEFINE V == Visible(reqs, alive, k, pos)
<1>1. \A i \in DOMAIN reqs : reqs[i].last \in Nat
  <2>1. \A i \in DOMAIN reqs : reqs[i] \in Request
    OBVIOUS
  <2>. QED
    BY <2>1 DEF Request
<1>2. BatchEnds(reqs, V) \subseteq Nat
  <2>1. Pending(reqs, alive, k, pos) \subseteq Nat
    BY DEF Pending, Inputs
  <2>2. V \subseteq Nat
    BY <2>1, PicksAreMembers DEF Visible
  <2>. HIDE DEF V
  <2>. QED
    BY <2>2 DEF BatchEnds
<1>3. SessionTails(reqs, V) \subseteq DOMAIN reqs
  BY DEF SessionTails, LatestOfSession
<1>4. IdleEnds(reqs, V) \subseteq Nat
  BY <1>1, <1>3 DEF IdleEnds
<1>5. ForcedEnds(reqs, alive, k, pos) \subseteq Nat /\ FinishedEnds(reqs, alive, k, pos) \subseteq Nat
  BY <1>1 DEF ForcedEnds, FinishedEnds
<1>. QED
  BY <1>2, <1>4, <1>5, Zenon DEF Barriers, V

\* Whatever is pending, its first input is visible.
LEMMA VisibleIsNotEmpty ==
  ASSUME NEW reqs \in Seq(Request), Ordered(reqs), Sliding(reqs), NEW b \in Nat,
         NEW alive \in SUBSET (0..b), NEW k, NEW pos, Pending(reqs, alive, k, pos) # {}
  PROVE  Visible(reqs, alive, k, pos) # {}
<1>. DEFINE V == Visible(reqs, alive, k, pos)
            P == Pending(reqs, alive, k, pos)
            width == Policy(reqs, alive, k, pos).width
<1>1. Cardinality(V) = width \/ P \subseteq V
  BY VisibleInputs
<1>2. width \in Nat \ {0}
  BY NeededIsPositive
<1>3. Cardinality({}) = 0
  BY FS_EmptySet
<1>4. ASSUME V = {} PROVE FALSE
  <2>1. Cardinality(V) # width
    BY <1>2, <1>3, <1>4
  <2>2. ~ (P \subseteq V)
    BY <1>4
  <2>. QED
    BY <1>1, <2>1, <2>2
<1>. QED
  BY <1>4

\* A kind with anything pending gets a window unless its batch is short and no
\* barrier is in force: a forced, finished or overdue batch is never held back
\* and never empty, however erasures thinned the log (_select).
THEOREM SelectionIsComplete ==
  ASSUME NEW reqs \in Seq(Request), Ordered(reqs), Sliding(reqs), NEW b \in Nat,
         NEW alive \in SUBSET (0..b), NEW k, NEW pos \in Nat, NEW begun \in BOOLEAN
  PROVE  Selectable(reqs, alive, k, pos, begun) <=>
           /\ Pending(reqs, alive, k, pos) # {}
           /\ Barriers(reqs, alive, k, pos, begun) # {} \/ ~Short(reqs, alive, k, pos, begun)
<1>. DEFINE P == Pending(reqs, alive, k, pos)
            V == Visible(reqs, alive, k, pos)
            bars == Barriers(reqs, alive, k, pos, begun)
            short == Short(reqs, alive, k, pos, begun)
            need == Needed(reqs, alive, k, pos, begun)
            W == {s \in V : \A bar \in bars : s <= bar}
<1>1. NewInputs(reqs, alive, k, pos, begun) =
        IF P = {} THEN {} ELSE IF bars = {} /\ short THEN {} ELSE Earliest(W, need)
  BY DEF NewInputs
<1>2. ASSUME P # {}, ~ (bars = {} /\ short)
      PROVE  Earliest(W, need) # {}
  <2>0. Pending(reqs, alive, k, pos) # {}
    BY <1>2
  <2>1. /\ alive \in SUBSET Nat /\ P \in SUBSET Nat /\ V \subseteq P
    BY <2>0, VisibleInputs
  <2>2. need \in Nat /\ 1 <= need /\ need <= Policy(reqs, alive, k, pos).width
        /\ Policy(reqs, alive, k, pos).width \in Nat
    BY <1>2, <2>1, NeededIsPositive, PolicyIsAdmitted
  <2>3. P \in SUBSET Nat
    BY <2>1
  <2>4. PICK s \in P : IsLeast(s, P)
    BY <1>2, <2>3, LeastExists
  <2>5. V # {}
    BY <2>0, VisibleIsNotEmpty
  <2>6. s \in V
    <3>1. PICK e \in V : TRUE
      BY <2>5
    <3>2. e \in P /\ s <= e
      BY <2>1, <2>4, <3>1 DEF IsLeast
    <3>. QED
      BY <2>2, <2>3, <2>4, <3>1, <3>2, EarliestIsPrefix DEF Visible
  <2>7. \A bar \in bars : s <= bar
    BY <2>1, <2>4, BarriersAdmitFirst
  <2>8. s \in W
    BY <2>6, <2>7
  <2>9. \A t \in W : ~ (t < s)
    <3>. SUFFICES ASSUME NEW t \in W, t < s PROVE FALSE
      OBVIOUS
    <3>1. t \in P /\ t \in Nat /\ s \in Nat /\ s <= t
      BY <2>1, <2>3, <2>4 DEF IsLeast
    <3>. QED
      BY <3>1
  <2>. HIDE DEF W, need
  <2>10. {t \in W : t < s} = {}
    BY <2>9
  <2>11. Cardinality({t \in W : t < s}) < need
    <3>1. Cardinality({t \in W : t < s}) = 0
      BY <2>10, FS_EmptySet
    <3>. QED
      BY <2>2, <3>1
  <2>. QED
    BY <2>8, <2>11 DEF Earliest
<1>. HIDE DEF P, V, bars, short, need, W
<1>3. Selectable(reqs, alive, k, pos, begun) <=> NewInputs(reqs, alive, k, pos, begun) # {}
  BY DEF Selectable
<1>4. Selectable(reqs, alive, k, pos, begun) <=> P # {} /\ ~ (bars = {} /\ short)
  BY <1>1, <1>2, <1>3
<1>. QED
  BY <1>4 DEF P, bars, short

\* A window takes exactly what a full batch asks for, unless a barrier ends it
\* sooner: then it takes everything pending up to the first barrier and nothing
\* behind it.  Its stored manifest fits the window size (_select).
THEOREM SelectionIsExact ==
  ASSUME NEW reqs \in Seq(Request), Ordered(reqs), Sliding(reqs), NEW b \in Nat,
         NEW alive \in SUBSET (0..b), NEW k, NEW pos \in Nat, NEW begun \in BOOLEAN,
         Selectable(reqs, alive, k, pos, begun)
  PROVE  LET new  == NewInputs(reqs, alive, k, pos, begun)
             bars == Barriers(reqs, alive, k, pos, begun)
             need == Needed(reqs, alive, k, pos, begun)
         IN  /\ Cardinality(new) \in Nat /\ Cardinality(new) <= need
             /\ \A s \in new, bar \in bars : s <= bar
             /\ \/ Cardinality(new) = need
                \/ bars # {} /\ \A s \in Pending(reqs, alive, k, pos) :
                                  (\A bar \in bars : s <= bar) => s \in new
             /\ Cardinality(Manifest(reqs, alive, k, pos, begun)) <= Policy(reqs, alive, k, pos).width
<1>. DEFINE P == Pending(reqs, alive, k, pos)
            V == Visible(reqs, alive, k, pos)
            bars == Barriers(reqs, alive, k, pos, begun)
            need == Needed(reqs, alive, k, pos, begun)
            N == NewInputs(reqs, alive, k, pos, begun)
            W == {s \in V : \A bar \in bars : s <= bar}
            width == Policy(reqs, alive, k, pos).width
            L == Latest(Consumed(reqs, alive, k, pos), width)
<1>1. P # {} /\ (bars # {} \/ ~Short(reqs, alive, k, pos, begun))
  BY SelectionIsComplete
<1>2. N = Earliest(W, need)
  BY <1>1 DEF NewInputs
<1>3. /\ alive \in SUBSET Nat /\ P \in SUBSET Nat /\ P \in SUBSET (0..b) /\ V \subseteq P
      /\ Consumed(reqs, alive, k, pos) \in SUBSET (0..b)
      /\ IsFiniteSet(V) /\ Cardinality(V) \in Nat
      /\ Cardinality(V) = width \/ P \subseteq V
  BY <1>1, VisibleInputs
<1>4. need \in Nat /\ need <= width /\ width \in Nat
  BY <1>1, <1>3, NeededIsPositive, PolicyIsAdmitted
<1>5. W \subseteq V /\ W \in SUBSET (0..b)
  BY <1>3
<1>. HIDE DEF W
<1>. HIDE DEF need
<1>6. /\ IsFiniteSet(N) /\ Cardinality(N) \in Nat /\ Cardinality(N) <= need
      /\ Cardinality(N) = need \/ W \subseteq N
      /\ N \subseteq W
  <2>1. /\ IsFiniteSet(Earliest(W, need)) /\ Cardinality(Earliest(W, need)) \in Nat
        /\ Cardinality(Earliest(W, need)) <= need
        /\ Cardinality(Earliest(W, need)) = need \/ W \subseteq Earliest(W, need)
    BY <1>4, <1>5, EarliestSize
  <2>2. Earliest(W, need) \subseteq W
    BY PicksAreMembers
  <2>. HIDE DEF N
  <2>. QED
    BY <1>2, <2>1, <2>2
<1>7. \A s \in N, bar \in bars : s <= bar
  BY <1>6 DEF W
<1>8. ASSUME Cardinality(N) # need, bars = {} PROVE FALSE
  <2>1. W = V
    BY <1>8 DEF W
  <2>2. N = V
    BY <1>6, <1>8, <2>1
  <2>3. ~ (Cardinality(V) < need)
    BY <1>1, <1>8 DEF Short, need
  <2>. HIDE DEF N, V
  <2>. QED
    BY <1>3, <1>4, <1>6, <1>8, <2>2, <2>3
<1>9. ASSUME Cardinality(N) # need, NEW s \in P, \A bar \in bars : s <= bar
      PROVE  s \in N
  <2>. SUFFICES ASSUME s \notin N PROVE FALSE
    OBVIOUS
  <2>1. N = W
    BY <1>6, <1>9
  <2>2. s \notin V
    BY <1>9, <2>1 DEF W
  <2>3. Cardinality(V) = width
    BY <1>3, <2>2
  <2>4. PICK v \in V : v \notin W
    <3>1. N # V
      <4>. HIDE DEF N, V, width
      <4>. QED
        BY <1>4, <1>6, <1>9, <2>3
    <3>. QED
      BY <1>5, <2>1, <3>1
  <2>5. PICK bar \in bars : ~ (v <= bar)
    BY <2>4 DEF W
  <2>6. bar \in Nat
    BY <1>3, BarriersAreNat
  <2>7. v \in Nat /\ s \in Nat /\ s <= bar
    BY <1>3, <1>9, <2>4
  <2>8. s <= v
    BY <2>5, <2>6, <2>7
  <2>9. s \in V
    BY <1>3, <1>4, <2>8, EarliestIsPrefix DEF Visible
  <2>. QED
    BY <2>2, <2>9
<1>10. Cardinality(Manifest(reqs, alive, k, pos, begun)) <= width
  <2>1. L \in SUBSET (0..b)
    BY <1>3, PicksAreMembers
  <2>2. L \cup N \in SUBSET (0..b)
    BY <1>5, <1>6, <2>1
  <2>3. Manifest(reqs, alive, k, pos, begun) = Latest(L \cup N, width)
    BY DEF Manifest
  <2>. HIDE DEF L, N, width
  <2>. QED
    BY <1>4, <2>2, <2>3, LatestSize
<1>. HIDE DEF N, P, bars, width
<1>11. \/ Cardinality(N) = need
       \/ bars # {} /\ \A s \in P : (\A bar \in bars : s <= bar) => s \in N
  BY <1>8, <1>9
<1>. QED
  BY <1>6, <1>7, <1>10, <1>11 DEF N, P, bars, need, width

-----------------------------------------------------------------------------
(* What lets a kind rest.                                                  *)

\* What keeps a kind from being selected now and later, were nothing to happen:
\* nothing is pending, or a short batch that no barrier and no deadline closes.
Rests(reqs, alive, k, pos, begun) ==
  \/ Pending(reqs, alive, k, pos) = {}
  \/ /\ ForcedEnds(reqs, alive, k, pos) = {} /\ FinishedEnds(reqs, alive, k, pos) = {}
     /\ Short(reqs, alive, k, pos, begun)
     /\ \A i \in Owners(reqs, Visible(reqs, alive, k, pos)) : reqs[i].wait = "none"
     /\ \A i \in SessionTails(reqs, Visible(reqs, alive, k, pos)) : reqs[i].idle = "none"

\* A kind rests exactly when it neither gets a window nor awaits a deadline.
LEMMA RestsIff ==
  ASSUME NEW reqs \in Seq(Request), Ordered(reqs), Sliding(reqs), NEW b \in Nat,
         NEW alive \in SUBSET (0..b), NEW k, NEW pos \in Nat, NEW begun \in BOOLEAN
  PROVE  Rests(reqs, alive, k, pos, begun) <=>
           ~Selectable(reqs, alive, k, pos, begun) /\ ~Awaits(reqs, alive, k, pos, begun)
<1>. DEFINE P == Pending(reqs, alive, k, pos)
            V == Visible(reqs, alive, k, pos)
            bars == Barriers(reqs, alive, k, pos, begun)
            short == Short(reqs, alive, k, pos, begun)
            forced == ForcedEnds(reqs, alive, k, pos)
            finished == FinishedEnds(reqs, alive, k, pos)
            later == \/ \E i \in Owners(reqs, V) : reqs[i].wait = "later"
                     \/ \E i \in SessionTails(reqs, V) : reqs[i].idle = "later"
            none == /\ \A i \in Owners(reqs, V) : reqs[i].wait = "none"
                    /\ \A i \in SessionTails(reqs, V) : reqs[i].idle = "none"
<1>1. Rests(reqs, alive, k, pos, begun) <=>
        P = {} \/ (forced = {} /\ finished = {} /\ short /\ none)
  BY DEF Rests
<1>2. Selectable(reqs, alive, k, pos, begun) <=> P # {} /\ (bars # {} \/ ~short)
  BY SelectionIsComplete
<1>3. Awaits(reqs, alive, k, pos, begun) <=> P # {} /\ bars = {} /\ short /\ later
  BY Zenon DEF Awaits
<1>4. bars = IF forced # {} THEN forced ELSE IF finished # {} THEN finished
             ELSE IF ~short THEN {}
             ELSE IF BatchEnds(reqs, V) # {} THEN BatchEnds(reqs, V) ELSE IdleEnds(reqs, V)
  BY Zenon DEF Barriers
<1>5. ASSUME P # {}, short
      PROVE  none <=> BatchEnds(reqs, V) = {} /\ IdleEnds(reqs, V) = {} /\ ~later
  <2>1. \A i \in DOMAIN reqs : reqs[i].wait \in Deadlines /\ reqs[i].idle \in Deadlines
    <3>1. \A i \in DOMAIN reqs : reqs[i] \in Request
      OBVIOUS
    <3>. QED
      BY <3>1 DEF Request
  <2>2. Owners(reqs, V) \subseteq DOMAIN reqs /\ SessionTails(reqs, V) \subseteq DOMAIN reqs
    BY DEF Owners, SessionTails, LatestOfSession
  <2>3. \E s \in V : IsGreatest(s, V)
    <3>1. V \in SUBSET (0..b)
      BY <1>5, VisibleInputs
    <3>2. V # {}
      BY <1>5, VisibleIsNotEmpty
    <3>. QED
      BY <3>1, <3>2, GreatestExists
  <2>4. BatchEnds(reqs, V) = {} <=> \A i \in Owners(reqs, V) : reqs[i].wait # "due"
    BY <2>3 DEF BatchEnds
  <2>5. IdleEnds(reqs, V) = {} <=> \A i \in SessionTails(reqs, V) : reqs[i].idle # "due"
    BY DEF IdleEnds
  <2>. HIDE DEF V
  <2>. QED
    BY <2>1, <2>2, <2>4, <2>5 DEF Deadlines
<1>. HIDE DEF P, V, bars, short, forced, finished, later, none
<1>. QED
  BY <1>1, <1>2, <1>3, <1>4, <1>5

\* The requests a kind is eligible for freeze one window policy.
SamePolicy(reqs, k) ==
  \A i, j \in DOMAIN reqs :
    k \in reqs[i].eligible /\ k \in reqs[j].eligible =>
      reqs[i].width = reqs[j].width /\ reqs[i].stride = reqs[j].stride

\* Under one policy, erasing inputs wakes no kind: the batch gets no longer and
\* asks for no fewer inputs, and no barrier or deadline joins it.
LEMMA ErasureLetsRest ==
  ASSUME NEW reqs \in Seq(Request), Ordered(reqs), Sliding(reqs), NEW b \in Nat,
         NEW alive \in SUBSET (0..b), NEW fewer \in SUBSET alive,
         NEW k, NEW pos \in Nat, NEW begun \in BOOLEAN,
         SamePolicy(reqs, k), Rests(reqs, alive, k, pos, begun)
  PROVE  Rests(reqs, fewer, k, pos, begun)
<1>. DEFINE P == Pending(reqs, alive, k, pos)
            Q == Pending(reqs, fewer, k, pos)
            V == Visible(reqs, alive, k, pos)
            U == Visible(reqs, fewer, k, pos)
            p == Policy(reqs, alive, k, pos)
            q == Policy(reqs, fewer, k, pos)
            C == Consumed(reqs, alive, k, pos)
            D == Consumed(reqs, fewer, k, pos)
<1>. SUFFICES ASSUME Q # {} PROVE Rests(reqs, fewer, k, pos, begun)
  BY DEF Rests
<1>1. Q \subseteq P /\ D \subseteq C
  <2>1. Inputs(reqs, fewer, k) \subseteq Inputs(reqs, alive, k)
    <3>. SUFFICES ASSUME NEW s \in Inputs(reqs, fewer, k) PROVE s \in Inputs(reqs, alive, k)
      OBVIOUS
    <3>1. PICK i \in DOMAIN reqs : k \in reqs[i].eligible /\ s \in SeqsOf(reqs[i]) \cap fewer
      BY DEF Inputs
    <3>2. s \in SeqsOf(reqs[i]) \cap alive
      BY <3>1
    <3>. QED
      BY <3>1, <3>2 DEF Inputs
  <2>. QED
    BY <2>1 DEF Pending, Consumed
<1>2. P # {} /\ fewer \in SUBSET (0..b)
  BY <1>1
<1>3. /\ ForcedEnds(reqs, alive, k, pos) = {} /\ FinishedEnds(reqs, alive, k, pos) = {}
      /\ Short(reqs, alive, k, pos, begun)
      /\ \A i \in Owners(reqs, V) : reqs[i].wait = "none"
      /\ \A i \in SessionTails(reqs, V) : reqs[i].idle = "none"
  BY <1>2 DEF Rests
<1>4. ForcedEnds(reqs, fewer, k, pos) = {}
  BY <1>3 DEF ForcedEnds
<1>5. FinishedEnds(reqs, fewer, k, pos) = {}
  BY <1>3 DEF FinishedEnds
<1>6. p.width = q.width /\ p.stride = q.stride
  <2>1. alive \in SUBSET Nat /\ fewer \in SUBSET Nat
    BY <1>2, VisibleInputs
  <2>2. PICK i \in DOMAIN reqs : k \in reqs[i].eligible /\ p = reqs[i]
    BY <1>2, <2>1, PolicyOfFirst
  <2>3. PICK j \in DOMAIN reqs : k \in reqs[j].eligible /\ q = reqs[j]
    BY <2>1, PolicyOfFirst
  <2>. QED
    BY <2>2, <2>3 DEF SamePolicy
<1>7. /\ IsFiniteSet(V) /\ Cardinality(V) \in Nat /\ C \in SUBSET (0..b)
      /\ Cardinality(V) = p.width \/ P \subseteq V
  BY <1>2, VisibleInputs
<1>8. /\ U \subseteq Q /\ Cardinality(U) \in Nat
  BY <1>2, VisibleInputs
<1>9. /\ Needed(reqs, alive, k, pos, begun) \in Nat
      /\ Needed(reqs, alive, k, pos, begun) <= p.width /\ p.width \in Nat
  BY <1>2, NeededIsPositive
<1>10. Cardinality(V) < Needed(reqs, alive, k, pos, begun)
  BY <1>3 DEF Short
<1>11. U \subseteq V
  <2>1. Cardinality(V) # p.width
    BY <1>7, <1>9, <1>10
  <2>2. P \subseteq V
    BY <1>7, <2>1
  <2>. QED
    BY <1>1, <1>8, <2>2
<1>12. Cardinality(U) <= Cardinality(V)
  BY <1>7, <1>11, FS_Subset
<1>13. Needed(reqs, alive, k, pos, begun) <= Needed(reqs, fewer, k, pos, begun)
         /\ Needed(reqs, fewer, k, pos, begun) \in Nat
  <2>. DEFINE c == Cardinality(Latest(C, p.width))
              d == Cardinality(Latest(D, q.width))
  <2>1. c \in Nat /\ d \in Nat /\ d <= c
    <3>1. D \in SUBSET C /\ D \in SUBSET (0..b) /\ p.width \in Nat
      BY <1>1, <1>7, <1>9
    <3>. HIDE DEF C, D, p, q
    <3>2. c \in Nat /\ Cardinality(Latest(D, p.width)) \in Nat
      BY <1>7, <3>1, LatestSize
    <3>3. Cardinality(Latest(D, p.width)) <= c
      BY <1>7, <3>1, LatestShrinks
    <3>. QED
      BY <1>6, <3>2, <3>3
  <2>2. Needed(reqs, alive, k, pos, begun) =
          IF begun /\ p.stride > p.width - c THEN p.stride
          ELSE IF begun THEN p.width - c ELSE p.width
    BY DEF Needed
  <2>3. Needed(reqs, fewer, k, pos, begun) =
          IF begun /\ q.stride > q.width - d THEN q.stride
          ELSE IF begun THEN q.width - d ELSE q.width
    BY DEF Needed
  <2>4. p.stride \in Nat /\ p.width \in Nat
    BY <1>2, VisibleInputs, PolicyIsAdmitted
  <2>5. Needed(reqs, fewer, k, pos, begun) \in Nat
    BY <1>2, NeededIsPositive
  <2>. HIDE DEF c, d, p, q
  <2>6. PICK w \in Nat, t \in Nat : w = p.width /\ t = p.stride
    BY <2>4
  <2>7. Needed(reqs, alive, k, pos, begun) =
          IF begun /\ t > w - c THEN t ELSE IF begun THEN w - c ELSE w
    BY <2>2, <2>6
  <2>8. Needed(reqs, fewer, k, pos, begun) =
          IF begun /\ t > w - d THEN t ELSE IF begun THEN w - d ELSE w
    BY <1>6, <2>3, <2>6
  <2>. QED
    BY <2>1, <2>5, <2>7, <2>8
<1>14. Short(reqs, fewer, k, pos, begun)
  BY <1>7, <1>8, <1>9, <1>10, <1>12, <1>13 DEF Short
<1>15. Owners(reqs, U) \subseteq Owners(reqs, V) /\ SessionTails(reqs, U) \subseteq SessionTails(reqs, V)
  BY <1>11 DEF Owners, SessionTails
<1>. QED
  BY <1>3, <1>4, <1>5, <1>14, <1>15 DEF Rests

\* Nothing but absent deadlines is the same in both logs.
DeadlinesMoved(reqs, then) ==
  /\ DOMAIN then = DOMAIN reqs
  /\ \A i \in DOMAIN reqs :
       /\ then[i].first = reqs[i].first /\ then[i].last = reqs[i].last
       /\ then[i].session = reqs[i].session /\ then[i].eligible = reqs[i].eligible
       /\ then[i].force = reqs[i].force /\ then[i].finished = reqs[i].finished
       /\ then[i].width = reqs[i].width /\ then[i].stride = reqs[i].stride
       /\ reqs[i].wait = "none" => then[i].wait = "none"
       /\ reqs[i].idle = "none" => then[i].idle = "none"

\* A kind that awaits no deadline is woken by none.
LEMMA DeadlineLetsRest ==
  ASSUME NEW reqs \in Seq(Request), NEW then \in Seq(Request), DeadlinesMoved(reqs, then),
         Ordered(reqs), Sliding(reqs), NEW alive \in SUBSET Nat,
         NEW k, NEW pos \in Nat, NEW begun \in BOOLEAN,
         Rests(reqs, alive, k, pos, begun)
  PROVE  Rests(then, alive, k, pos, begun)
<1>. DEFINE P == Pending(reqs, alive, k, pos)
            V == Visible(reqs, alive, k, pos)
            p == Policy(reqs, alive, k, pos)
            q == Policy(then, alive, k, pos)
<1>. USE DEF DeadlinesMoved
<1>0. DOMAIN then = DOMAIN reqs /\ \A i \in DOMAIN reqs : SeqsOf(then[i]) = SeqsOf(reqs[i])
  BY DEF SeqsOf
<1>1. Inputs(then, alive, k) = Inputs(reqs, alive, k)
  <2>1. {j \in DOMAIN then : k \in then[j].eligible} = {j \in DOMAIN reqs : k \in reqs[j].eligible}
    BY <1>0
  <2>. QED
    BY <1>0, <2>1 DEF Inputs
<1>2. Pending(then, alive, k, pos) = P /\ Consumed(then, alive, k, pos) = Consumed(reqs, alive, k, pos)
  BY <1>1 DEF Pending, Consumed
<1>. SUFFICES ASSUME P # {} PROVE Rests(then, alive, k, pos, begun)
  BY <1>2 DEF Rests
<1>3. /\ ForcedEnds(reqs, alive, k, pos) = {} /\ FinishedEnds(reqs, alive, k, pos) = {}
      /\ Short(reqs, alive, k, pos, begun)
      /\ \A i \in Owners(reqs, V) : reqs[i].wait = "none"
      /\ \A i \in SessionTails(reqs, V) : reqs[i].idle = "none"
  BY DEF Rests
<1>4. ForcedEnds(then, alive, k, pos) = {}
  <2>. SUFFICES ASSUME NEW j \in DOMAIN then, then[j].force, k \in then[j].eligible,
                       \E s \in SeqsOf(then[j]) \cap alive : s > pos
                PROVE  FALSE
    BY DEF ForcedEnds
  <2>1. reqs[j].last \in ForcedEnds(reqs, alive, k, pos)
    BY <1>0 DEF ForcedEnds
  <2>. QED
    BY <1>3, <2>1
<1>5. FinishedEnds(then, alive, k, pos) = {}
  <2>. SUFFICES ASSUME NEW j \in DOMAIN then, then[j].finished, NEW m \in DOMAIN then,
                       then[m].session = then[j].session, k \in then[m].eligible,
                       \E s \in SeqsOf(then[m]) \cap alive : pos < s /\ s <= then[j].last
                PROVE  FALSE
    BY DEF FinishedEnds
  <2>1. reqs[j].last \in FinishedEnds(reqs, alive, k, pos)
    BY <1>0 DEF FinishedEnds
  <2>. QED
    BY <1>3, <2>1
<1>6. p.width = q.width /\ p.stride = q.stride
  <2>1. Ordered(then)
    BY DEF Ordered
  <2>2. PICK i \in DOMAIN reqs, s \in P : IsLeast(s, P) /\ s \in SeqsOf(reqs[i]) /\ p = reqs[i]
    BY PolicyOfFirst
  <2>3. PICK j \in DOMAIN reqs, t \in P : IsLeast(t, P) /\ t \in SeqsOf(then[j]) /\ q = then[j]
    BY <1>0, <1>2, <2>1, PolicyOfFirst
  <2>4. s = t
    <3>1. P \in SUBSET Nat
      BY DEF Pending, Inputs
    <3>2. s \in Nat /\ t \in Nat /\ s <= t /\ t <= s
      BY <2>2, <2>3, <3>1 DEF IsLeast
    <3>. QED
      BY <3>2
  <2>5. i = j
    BY <1>0, <2>2, <2>3, <2>4, OneOwner
  <2>. QED
    BY <2>2, <2>3, <2>5
<1>7. Visible(then, alive, k, pos) = V
  BY <1>2, <1>6 DEF Visible
<1>8. Needed(then, alive, k, pos, begun) = Needed(reqs, alive, k, pos, begun)
  BY <1>2, <1>6 DEF Needed
<1>9. Short(then, alive, k, pos, begun)
  BY <1>3, <1>7, <1>8 DEF Short
<1>10. Owners(then, V) = Owners(reqs, V)
  BY <1>0 DEF Owners
<1>11. SessionTails(then, V) = SessionTails(reqs, V)
  <2>1. \A i \in DOMAIN reqs : then[i].session = reqs[i].session
    OBVIOUS
  <2>2. \A s : LatestOfSession(then, s) = LatestOfSession(reqs, s)
    BY <1>0, <2>1 DEF LatestOfSession
  <2>3. Owners(reqs, V) \subseteq DOMAIN reqs
    BY DEF Owners
  <2>. QED
    BY <1>10, <2>1, <2>2, <2>3 DEF SessionTails
<1>12. Owners(reqs, V) \subseteq DOMAIN reqs /\ SessionTails(reqs, V) \subseteq DOMAIN reqs
  BY DEF Owners, SessionTails, LatestOfSession
<1>13. /\ \A i \in Owners(then, V) : then[i].wait = "none"
       /\ \A i \in SessionTails(then, V) : then[i].idle = "none"
  BY <1>3, <1>10, <1>11, <1>12
<1>. QED
  BY <1>4, <1>5, <1>7, <1>9, <1>13 DEF Rests

=============================================================================
