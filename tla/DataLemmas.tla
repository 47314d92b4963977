----------------------------- MODULE DataLemmas -----------------------------
(***************************************************************************)
(* Lemmas about naturals, sequences and folds that the proofs about the    *)
(* small parts need.  The induction theorems of the library are about an   *)
(* operator, which the provers cannot instantiate; here induction is about *)
(* a set of naturals, and rests on the library's fact that the order of    *)
(* the naturals is well founded.                                           *)
(***************************************************************************)
EXTENDS Integers, Sequences, FiniteSets, SequencesExt, WellFoundedInduction, TLAPS

LEMMA LeastNatural ==
  ASSUME NEW S \in SUBSET Nat, S # {}
  PROVE  \E m \in S : \A n \in S : m <= n
<1> DEFINE R == OpToRel(<, Nat)
<1>1. IsWellFoundedOn(R, Nat)
  BY NatLessThanWellFounded
<1>2. \A m, n \in Nat : m < n => <<m, n>> \in R
  BY DEF OpToRel
<1> HIDE DEF R
<1>3. PICK m \in S : \A n \in S : <<n, m>> \notin R
  BY <1>1, WFMin
<1>4. \A n \in S : ~(n < m)
  BY <1>2, <1>3, Zenon
<1>5. \A n \in S : m <= n
  BY <1>4
<1> QED BY <1>5

LEMMA NaturalsByInduction ==
  ASSUME NEW S, 0 \in S, \A n \in S \cap Nat : n + 1 \in S
  PROVE  Nat \subseteq S
<1> SUFFICES ASSUME Nat \ S # {} PROVE FALSE
  OBVIOUS
<1>1. PICK m \in Nat \ S : \A n \in Nat \ S : m <= n
  BY LeastNatural
<1>2. m # 0 /\ m - 1 \in Nat
  BY <1>1
<1>3. m - 1 \in S
  BY <1>1, <1>2
<1>4. (m - 1) + 1 \in S
  BY <1>2, <1>3
<1>5. (m - 1) + 1 = m
  BY <1>1
<1> QED BY <1>4, <1>5

(* The same up to a bound. *)
LEMMA IntervalByInduction ==
  ASSUME NEW n \in Nat, NEW S, 0 \in S, \A i \in 1 .. n : i - 1 \in S => i \in S
  PROVE  0 .. n \subseteq S
<1> DEFINE T == {i \in Nat : i <= n => i \in S}
<1>1. 0 \in T
  OBVIOUS
<1>2. ASSUME NEW i \in T \cap Nat PROVE i + 1 \in T
  <2> SUFFICES ASSUME i + 1 <= n PROVE i + 1 \in S
    OBVIOUS
  <2>1. i \in S /\ i + 1 \in 1 .. n /\ (i + 1) - 1 = i
    OBVIOUS
  <2> QED BY <2>1
<1> HIDE DEF T
<1>3. Nat \subseteq T
  BY <1>1, <1>2, NaturalsByInduction
<1> QED BY <1>3 DEF T

LEMMA MinIsLeast ==
  ASSUME NEW S \in SUBSET Nat, S # {}
  PROVE  Min(S) \in S /\ \A n \in S : Min(S) <= n
BY LeastNatural DEF Min

LEMMA MaxIsGreatest ==
  ASSUME NEW n \in Nat, NEW S \in SUBSET (1 .. n), S # {}
  PROVE  Max(S) \in S /\ \A m \in S : Max(S) >= m
<1> DEFINE T == {n - i : i \in S}
<1>1. T \in SUBSET Nat /\ T # {}
  <2>1. PICK i \in S : TRUE
    OBVIOUS
  <2>2. n - i \in T
    OBVIOUS
  <2>3. ASSUME NEW t \in T PROVE t \in Nat
    OBVIOUS
  <2> QED BY <2>2, <2>3
<1>2. PICK t \in T : \A u \in T : t <= u
  BY <1>1, LeastNatural
<1>3. PICK i \in S : t = n - i
  OBVIOUS
<1>4. ASSUME NEW m \in S PROVE i >= m
  <2>1. n - m \in T
    OBVIOUS
  <2>2. n - i <= n - m
    BY <1>2, <1>3, <2>1
  <2> QED BY <2>2
<1> QED BY <1>3, <1>4 DEF Max

(***************************************************************************)
(* Folds.  A fold over a sequence is what the community modules define it  *)
(* to be, a function of the sets of positions chosen by CHOOSE.  Such a    *)
(* function exists for any step F:                                         *)
(***************************************************************************)
IsFold(g, n, base, F) ==
  \A d \in SUBSET (1 .. n) :
    g[d] = IF d = {} THEN base ELSE F[<<g[d \ {Max(d)}], Max(d)>>]

LEMMA FoldExists ==
  ASSUME NEW n \in Nat, NEW A, NEW base \in A, NEW F \in [A \X (1 .. n) -> A]
  PROVE  \E g \in [SUBSET (1 .. n) -> A] : IsFold(g, n, base, F)
<1> DEFINE Good(k, g) == \A d \in SUBSET (1 .. k) :
                           g[d] = IF d = {} THEN base ELSE F[<<g[d \ {Max(d)}], Max(d)>>]
           S == {k \in 0 .. n : \E g \in [SUBSET (1 .. k) -> A] : Good(k, g)}
<1>1. 0 \in S
  <2> DEFINE g == [d \in SUBSET (1 .. 0) |-> base]
  <2>1. 1 .. 0 = {}
    OBVIOUS
  <2>2. g \in [SUBSET (1 .. 0) -> A] /\ Good(0, g)
    BY <2>1
  <2> HIDE DEF Good, g
  <2>3. \E f \in [SUBSET (1 .. 0) -> A] : Good(0, f)
    BY <2>2
  <2>4. 0 \in 0 .. n
    OBVIOUS
  <2> QED BY <2>3, <2>4, Zenon
<1>2. ASSUME NEW k \in 1 .. n, k - 1 \in S PROVE k \in S
  <2>1. PICK g \in [SUBSET (1 .. k - 1) -> A] : Good(k - 1, g)
    BY <1>2
  <2> DEFINE h == [d \in SUBSET (1 .. k) |->
                     IF k \in d THEN F[<<g[d \ {k}], k>>] ELSE g[d]]
  <2>2. ASSUME NEW d \in SUBSET (1 .. k), k \in d
        PROVE  d \ {k} \in SUBSET (1 .. k - 1) /\ Max(d) = k /\ k \notin d \ {k}
    <3>1. k \in Nat /\ d # {}
      BY <2>2
    <3>2. Max(d) \in d /\ Max(d) >= k
      BY <2>2, <3>1, MaxIsGreatest
    <3>3. Max(d) \in 1 .. k
      BY <3>2
    <3>4. Max(d) = k
      BY <3>2, <3>3
    <3>5. ASSUME NEW i \in d \ {k} PROVE i \in 1 .. (k - 1)
      OBVIOUS
    <3> QED BY <3>4, <3>5
  <2>3. ASSUME NEW d \in SUBSET (1 .. k), k \notin d
        PROVE  d \in SUBSET (1 .. k - 1)
    BY <2>3
  <2>4. h \in [SUBSET (1 .. k) -> A]
    <3>1. ASSUME NEW d \in SUBSET (1 .. k) PROVE h[d] \in A
      <4>1. CASE k \in d
        <5>1. g[d \ {k}] \in A
          BY <2>2, <4>1
        <5>2. <<g[d \ {k}], k>> \in A \X (1 .. n)
          BY <5>1
        <5> QED BY <4>1, <5>2
      <4>2. CASE k \notin d
        BY <2>3, <4>2
      <4> QED BY <4>1, <4>2
    <3> QED BY <3>1
  <2>5. ASSUME NEW d \in SUBSET (1 .. k)
        PROVE  h[d] = IF d = {} THEN base ELSE F[<<h[d \ {Max(d)}], Max(d)>>]
    <3>1. CASE k \in d
      <4>1. h[d \ {k}] = g[d \ {k}]
        BY <2>2, <3>1
      <4> QED BY <2>2, <3>1, <4>1
    <3>2. CASE k \notin d
      <4>1. d \in SUBSET (1 .. k - 1) /\ h[d] = g[d]
        BY <2>3, <3>2
      <4>2. h[d \ {Max(d)}] = g[d \ {Max(d)}]
        BY <3>2
      <4> QED BY <2>1, <4>1, <4>2
    <3> QED BY <3>1, <3>2
  <2>6. Good(k, h)
    BY <2>5
  <2> HIDE DEF Good, h
  <2>7. \E f \in [SUBSET (1 .. k) -> A] : Good(k, f)
    BY <2>4, <2>6
  <2> QED BY <2>7
<1> HIDE DEF S
<1>3. 0 .. n \subseteq S
  BY <1>1, <1>2, IntervalByInduction
<1>4. n \in S
  BY <1>3
<1> QED BY <1>4, Zenon DEF S, IsFold

(* On the positions up to i it is what i steps make of the base. *)
LEMMA PrefixPositions ==
  ASSUME NEW n \in Nat, NEW i \in 1 .. n
  PROVE  /\ 1 .. i \in SUBSET (1 .. n) /\ 1 .. i # {}
         /\ Max(1 .. i) = i /\ (1 .. i) \ {i} = 1 .. (i - 1)
<1>1. i \in Nat /\ 1 .. i \in SUBSET (1 .. i) /\ 1 .. i # {} /\ i \in 1 .. i
  OBVIOUS
<1>2. Max(1 .. i) \in 1 .. i /\ Max(1 .. i) >= i
  BY <1>1, MaxIsGreatest
<1>3. Max(1 .. i) = i
  BY <1>2
<1> QED BY <1>1, <1>3
-----------------------------------------------------------------------------
(***************************************************************************)
(* A fold as a relation: what the steps of F make of the base.  Facts      *)
(* about it are facts about every fold whose step agrees with F.           *)
(***************************************************************************)
Step(F, m, r) == F[m][r]

StepsOf(F, base, s, h) ==
  /\ h[0] = base
  /\ \A i \in 1 .. Len(s) : h[i] = Step(F, h[i - 1], s[i])

FoldBy(F, base, s) ==
  LET h == CHOOSE h : StepsOf(F, base, s, h) IN h[Len(s)]

(* A function of the sets of positions, as FoldLeft chooses one. *)
IsIteration(A, F, base, s, g) ==
  /\ g[{}] = base
  /\ \A d \in SUBSET DOMAIN s :
       d # {} /\ g[d \ {Max(d)}] \in A => g[d] = Step(F, g[d \ {Max(d)}], s[Max(d)])

LEMMA NextTyped ==
  ASSUME NEW A, NEW B, NEW F \in [A -> [B -> A]], NEW m \in A, NEW r \in B
  PROVE  Step(F, m, r) \in A
BY DEF Step

LEMMA StepsTyped ==
  ASSUME NEW A, NEW B, NEW base \in A, NEW F \in [A -> [B -> A]], NEW s \in Seq(B), NEW h,
         StepsOf(F, base, s, h)
  PROVE  \A i \in 0 .. Len(s) : h[i] \in A
<1> DEFINE S == {i \in 0 .. Len(s) : h[i] \in A}
<1>1. Len(s) \in Nat /\ 0 \in S
  BY DEF StepsOf
<1>2. ASSUME NEW i \in 1 .. Len(s), i - 1 \in S PROVE i \in S
  <2>1. s[i] \in B /\ h[i - 1] \in A /\ i \in 0 .. Len(s)
    BY <1>1, <1>2
  <2>2. h[i] = Step(F, h[i - 1], s[i])
    BY DEF StepsOf
  <2>3. h[i] \in A
    BY <2>1, <2>2, NextTyped
  <2> QED BY <2>1, <2>3
<1> HIDE DEF S
<1>3. 0 .. Len(s) \subseteq S
  BY <1>1, <1>2, IntervalByInduction
<1> QED BY <1>3 DEF S

LEMMA StepsUnique ==
  ASSUME NEW B, NEW base, NEW F, NEW s \in Seq(B), NEW g, NEW h,
         StepsOf(F, base, s, g), StepsOf(F, base, s, h)
  PROVE  g[Len(s)] = h[Len(s)]
<1> DEFINE S == {i \in 0 .. Len(s) : g[i] = h[i]}
<1>1. Len(s) \in Nat /\ 0 \in S
  BY DEF StepsOf
<1>2. ASSUME NEW i \in 1 .. Len(s), i - 1 \in S PROVE i \in S
  <2>1. g[i] = Step(F, g[i - 1], s[i]) /\ h[i] = Step(F, h[i - 1], s[i])
    BY DEF StepsOf
  <2>2. g[i - 1] = h[i - 1] /\ i \in 0 .. Len(s)
    BY <1>1, <1>2
  <2> QED BY <2>1, <2>2
<1> HIDE DEF S
<1>3. 0 .. Len(s) \subseteq S
  BY <1>1, <1>2, IntervalByInduction
<1> QED BY <1>1, <1>3 DEF S

LEMMA FoldByIs ==
  ASSUME NEW B, NEW base, NEW F, NEW s \in Seq(B), NEW h, StepsOf(F, base, s, h)
  PROVE  FoldBy(F, base, s) = h[Len(s)]
<1> DEFINE g == CHOOSE g : StepsOf(F, base, s, g)
<1>1. StepsOf(F, base, s, g)
  OBVIOUS
<1>2. FoldBy(F, base, s) = g[Len(s)]
  BY DEF FoldBy
<1> HIDE DEF g
<1> QED BY <1>1, <1>2, StepsUnique

(* Along the intervals an iteration is the steps. *)
LEMMA IterationSteps ==
  ASSUME NEW A, NEW B, NEW base \in A, NEW F \in [A -> [B -> A]], NEW s \in Seq(B), NEW it,
         IsIteration(A, F, base, s, it)
  PROVE  \E h : StepsOf(F, base, s, h) /\ h[Len(s)] = it[DOMAIN s]
<1> DEFINE n == Len(s)
           h == [i \in 0 .. n |-> it[1 .. i]]
           S == {i \in 0 .. n : h[i] \in A}
<1>1. n \in Nat /\ DOMAIN s = 1 .. n
  OBVIOUS
<1>2. h[0] = base
  <2>1. 1 .. 0 = {} /\ 0 \in 0 .. n
    BY <1>1
  <2> QED BY <2>1 DEF IsIteration
<1>3. ASSUME NEW i \in 1 .. n, h[i - 1] \in A PROVE h[i] = Step(F, h[i - 1], s[i])
  <2>1. 1 .. i \in SUBSET (1 .. n) /\ 1 .. i # {} /\ Max(1 .. i) = i
        /\ (1 .. i) \ {i} = 1 .. (i - 1)
    BY <1>1, PrefixPositions
  <2>2. i \in 0 .. n /\ i - 1 \in 0 .. n
    BY <1>1
  <2>3. it[1 .. (i - 1)] \in A
    BY <1>3, <2>2
  <2>4. it[1 .. i] = Step(F, it[1 .. (i - 1)], s[i])
    BY <1>1, <2>1, <2>3 DEF IsIteration
  <2> QED BY <2>2, <2>4
<1>4. h[n] = it[DOMAIN s]
  BY <1>1
<1> HIDE DEF h
<1>5. 0 \in S
  BY <1>1, <1>2
<1>6. ASSUME NEW i \in 1 .. n, i - 1 \in S PROVE i \in S
  <2>1. h[i] = Step(F, h[i - 1], s[i]) /\ s[i] \in B /\ h[i - 1] \in A
    BY <1>1, <1>3, <1>6
  <2>2. h[i] \in A
    BY <2>1, NextTyped
  <2> QED BY <1>1, <2>2
<1> HIDE DEF S
<1>7. 0 .. n \subseteq S
  BY <1>1, <1>5, <1>6, IntervalByInduction
<1>8. \A i \in 1 .. n : i - 1 \in 0 .. n
  BY <1>1
<1>9. StepsOf(F, base, s, h)
  BY <1>2, <1>3, <1>7, <1>8 DEF StepsOf, S
<1> QED BY <1>9, <1>4 DEF n

LEMMA FoldLeftIsFoldBy ==
  ASSUME NEW A, NEW B, NEW base \in A, NEW F \in [A -> [B -> A]], NEW s \in Seq(B), NEW it,
         IsIteration(A, F, base, s, it)
  PROVE  it[DOMAIN s] = FoldBy(F, base, s)
<1>1. PICK h : StepsOf(F, base, s, h) /\ h[Len(s)] = it[DOMAIN s]
  BY IterationSteps
<1>2. FoldBy(F, base, s) = h[Len(s)]
  BY <1>1, FoldByIs
<1> QED BY <1>1, <1>2

(* There is an iteration, so there are steps. *)
IsTypedIteration(A, F, base, s, g) ==
  /\ g \in [SUBSET DOMAIN s -> A]
  /\ \A d \in SUBSET DOMAIN s :
       g[d] = IF d = {} THEN base ELSE Step(F, g[d \ {Max(d)}], s[Max(d)])

LEMMA IterationExists ==
  ASSUME NEW A, NEW B, NEW base \in A, NEW F \in [A -> [B -> A]], NEW s \in Seq(B)
  PROVE  \E g : IsTypedIteration(A, F, base, s, g)
<1> DEFINE n == Len(s)
           G == [x \in A \X (1 .. n) |-> Step(F, x[1], s[x[2]])]
<1>1. n \in Nat /\ DOMAIN s = 1 .. n /\ \A i \in 1 .. n : s[i] \in B
  OBVIOUS
<1>2. G \in [A \X (1 .. n) -> A]
  BY <1>1, NextTyped
<1>3. \A a \in A, i \in 1 .. n : G[<<a, i>>] = Step(F, a, s[i])
  OBVIOUS
<1> HIDE DEF n, G
<1>4. PICK g \in [SUBSET (1 .. n) -> A] : IsFold(g, n, base, G)
  BY <1>1, <1>2, FoldExists
<1>5. ASSUME NEW d \in SUBSET (1 .. n)
      PROVE  g[d] = IF d = {} THEN base ELSE Step(F, g[d \ {Max(d)}], s[Max(d)])
  <2>1. CASE d # {}
    <3>1. Max(d) \in 1 .. n /\ d \ {Max(d)} \in SUBSET (1 .. n)
      BY <1>1, <2>1, MaxIsGreatest
    <3>2. g[d \ {Max(d)}] \in A
      BY <3>1
    <3>3. g[d] = G[<<g[d \ {Max(d)}], Max(d)>>]
      BY <1>4, <2>1 DEF IsFold
    <3> QED BY <1>3, <2>1, <3>1, <3>2, <3>3
  <2>2. CASE d = {}
    BY <1>4, <2>2 DEF IsFold
  <2> QED BY <2>1, <2>2
<1>6. IsTypedIteration(A, F, base, s, g)
  BY <1>1, <1>5 DEF IsTypedIteration
<1> QED BY <1>6

LEMMA StepsExist ==
  ASSUME NEW A, NEW B, NEW base \in A, NEW F \in [A -> [B -> A]], NEW s \in Seq(B)
  PROVE  \E h : StepsOf(F, base, s, h)
<1>1. PICK g : IsTypedIteration(A, F, base, s, g)
  BY IterationExists
<1>2. {} \in SUBSET DOMAIN s
  OBVIOUS
<1>3. IsIteration(A, F, base, s, g)
  BY <1>1, <1>2 DEF IsTypedIteration, IsIteration
<1> QED BY <1>3, IterationSteps

LEMMA FoldByTyped ==
  ASSUME NEW A, NEW B, NEW base \in A, NEW F \in [A -> [B -> A]], NEW s \in Seq(B)
  PROVE  FoldBy(F, base, s) \in A
<1>1. PICK h : StepsOf(F, base, s, h)
  BY StepsExist
<1>2. FoldBy(F, base, s) = h[Len(s)]
  BY <1>1, FoldByIs
<1>3. Len(s) \in 0 .. Len(s)
  OBVIOUS
<1>4. \A i \in 0 .. Len(s) : h[i] \in A
  BY <1>1, StepsTyped
<1> QED BY <1>2, <1>3, <1>4

(* A fold is what one more step makes of the fold up to there. *)
LEMMA FoldByEmpty ==
  ASSUME NEW A, NEW B, NEW base \in A, NEW F \in [A -> [B -> A]]
  PROVE  FoldBy(F, base, <<>>) = base
<1>1. ASSUME NEW s \in Seq(B), Len(s) = 0 PROVE FoldBy(F, base, s) = base
  <2>1. PICK h : StepsOf(F, base, s, h)
    BY StepsExist
  <2>2. FoldBy(F, base, s) = h[Len(s)]
    BY <2>1, FoldByIs
  <2> QED BY <1>1, <2>1, <2>2 DEF StepsOf
<1>2. <<>> \in Seq(B) /\ Len(<<>>) = 0
  OBVIOUS
<1> QED BY <1>1, <1>2

Foldable(A, B, F, base) == base \in A /\ F \in [A -> [B -> A]]

LEMMA FoldByAppend ==
  ASSUME NEW A, NEW B, NEW F, NEW base, Foldable(A, B, F, base), NEW s \in Seq(B), NEW r \in B
  PROVE  FoldBy(F, base, Append(s, r)) = Step(F, FoldBy(F, base, s), r)
<1> DEFINE n == Len(s)
           t == Append(s, r)
<1>1. /\ n \in Nat /\ t \in Seq(B) /\ Len(t) = n + 1 /\ t[n + 1] = r
      /\ \A i \in 1 .. n : t[i] = s[i]
  OBVIOUS
<1> HIDE DEF t
<1>2. base \in A /\ F \in [A -> [B -> A]]
  BY DEF Foldable
<1>3. PICK h : StepsOf(F, base, t, h)
  BY <1>1, <1>2, StepsExist
<1>4. StepsOf(F, base, s, h)
  <2>1. \A i \in 1 .. n : i \in 1 .. Len(t)
    BY <1>1
  <2> QED BY <1>1, <1>3, <2>1 DEF StepsOf
<1>5. FoldBy(F, base, s) = h[n] /\ FoldBy(F, base, t) = h[n + 1]
  BY <1>1, <1>3, <1>4, FoldByIs
<1>6. h[n + 1] = Step(F, h[n], r)
  <2>1. n + 1 \in 1 .. Len(t) /\ (n + 1) - 1 = n
    BY <1>1
  <2>2. h[n + 1] = Step(F, h[(n + 1) - 1], t[n + 1])
    BY <1>3, <2>1 DEF StepsOf
  <2> QED BY <1>1, <2>1, <2>2
<1> QED BY <1>5, <1>6 DEF t

(* Sequences, by induction on their length. *)
LEMMA SequencesByInduction ==
  ASSUME NEW B, NEW S, <<>> \in S,
         \A s \in Seq(B), r \in B : s \in S => Append(s, r) \in S
  PROVE  Seq(B) \subseteq S
<1> DEFINE T == {n \in Nat : \A s \in Seq(B) : Len(s) = n => s \in S}
<1>1. 0 \in T
  <2>1. \A s \in Seq(B) : Len(s) = 0 => s = <<>>
    OBVIOUS
  <2> QED BY <2>1
<1>2. ASSUME NEW n \in T \cap Nat PROVE n + 1 \in T
  <2> SUFFICES ASSUME NEW s \in Seq(B), Len(s) = n + 1 PROVE s \in S
    OBVIOUS
  <2> DEFINE front == SubSeq(s, 1, n)
             last == s[n + 1]
  <2>1. front \in Seq(B) /\ Len(front) = n /\ last \in B
    OBVIOUS
  <2>2. \A i \in 1 .. n : front[i] = s[i]
    OBVIOUS
  <2> HIDE DEF front, last
  <2>3. Append(front, last) = s
    <3>1. Append(front, last) \in Seq(B) /\ Len(Append(front, last)) = n + 1
      BY <2>1
    <3>2. \A i \in 1 .. (n + 1) : Append(front, last)[i] = s[i]
      BY <2>1, <2>2 DEF last
    <3> QED BY <3>1, <3>2
  <2>4. front \in S
    BY <2>1
  <2> QED BY <2>1, <2>3, <2>4
<1> HIDE DEF T
<1>3. Nat \subseteq T
  BY <1>1, <1>2, NaturalsByInduction
<1> QED BY <1>3 DEF T
=============================================================================
