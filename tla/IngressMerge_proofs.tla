------------------------ MODULE IngressMerge_proofs ------------------------
(***************************************************************************)
(* Proofs about the merge of the ingress table, for any hostnames, any     *)
(* number of desired roots and a table of any length.                      *)
(*                                                                         *)
(* The merge and two of its properties are folds over the table.  Each is  *)
(* brought to the steps of DataLemmas first, so that what one more rule    *)
(* does to it can be said; then what holds after every rule is proved by   *)
(* induction over the table:                                               *)
(*   Books          which hosts are past their first root, which are still *)
(*                  to place, whether a hostless rule is out               *)
(*   RootsKept      the roots of one host                                  *)
(*   RestKept       what is not a first root                               *)
(*   PlacedReached  no hostless rule before the root of a host placed      *)
(*   Same           a table whose first roots are the desired ones         *)
(***************************************************************************)
EXTENDS MCIngressMerge, DataLemmas, FiniteSetTheorems, TLAPS

(***************************************************************************)
(* Sorting: a finite set of integers has a largest element, so it can be   *)
(* listed in increasing order, and such a list names every element once.   *)
(***************************************************************************)
LEMMA LargestExists ==
  \A n \in Nat : \A S \in SUBSET Int :
    IsFiniteSet(S) /\ Cardinality(S) = n + 1 => \E m \in S : \A x \in S : x <= m
<1> DEFINE T == {n \in Nat : \A S \in SUBSET Int :
                   IsFiniteSet(S) /\ Cardinality(S) = n + 1 => \E m \in S : \A x \in S : x <= m}
<1>1. 0 \in T
  <2> SUFFICES ASSUME NEW S \in SUBSET Int, IsFiniteSet(S), Cardinality(S) = 0 + 1
               PROVE  \E m \in S : \A x \in S : x <= m
    OBVIOUS
  <2>1. PICK m : S = {m}
    BY FS_Singleton
  <2> QED BY <2>1
<1>2. ASSUME NEW n \in T \cap Nat PROVE n + 1 \in T
  <2> SUFFICES ASSUME NEW S \in SUBSET Int, IsFiniteSet(S), Cardinality(S) = (n + 1) + 1
               PROVE  \E m \in S : \A x \in S : x <= m
    OBVIOUS
  <2>1. n \in Nat /\ (n + 1) + 1 # 0 /\ ((n + 1) + 1) - 1 = n + 1
    OBVIOUS
  <2>2. S # {}
    BY <2>1, FS_EmptySet
  <2>3. PICK e \in S : TRUE
    BY <2>2
  <2>4. IsFiniteSet(S \ {e}) /\ Cardinality(S \ {e}) = n + 1
    BY <2>3, <2>1, FS_RemoveElement
  <2>5. S \ {e} \in SUBSET Int
    OBVIOUS
  <2>6. PICK m \in S \ {e} : \A x \in S \ {e} : x <= m
    BY <2>4, <2>5
  <2>7. CASE e <= m
    BY <2>6, <2>7
  <2>8. CASE ~(e <= m)
    <3>1. m \in Int /\ e \in Int
      OBVIOUS
    <3>2. \A x \in S : x <= e
      BY <2>6, <2>8, <3>1
    <3> QED BY <3>2
  <2> QED BY <2>7, <2>8
<1> HIDE DEF T
<1>3. Nat \subseteq T
  BY <1>1, <1>2, NaturalsByInduction
<1> QED BY <1>3 DEF T

Increasing(s) == \A i, j \in DOMAIN s : i < j => s[i] < s[j]

LEMMA SortingExists ==
  \A n \in Nat : \A S \in SUBSET Int :
    IsFiniteSet(S) /\ Cardinality(S) = n => \E s \in [1 .. n -> S] : Increasing(s)
<1> DEFINE T == {n \in Nat : \A S \in SUBSET Int :
                   IsFiniteSet(S) /\ Cardinality(S) = n => \E s \in [1 .. n -> S] : Increasing(s)}
<1>1. 0 \in T
  <2> SUFFICES ASSUME NEW S \in SUBSET Int, IsFiniteSet(S), Cardinality(S) = 0
               PROVE  \E s \in [1 .. 0 -> S] : Increasing(s)
    OBVIOUS
  <2> DEFINE s == [i \in 1 .. 0 |-> 0]
  <2>1. s \in [1 .. 0 -> S] /\ Increasing(s)
    BY DEF Increasing
  <2> QED BY <2>1
<1>2. ASSUME NEW n \in T \cap Nat PROVE n + 1 \in T
  <2> SUFFICES ASSUME NEW S \in SUBSET Int, IsFiniteSet(S), Cardinality(S) = n + 1
               PROVE  \E s \in [1 .. (n + 1) -> S] : Increasing(s)
    OBVIOUS
  <2>1. PICK m \in S : \A x \in S : x <= m
    BY LargestExists
  <2>2. n \in Nat /\ (n + 1) - 1 = n
    OBVIOUS
  <2>3. m \in S /\ IsFiniteSet(S) /\ Cardinality(S) = n + 1
    BY <2>1
  <2>4. IsFiniteSet(S \ {m}) /\ Cardinality(S \ {m}) = (n + 1) - 1
    BY <2>3, FS_RemoveElement
  <2>5. IsFiniteSet(S \ {m}) /\ Cardinality(S \ {m}) = n
    BY <2>2, <2>4
  <2>6. PICK f \in [1 .. n -> S \ {m}] : Increasing(f)
    BY <2>5
  <2> DEFINE s == [i \in 1 .. (n + 1) |-> IF i = n + 1 THEN m ELSE f[i]]
  <2>7. \A i \in 1 .. (n + 1) : i # n + 1 => i \in 1 .. n
    OBVIOUS
  <2>8. s \in [1 .. (n + 1) -> S]
    BY <2>6, <2>7
  <2>9. ASSUME NEW i \in 1 .. (n + 1), NEW j \in 1 .. (n + 1), i < j PROVE s[i] < s[j]
    <3>1. i \in 1 .. n /\ s[i] = f[i] /\ f[i] \in S \ {m}
      BY <2>6, <2>9
    <3>2. CASE j = n + 1
      <4>1. s[j] = m
        BY <3>2
      <4>2. f[i] <= m /\ f[i] # m /\ f[i] \in Int /\ m \in Int
        BY <2>1, <3>1
      <4>3. f[i] < m
        BY <4>2
      <4> QED BY <3>1, <4>1, <4>3
    <3>3. CASE j # n + 1
      BY <2>6, <2>7, <2>9, <3>1, <3>3 DEF Increasing
    <3> QED BY <3>2, <3>3
  <2>10. Increasing(s)
    BY <2>9 DEF Increasing
  <2> HIDE DEF s
  <2> QED BY <2>8, <2>10
<1> HIDE DEF T
<1>3. Nat \subseteq T
  BY <1>1, <1>2, NaturalsByInduction
<1> QED BY <1>3 DEF T

LEMMA SortedLists ==
  ASSUME NEW S \in SUBSET Int, IsFiniteSet(S)
  PROVE  /\ Cardinality(S) \in Nat
         /\ Sorted(S) \in [1 .. Cardinality(S) -> S]
         /\ \A i, j \in 1 .. Cardinality(S) : i # j => Sorted(S)[i] # Sorted(S)[j]
         /\ \A x \in S : \E i \in 1 .. Cardinality(S) : Sorted(S)[i] = x
<1> DEFINE n == Cardinality(S)
           s == Sorted(S)
<1>1. n \in Nat
  BY FS_CardinalityType
<1>2. PICK f \in [1 .. n -> S] : Increasing(f)
  BY <1>1, SortingExists
<1>3. ASSUME NEW i \in 1 .. n, NEW j \in 1 .. n, i # j PROVE f[i] # f[j]
  <2> HIDE DEF n
  <2>1. i < j \/ j < i
    BY <1>1, <1>3
  <2>2. f[i] \in Int /\ f[j] \in Int /\ DOMAIN f = 1 .. n
    BY <1>2
  <2>3. f[i] < f[j] \/ f[j] < f[i]
    BY <1>2, <2>1, <2>2 DEF Increasing
  <2> QED BY <2>2, <2>3
<1>4. f \in SetToSeqs(S)
  BY <1>2, <1>3 DEF SetToSeqs
<1>5. s \in SetToSeqs(S)
  BY <1>2, <1>4 DEF Sorted, Increasing
<1>6. s \in [1 .. n -> S] /\ \A i, j \in 1 .. n : i # j => s[i] # s[j]
  BY <1>5 DEF SetToSeqs
<1> HIDE DEF s, n
<1>7. s \in Injection(1 .. n, S)
  BY <1>6 DEF Injection, IsInjective
<1>8. IsFiniteSet(1 .. n) /\ Cardinality(1 .. n) = n
  BY <1>1, FS_Interval
<1>9. s \in Surjection(1 .. n, S)
  BY <1>7, <1>8, FS_Injection DEF n
<1>10. \A x \in S : \E i \in 1 .. n : s[i] = x
  BY <1>9 DEF Surjection
<1> QED BY <1>1, <1>6, <1>10 DEF s, n
-----------------------------------------------------------------------------
(***************************************************************************)
(* The folds of the merge and of its properties, step by step.  The steps  *)
(* are functions of the state and the rule.                                *)
(***************************************************************************)
NoRules == <<>>

RootStep(h, roots, r) == IF IsRoot(r) /\ r.host = h THEN Append(roots, r) ELSE roots

RootFold(h) == [m \in Seq(Rule) |-> [r \in Rule |-> RootStep(h, m, r)]]

LEMMA RootFoldTyped ==
  ASSUME NEW h
  PROVE  /\ RootFold(h) \in [Seq(Rule) -> [Rule -> Seq(Rule)]]
         /\ \A m \in Seq(Rule), r \in Rule : Step(RootFold(h), m, r) = RootStep(h, m, r)
<1>1. ASSUME NEW m \in Seq(Rule), NEW r \in Rule PROVE RootStep(h, m, r) \in Seq(Rule)
  BY DEF RootStep
<1> QED BY <1>1 DEF RootFold, Step

LEMMA RootsBySteps ==
  ASSUME NEW h, NEW t \in Seq(Rule)
  PROVE  RootsOf(t, h) = FoldBy(RootFold(h), NoRules, t)
<1> DEFINE n == Len(t)
           F == RootFold(h)
           A == Seq(Rule)
           it == CHOOSE g : g = [d \in SUBSET DOMAIN t |->
                     IF d = {} THEN NoRules ELSE RootStep(h, g[d \ {Max(d)}], t[Max(d)])]
<1>1. n \in Nat /\ DOMAIN t = 1 .. n /\ \A i \in 1 .. n : t[i] \in Rule
  OBVIOUS
<1>2. NoRules \in A
  BY DEF NoRules
<1>3. F \in [A -> [Rule -> A]] /\ \A m \in A, r \in Rule : Step(F, m, r) = RootStep(h, m, r)
  BY RootFoldTyped
<1> HIDE DEF A, F, n
<1>4. PICK g : IsTypedIteration(A, F, NoRules, t, g)
  BY <1>2, <1>3, IterationExists
<1>5. /\ g \in [SUBSET DOMAIN t -> A]
       /\ \A d \in SUBSET DOMAIN t :
            g[d] = IF d = {} THEN NoRules ELSE Step(F, g[d \ {Max(d)}], t[Max(d)])
  BY <1>4 DEF IsTypedIteration
<1>6. ASSUME NEW d \in SUBSET DOMAIN t, d # {}
      PROVE  g[d] = RootStep(h, g[d \ {Max(d)}], t[Max(d)])
  <2>1. Max(d) \in 1 .. n /\ d \ {Max(d)} \in SUBSET DOMAIN t
    BY <1>1, <1>6, MaxIsGreatest
  <2>2. g[d \ {Max(d)}] \in A
    BY <1>5, <2>1
  <2>3. t[Max(d)] \in Rule
    BY <1>1, <2>1
  <2> QED BY <1>3, <1>5, <1>6, <2>2, <2>3
<1>7. g = [d \in SUBSET DOMAIN t |->
             IF d = {} THEN NoRules ELSE RootStep(h, g[d \ {Max(d)}], t[Max(d)])]
  BY <1>5, <1>6
<1>8. it = [d \in SUBSET DOMAIN t |->
              IF d = {} THEN NoRules ELSE RootStep(h, it[d \ {Max(d)}], t[Max(d)])]
  BY <1>7
<1>9. RootsOf(t, h) = it[DOMAIN t]
  BY DEF RootsOf, FoldLeft, MapThenFoldSet, NoRules, RootStep
<1> HIDE DEF it
<1>10. it[{}] = NoRules
  BY <1>8
<1>11. ASSUME NEW d \in SUBSET DOMAIN t, d # {}, it[d \ {Max(d)}] \in A
       PROVE  it[d] = Step(F, it[d \ {Max(d)}], t[Max(d)])
  <2>1. Max(d) \in 1 .. n
    BY <1>1, <1>11, MaxIsGreatest
  <2>2. it[d] = RootStep(h, it[d \ {Max(d)}], t[Max(d)])
    BY <1>8, <1>11
  <2> QED BY <1>1, <1>3, <1>11, <2>1, <2>2
<1>12. IsIteration(A, F, NoRules, t, it)
  BY <1>10, <1>11 DEF IsIteration
<1>13. it[DOMAIN t] = FoldBy(F, NoRules, t)
  BY <1>2, <1>3, <1>12, FoldLeftIsFoldBy
<1> QED BY <1>9, <1>13 DEF F

LEMMA RootsTyped ==
  ASSUME NEW h, NEW t \in Seq(Rule)
  PROVE  RootsOf(t, h) \in Seq(Rule)
<1>1. NoRules \in Seq(Rule)
  BY DEF NoRules
<1>2. FoldBy(RootFold(h), NoRules, t) \in Seq(Rule)
  BY <1>1, RootFoldTyped, FoldByTyped
<1> QED BY <1>2, RootsBySteps

LEMMA RootsOfNone == ASSUME NEW h PROVE RootsOf(<<>>, h) = <<>>
<1>1. <<>> \in Seq(Rule) /\ NoRules \in Seq(Rule)
  BY DEF NoRules
<1>2. FoldBy(RootFold(h), NoRules, <<>>) = NoRules
  BY <1>1, RootFoldTyped, FoldByEmpty
<1> QED BY <1>1, <1>2, RootsBySteps DEF NoRules

LEMMA RootsOfAppend ==
  ASSUME NEW h, NEW t \in Seq(Rule), NEW r \in Rule
  PROVE  RootsOf(Append(t, r), h) =
           IF IsRoot(r) /\ r.host = h THEN Append(RootsOf(t, h), r) ELSE RootsOf(t, h)
<1>1. NoRules \in Seq(Rule) /\ Append(t, r) \in Seq(Rule)
  BY DEF NoRules
<1> DEFINE F == RootFold(h)
<1>2. F \in [Seq(Rule) -> [Rule -> Seq(Rule)]]
  BY RootFoldTyped
<1> HIDE DEF F
<1>3. Foldable(Seq(Rule), Rule, F, NoRules)
  BY <1>1, <1>2 DEF Foldable
<1>4. FoldBy(F, NoRules, Append(t, r)) = Step(F, FoldBy(F, NoRules, t), r)
  BY <1>3, FoldByAppend
<1>5. RootsOf(Append(t, r), h) = Step(RootFold(h), RootsOf(t, h), r)
  BY <1>1, <1>4, RootsBySteps DEF F
<1> QED BY <1>5, RootsTyped, RootFoldTyped DEF RootStep
-----------------------------------------------------------------------------
Sifted == [past : SUBSET Hostnames, rest : Seq(Rule)]

SiftStart == [past |-> {}, rest |-> <<>>]

SiftStep(S, m, r) ==
  IF IsRoot(r) /\ r.host \in S \ m.past
    THEN [m EXCEPT !.past = @ \cup {r.host}]
    ELSE [m EXCEPT !.rest = Append(@, r)]

SiftFold(S) == [m \in Sifted |-> [r \in Rule |-> SiftStep(S, m, r)]]

Sift(t, S) == FoldBy(SiftFold(S), SiftStart, t)

LEMMA RootHost ==
  ASSUME NEW r \in Rule, IsRoot(r)
  PROVE  r.host \in Hostnames
BY DEF IsRoot, Hostless, Rule

LEMMA SiftFoldTyped ==
  ASSUME NEW S
  PROVE  /\ SiftFold(S) \in [Sifted -> [Rule -> Sifted]] /\ SiftStart \in Sifted
         /\ \A m \in Sifted, r \in Rule : Step(SiftFold(S), m, r) = SiftStep(S, m, r)
<1>1. ASSUME NEW m \in Sifted, NEW r \in Rule PROVE SiftStep(S, m, r) \in Sifted
  <2>1. CASE IsRoot(r) /\ r.host \in S \ m.past
    BY <2>1, RootHost DEF SiftStep, Sifted
  <2>2. CASE ~(IsRoot(r) /\ r.host \in S \ m.past)
    BY <2>2 DEF SiftStep, Sifted
  <2> QED BY <2>1, <2>2
<1>2. SiftStart \in Sifted
  BY DEF SiftStart, Sifted
<1> QED BY <1>1, <1>2 DEF SiftFold, Step

LEMMA SiftBySteps ==
  ASSUME NEW S, NEW t \in Seq(Rule)
  PROVE  WithoutFirstRoots(t, S) = Sift(t, S).rest
<1> DEFINE n == Len(t)
           F == SiftFold(S)
           A == Sifted
           it == CHOOSE g : g = [d \in SUBSET DOMAIN t |->
                     IF d = {} THEN SiftStart ELSE SiftStep(S, g[d \ {Max(d)}], t[Max(d)])]
<1>1. n \in Nat /\ DOMAIN t = 1 .. n /\ \A i \in 1 .. n : t[i] \in Rule
  OBVIOUS
<1>2. SiftStart \in A
  BY SiftFoldTyped
<1>3. F \in [A -> [Rule -> A]] /\ \A m \in A, r \in Rule : Step(F, m, r) = SiftStep(S, m, r)
  BY SiftFoldTyped
<1> HIDE DEF A, F, n
<1>4. PICK g : IsTypedIteration(A, F, SiftStart, t, g)
  BY <1>2, <1>3, IterationExists
<1>5. /\ g \in [SUBSET DOMAIN t -> A]
       /\ \A d \in SUBSET DOMAIN t :
            g[d] = IF d = {} THEN SiftStart ELSE Step(F, g[d \ {Max(d)}], t[Max(d)])
  BY <1>4 DEF IsTypedIteration
<1>6. ASSUME NEW d \in SUBSET DOMAIN t, d # {}
      PROVE  g[d] = SiftStep(S, g[d \ {Max(d)}], t[Max(d)])
  <2>1. Max(d) \in 1 .. n /\ d \ {Max(d)} \in SUBSET DOMAIN t
    BY <1>1, <1>6, MaxIsGreatest
  <2>2. g[d \ {Max(d)}] \in A
    BY <1>5, <2>1
  <2>3. t[Max(d)] \in Rule
    BY <1>1, <2>1
  <2> QED BY <1>3, <1>5, <1>6, <2>2, <2>3
<1>7. g = [d \in SUBSET DOMAIN t |->
             IF d = {} THEN SiftStart ELSE SiftStep(S, g[d \ {Max(d)}], t[Max(d)])]
  BY <1>5, <1>6
<1>8. it = [d \in SUBSET DOMAIN t |->
              IF d = {} THEN SiftStart ELSE SiftStep(S, it[d \ {Max(d)}], t[Max(d)])]
  BY <1>7
<1>9. WithoutFirstRoots(t, S) = it[DOMAIN t].rest
  BY DEF WithoutFirstRoots, FoldLeft, MapThenFoldSet, SiftStart, SiftStep
<1> HIDE DEF it
<1>10. it[{}] = SiftStart
  BY <1>8
<1>11. ASSUME NEW d \in SUBSET DOMAIN t, d # {}, it[d \ {Max(d)}] \in A
       PROVE  it[d] = Step(F, it[d \ {Max(d)}], t[Max(d)])
  <2>1. Max(d) \in 1 .. n
    BY <1>1, <1>11, MaxIsGreatest
  <2>2. it[d] = SiftStep(S, it[d \ {Max(d)}], t[Max(d)])
    BY <1>8, <1>11
  <2> QED BY <1>1, <1>3, <1>11, <2>1, <2>2
<1>12. IsIteration(A, F, SiftStart, t, it)
  BY <1>10, <1>11 DEF IsIteration
<1>13. it[DOMAIN t] = FoldBy(F, SiftStart, t)
  BY <1>2, <1>3, <1>12, FoldLeftIsFoldBy
<1> QED BY <1>9, <1>13 DEF F, Sift

LEMMA SiftTyped ==
  ASSUME NEW S, NEW t \in Seq(Rule)
  PROVE  Sift(t, S) \in Sifted
BY SiftFoldTyped, FoldByTyped DEF Sift

LEMMA SiftNone == ASSUME NEW S PROVE Sift(<<>>, S) = SiftStart
BY SiftFoldTyped, FoldByEmpty DEF Sift

LEMMA SiftAppend ==
  ASSUME NEW S, NEW t \in Seq(Rule), NEW r \in Rule
  PROVE  Sift(Append(t, r), S) = SiftStep(S, Sift(t, S), r)
<1> DEFINE F == SiftFold(S)
<1>1. F \in [Sifted -> [Rule -> Sifted]] /\ SiftStart \in Sifted
  BY SiftFoldTyped
<1> HIDE DEF F
<1>2. Foldable(Sifted, Rule, F, SiftStart)
  BY <1>1 DEF Foldable
<1>3. FoldBy(F, SiftStart, Append(t, r)) = Step(F, FoldBy(F, SiftStart, t), r)
  BY <1>2, FoldByAppend
<1>4. Sift(Append(t, r), S) = Step(SiftFold(S), Sift(t, S), r)
  BY <1>3 DEF Sift, F
<1> QED BY <1>4, SiftTyped, SiftFoldTyped
-----------------------------------------------------------------------------
(* What the planner hands over. *)
Desired(e) ==
  /\ DOMAIN e \subseteq Hostnames /\ IsFiniteSet(DOMAIN e)
  /\ \A h \in DOMAIN e : e[h] \in Origin

(* SortedRoots lists one rule for each of its hosts. *)
Lists(e, P, q, s) ==
  /\ q \in Seq(Rule) /\ s \in [DOMAIN q -> P]
  /\ \A i \in DOMAIN q : q[i] = NewRoot(s[i], e[s[i]])
  /\ \A i, j \in DOMAIN q : i # j => s[i] # s[j]
  /\ \A h \in P : \E i \in DOMAIN q : s[i] = h

LEMMA NewRootTyped ==
  ASSUME NEW h \in Hostnames, NEW o \in Origin
  PROVE  /\ NewRoot(h, o) \in Rule /\ IsRoot(NewRoot(h, o)) /\ NewRoot(h, o).host = h
         /\ ~Hostless(NewRoot(h, o))
BY SentinelsDistinct DEF NewRoot, Rule, Origin, IsRoot, Hostless

LEMMA SortedRootsList ==
  ASSUME NEW e, Desired(e), NEW P \in SUBSET DOMAIN e
  PROVE  Lists(e, P, SortedRoots(e, P), Sorted(P))
<1>1. P \in SUBSET Int /\ IsFiniteSet(P)
  BY HostsAreRanks, FS_Subset DEF Desired
<1> DEFINE n == Cardinality(P)
           s == Sorted(P)
           q == SortedRoots(e, P)
<1>2. /\ n \in Nat /\ s \in [1 .. n -> P]
      /\ \A i, j \in 1 .. n : i # j => s[i] # s[j]
      /\ \A x \in P : \E i \in 1 .. n : s[i] = x
  BY <1>1, SortedLists
<1>3. q = [i \in 1 .. n |-> NewRoot(s[i], e[s[i]])]
  BY <1>2 DEF SortedRoots
<1> HIDE DEF n, s, q
<1>4. ASSUME NEW i \in 1 .. n PROVE NewRoot(s[i], e[s[i]]) \in Rule
  BY <1>2, NewRootTyped DEF Desired
<1>5. q \in [1 .. n -> Rule]
  BY <1>3, <1>4
<1>6. q \in Seq(Rule) /\ DOMAIN q = 1 .. n
  BY <1>2, <1>5
<1>7. Lists(e, P, q, s)
  BY <1>2, <1>3, <1>6 DEF Lists
<1> QED BY <1>7 DEF q, s

LEMMA NothingToList ==
  ASSUME NEW e, Desired(e)
  PROVE  SortedRoots(e, {}) = <<>>
<1>1. Lists(e, {}, SortedRoots(e, {}), Sorted({}))
  BY SortedRootsList
<1>2. SortedRoots(e, {}) \in Seq(Rule) /\ DOMAIN SortedRoots(e, {}) = {}
  BY <1>1 DEF Lists
<1> QED BY <1>2
-----------------------------------------------------------------------------
States(e) == [out : Seq(Rule), pending : SUBSET DOMAIN e, seen : SUBSET Hostnames]

MergeStart(e) == [out |-> <<>>, pending |-> DOMAIN e, seen |-> {}]

MergeFold(e) == [m \in States(e) |-> [r \in Rule |-> MergeStep(e, m, r)]]

Done(e, t) == FoldBy(MergeFold(e), MergeStart(e), t)

Finished(e, m) ==
  LET all == m.out \o SortedRoots(e, m.pending)
  IN  IF \E i \in DOMAIN all : Hostless(all[i]) THEN all ELSE Append(all, CatchAll)

LEMMA ReplacementTyped ==
  ASSUME NEW r \in Rule, NEW o \in Origin
  PROVE  Replacement(r, o) \in Rule
BY DEF Replacement, Rule, Origin

LEMMA StepTyped ==
  ASSUME NEW e, Desired(e), NEW m \in States(e), NEW r \in Rule
  PROVE  MergeStep(e, m, r) \in States(e)
<1>1. m.out \in Seq(Rule) /\ m.pending \in SUBSET DOMAIN e /\ m.seen \in SUBSET Hostnames
  BY DEF States
<1>2. SortedRoots(e, m.pending) \in Seq(Rule)
  BY <1>1, SortedRootsList DEF Lists
<1>3. CASE Hostless(r)
  <2>1. (m.out \o SortedRoots(e, m.pending)) \o <<r>> \in Seq(Rule)
    BY <1>1, <1>2
  <2> QED BY <1>1, <1>3, <2>1 DEF MergeStep, States
<1>4. CASE ~Hostless(r) /\ (r.path \/ r.host \in m.seen)
  <2>1. Append(m.out, r) \in Seq(Rule)
    BY <1>1
  <2>2. MergeStep(e, m, r) = [m EXCEPT !.out = Append(m.out, r)]
    BY <1>4 DEF MergeStep
  <2> QED BY <1>1, <2>1, <2>2 DEF States
<1>5. CASE ~Hostless(r) /\ ~(r.path \/ r.host \in m.seen)
  <2>1. r.host \in Hostnames
    BY <1>5, RootHost DEF IsRoot
  <2>2. r.host \in m.pending => Replacement(r, e[r.host]) \in Rule
    BY <1>1, ReplacementTyped DEF Desired
  <2> DEFINE out == IF r.host \in m.pending THEN Append(m.out, Replacement(r, e[r.host]))
                                             ELSE m.out
  <2>3. out \in Seq(Rule)
    BY <1>1, <2>2
  <2> HIDE DEF out
  <2>4. [out |-> out, pending |-> m.pending \ {r.host}, seen |-> m.seen \cup {r.host}] \in States(e)
    BY <1>1, <2>1, <2>3 DEF States
  <2> QED BY <1>5, <2>4 DEF MergeStep, out
<1> QED BY <1>3, <1>4, <1>5

LEMMA MergeFoldTyped ==
  ASSUME NEW e, Desired(e)
  PROVE  /\ MergeFold(e) \in [States(e) -> [Rule -> States(e)]] /\ MergeStart(e) \in States(e)
         /\ \A m \in States(e), r \in Rule : Step(MergeFold(e), m, r) = MergeStep(e, m, r)
<1>1. \A m \in States(e), r \in Rule : MergeStep(e, m, r) \in States(e)
  BY StepTyped
<1>2. MergeStart(e) \in States(e)
  BY DEF MergeStart, States, Desired
<1> QED BY <1>1, <1>2 DEF MergeFold, Step

LEMMA MergeBySteps ==
  ASSUME NEW e, Desired(e), NEW t \in Seq(Rule)
  PROVE  MergeIngress(t, e) = Finished(e, Done(e, t))
<1> DEFINE n == Len(t)
           F == MergeFold(e)
           A == States(e)
           it == CHOOSE g : g = [d \in SUBSET DOMAIN t |->
                     IF d = {} THEN MergeStart(e) ELSE MergeStep(e, g[d \ {Max(d)}], t[Max(d)])]
<1>1. n \in Nat /\ DOMAIN t = 1 .. n /\ \A i \in 1 .. n : t[i] \in Rule
  OBVIOUS
<1>2. MergeStart(e) \in A
  BY MergeFoldTyped
<1>3. F \in [A -> [Rule -> A]] /\ \A m \in A, r \in Rule : Step(F, m, r) = MergeStep(e, m, r)
  BY MergeFoldTyped
<1> HIDE DEF A, F, n
<1>4. PICK g : IsTypedIteration(A, F, MergeStart(e), t, g)
  BY <1>2, <1>3, IterationExists
<1>5. /\ g \in [SUBSET DOMAIN t -> A]
       /\ \A d \in SUBSET DOMAIN t :
            g[d] = IF d = {} THEN MergeStart(e) ELSE Step(F, g[d \ {Max(d)}], t[Max(d)])
  BY <1>4 DEF IsTypedIteration
<1>6. ASSUME NEW d \in SUBSET DOMAIN t, d # {}
      PROVE  g[d] = MergeStep(e, g[d \ {Max(d)}], t[Max(d)])
  <2>1. Max(d) \in 1 .. n /\ d \ {Max(d)} \in SUBSET DOMAIN t
    BY <1>1, <1>6, MaxIsGreatest
  <2>2. g[d \ {Max(d)}] \in A
    BY <1>5, <2>1
  <2>3. t[Max(d)] \in Rule
    BY <1>1, <2>1
  <2> QED BY <1>3, <1>5, <1>6, <2>2, <2>3
<1>7. g = [d \in SUBSET DOMAIN t |->
             IF d = {} THEN MergeStart(e) ELSE MergeStep(e, g[d \ {Max(d)}], t[Max(d)])]
  BY <1>5, <1>6
<1>8. it = [d \in SUBSET DOMAIN t |->
              IF d = {} THEN MergeStart(e) ELSE MergeStep(e, it[d \ {Max(d)}], t[Max(d)])]
  BY <1>7
<1>9. MergeIngress(t, e) = Finished(e, it[DOMAIN t])
  BY DEF MergeIngress, Finished, FoldLeft, MapThenFoldSet, MergeStart
<1> HIDE DEF it
<1>10. it[{}] = MergeStart(e)
  BY <1>8
<1>11. ASSUME NEW d \in SUBSET DOMAIN t, d # {}, it[d \ {Max(d)}] \in A
       PROVE  it[d] = Step(F, it[d \ {Max(d)}], t[Max(d)])
  <2>1. Max(d) \in 1 .. n
    BY <1>1, <1>11, MaxIsGreatest
  <2>2. it[d] = MergeStep(e, it[d \ {Max(d)}], t[Max(d)])
    BY <1>8, <1>11
  <2> QED BY <1>1, <1>3, <1>11, <2>1, <2>2
<1>12. IsIteration(A, F, MergeStart(e), t, it)
  BY <1>10, <1>11 DEF IsIteration
<1>13. it[DOMAIN t] = FoldBy(F, MergeStart(e), t)
  BY <1>2, <1>3, <1>12, FoldLeftIsFoldBy
<1> QED BY <1>9, <1>13 DEF F, Done

LEMMA DoneTyped ==
  ASSUME NEW e, Desired(e), NEW t \in Seq(Rule)
  PROVE  Done(e, t) \in States(e)
BY MergeFoldTyped, FoldByTyped DEF Done

LEMMA DoneNone == ASSUME NEW e, Desired(e) PROVE Done(e, <<>>) = MergeStart(e)
BY MergeFoldTyped, FoldByEmpty DEF Done

LEMMA DoneAppend ==
  ASSUME NEW e, Desired(e), NEW t \in Seq(Rule), NEW r \in Rule
  PROVE  Done(e, Append(t, r)) = MergeStep(e, Done(e, t), r)
<1> DEFINE F == MergeFold(e)
           A == States(e)
           start == MergeStart(e)
<1>1. F \in [A -> [Rule -> A]] /\ start \in A
  BY MergeFoldTyped
<1> HIDE DEF F, A, start
<1>2. Foldable(A, Rule, F, start)
  BY <1>1 DEF Foldable
<1>3. FoldBy(F, start, Append(t, r)) = Step(F, FoldBy(F, start, t), r)
  BY <1>2, FoldByAppend
<1>4. Done(e, Append(t, r)) = Step(MergeFold(e), Done(e, t), r)
  BY <1>3 DEF Done, F, start
<1> QED BY <1>4, DoneTyped, MergeFoldTyped
-----------------------------------------------------------------------------
(***************************************************************************)
(* What a table holds, and what one more rule makes of it.                 *)
(***************************************************************************)
HostsIn(t) == {h \in Hostnames : \E i \in DOMAIN t : IsRoot(t[i]) /\ t[i].host = h}

HasHostless(t) == \E i \in DOMAIN t : Hostless(t[i])

LEMMA AppendIs ==
  ASSUME NEW t \in Seq(Rule), NEW r \in Rule
  PROVE  /\ Append(t, r) \in Seq(Rule) /\ DOMAIN Append(t, r) = DOMAIN t \cup {Len(t) + 1}
         /\ \A i \in DOMAIN t : Append(t, r)[i] = t[i]
         /\ Append(t, r)[Len(t) + 1] = r
         /\ Len(t) \in Nat /\ DOMAIN t = 1 .. Len(t)
OBVIOUS

LEMMA HostlessAppend ==
  ASSUME NEW t \in Seq(Rule), NEW r \in Rule
  PROVE  HasHostless(Append(t, r)) <=> HasHostless(t) \/ Hostless(r)
BY AppendIs DEF HasHostless

LEMMA HostsAppend ==
  ASSUME NEW t \in Seq(Rule), NEW r \in Rule
  PROVE  HostsIn(Append(t, r)) = IF IsRoot(r) THEN HostsIn(t) \cup {r.host} ELSE HostsIn(t)
<1> DEFINE u == Append(t, r)
<1>1. ASSUME NEW h \in Hostnames
      PROVE  h \in HostsIn(u) <=> h \in HostsIn(t) \/ (IsRoot(r) /\ r.host = h)
  BY AppendIs DEF HostsIn
<1> HIDE DEF u
<1>2. HostsIn(u) \subseteq Hostnames /\ HostsIn(t) \subseteq Hostnames
  BY DEF HostsIn
<1>3. IsRoot(r) => r.host \in Hostnames
  BY RootHost
<1>4. HostsIn(u) = IF IsRoot(r) THEN HostsIn(t) \cup {r.host} ELSE HostsIn(t)
  BY <1>1, <1>2, <1>3
<1> QED BY <1>4 DEF u

LEMMA EmptyHolds ==
  /\ HostsIn(<<>>) = {} /\ ~HasHostless(<<>>) /\ <<>> \in Seq(Rule)
BY DEF HostsIn, HasHostless

LEMMA ConcatIs ==
  ASSUME NEW B, NEW x \in Seq(B), NEW y \in Seq(B), NEW r \in B
  PROVE  /\ x \o <<>> = x /\ <<>> \o x = x /\ x \o <<r>> = Append(x, r)
         /\ x \o Append(y, r) = Append(x \o y, r) /\ x \o y \in Seq(B)
OBVIOUS

(* A host has roots when one of the rules is its root. *)
LEMMA RootsNone ==
  ASSUME NEW h \in Hostnames, NEW t \in Seq(Rule)
  PROVE  RootsOf(t, h) = <<>> <=> h \notin HostsIn(t)
<1> DEFINE S == {u \in Seq(Rule) : RootsOf(u, h) = <<>> <=> h \notin HostsIn(u)}
<1>1. <<>> \in S
  BY EmptyHolds, RootsOfNone
<1>2. ASSUME NEW u \in Seq(Rule), NEW r \in Rule, u \in S PROVE Append(u, r) \in S
  <2>1. RootsOf(u, h) \in Seq(Rule)
    BY RootsTyped
  <2>2. Append(RootsOf(u, h), r) # <<>>
    BY <2>1
  <2>3. Append(u, r) \in Seq(Rule)
    OBVIOUS
  <2>4. CASE IsRoot(r) /\ r.host = h
    <3>1. RootsOf(Append(u, r), h) = Append(RootsOf(u, h), r)
      BY <2>4, RootsOfAppend
    <3>2. h \in HostsIn(Append(u, r))
      BY <2>4, HostsAppend
    <3> QED BY <2>2, <2>3, <3>1, <3>2
  <2>5. CASE ~(IsRoot(r) /\ r.host = h)
    <3>1. RootsOf(Append(u, r), h) = RootsOf(u, h)
      BY <2>5, RootsOfAppend
    <3>2. h \in HostsIn(Append(u, r)) <=> h \in HostsIn(u)
      BY <2>5, HostsAppend
    <3> QED BY <1>2, <2>3, <3>1, <3>2
  <2> QED BY <2>4, <2>5
<1> HIDE DEF S
<1>3. Seq(Rule) \subseteq S
  BY <1>1, <1>2, SequencesByInduction
<1> QED BY <1>3 DEF S

LEMMA RootsOfConcat ==
  ASSUME NEW h, NEW x \in Seq(Rule), NEW q \in Seq(Rule)
  PROVE  RootsOf(x \o q, h) = RootsOf(x, h) \o RootsOf(q, h)
<1> DEFINE S == {u \in Seq(Rule) : RootsOf(x \o u, h) = RootsOf(x, h) \o RootsOf(u, h)}
<1>1. RootsOf(x, h) \in Seq(Rule)
  BY RootsTyped
<1>2. <<>> \in S
  <2>1. x \o <<>> = x /\ RootsOf(x, h) \o <<>> = RootsOf(x, h) /\ <<>> \in Seq(Rule)
    BY <1>1
  <2> QED BY <2>1, RootsOfNone
<1>3. ASSUME NEW u \in Seq(Rule), NEW r \in Rule, u \in S PROVE Append(u, r) \in S
  <2>1. x \o Append(u, r) = Append(x \o u, r) /\ x \o u \in Seq(Rule) /\ Append(u, r) \in Seq(Rule)
    OBVIOUS
  <2>2. RootsOf(u, h) \in Seq(Rule)
    BY RootsTyped
  <2>3. RootsOf(x, h) \o Append(RootsOf(u, h), r) = Append(RootsOf(x, h) \o RootsOf(u, h), r)
    BY <1>1, <2>2
  <2>4. RootsOf(Append(x \o u, r), h) =
          IF IsRoot(r) /\ r.host = h THEN Append(RootsOf(x \o u, h), r) ELSE RootsOf(x \o u, h)
    BY <2>1, RootsOfAppend
  <2>5. RootsOf(Append(u, r), h) =
          IF IsRoot(r) /\ r.host = h THEN Append(RootsOf(u, h), r) ELSE RootsOf(u, h)
    BY RootsOfAppend
  <2>6. RootsOf(x \o u, h) = RootsOf(x, h) \o RootsOf(u, h)
    BY <1>3
  <2>7. RootsOf(x \o Append(u, r), h) = RootsOf(x, h) \o RootsOf(Append(u, r), h)
    BY <2>1, <2>3, <2>4, <2>5, <2>6
  <2> QED BY <2>1, <2>7
<1> HIDE DEF S
<1>4. Seq(Rule) \subseteq S
  BY <1>2, <1>3, SequencesByInduction
<1> QED BY <1>4 DEF S

(* Sifting goes past the first root of each of the hosts. *)
LEMMA SiftPast ==
  ASSUME NEW S \in SUBSET Hostnames, NEW t \in Seq(Rule)
  PROVE  Sift(t, S).past = S \cap HostsIn(t)
<1> DEFINE G == {u \in Seq(Rule) : Sift(u, S).past = S \cap HostsIn(u)}
<1>1. <<>> \in G
  BY EmptyHolds, SiftNone DEF SiftStart
<1>2. ASSUME NEW u \in Seq(Rule), NEW r \in Rule, u \in G PROVE Append(u, r) \in G
  <2>1. Sift(u, S) \in Sifted /\ Append(u, r) \in Seq(Rule)
    BY SiftTyped
  <2>2. Sift(Append(u, r), S) = SiftStep(S, Sift(u, S), r)
    BY SiftAppend
  <2>3. SiftStep(S, Sift(u, S), r).past =
          IF IsRoot(r) /\ r.host \in S \ Sift(u, S).past THEN Sift(u, S).past \cup {r.host}
                                                         ELSE Sift(u, S).past
    BY <2>1 DEF SiftStep, Sifted
  <2>4. Sift(u, S).past = S \cap HostsIn(u)
    BY <1>2
  <2>5. HostsIn(Append(u, r)) = IF IsRoot(r) THEN HostsIn(u) \cup {r.host} ELSE HostsIn(u)
    BY HostsAppend
  <2>6. Sift(Append(u, r), S).past = S \cap HostsIn(Append(u, r))
    BY <2>2, <2>3, <2>4, <2>5
  <2> QED BY <2>1, <2>6
<1> HIDE DEF G
<1>3. Seq(Rule) \subseteq G
  BY <1>1, <1>2, SequencesByInduction
<1> QED BY <1>3 DEF G

LEMMA SiftRest ==
  ASSUME NEW S \in SUBSET Hostnames, NEW t \in Seq(Rule), NEW r \in Rule
  PROVE  Sift(Append(t, r), S).rest =
           IF IsRoot(r) /\ r.host \in S \ HostsIn(t) THEN Sift(t, S).rest
                                                     ELSE Append(Sift(t, S).rest, r)
<1>1. Sift(t, S) \in Sifted /\ Sift(t, S).past = S \cap HostsIn(t)
  BY SiftTyped, SiftPast
<1>2. Sift(Append(t, r), S) = SiftStep(S, Sift(t, S), r)
  BY SiftAppend
<1>3. SiftStep(S, Sift(t, S), r).rest =
        IF IsRoot(r) /\ r.host \in S \ Sift(t, S).past THEN Sift(t, S).rest
                                                       ELSE Append(Sift(t, S).rest, r)
  BY <1>1 DEF SiftStep, Sifted
<1> QED BY <1>1, <1>2, <1>3
-----------------------------------------------------------------------------
(* A list of roots, one for each of its hosts. *)
OneEach(q) ==
  /\ q \in Seq(Rule)
  /\ \A i \in DOMAIN q : IsRoot(q[i])
  /\ \A i, j \in DOMAIN q : i # j => q[i].host # q[j].host

LEMMA OneEachAppend ==
  ASSUME NEW q \in Seq(Rule), NEW r \in Rule, OneEach(Append(q, r))
  PROVE  OneEach(q) /\ IsRoot(r) /\ r.host \notin HostsIn(q)
<1> DEFINE u == Append(q, r)
           n == Len(q) + 1
<1>1. /\ DOMAIN u = DOMAIN q \cup {n} /\ u[n] = r /\ n \notin DOMAIN q
      /\ \A i \in DOMAIN q : u[i] = q[i]
  BY AppendIs
<1>2. /\ \A i \in DOMAIN u : IsRoot(u[i])
      /\ \A i, j \in DOMAIN u : i # j => u[i].host # u[j].host
  BY DEF OneEach
<1> HIDE DEF u, n
<1>3. OneEach(q)
  BY <1>1, <1>2 DEF OneEach
<1>4. IsRoot(r)
  BY <1>1, <1>2
<1>5. ASSUME NEW i \in DOMAIN q PROVE q[i].host # r.host
  <2>1. i \in DOMAIN u /\ n \in DOMAIN u /\ i # n /\ u[i] = q[i]
    BY <1>1
  <2> QED BY <1>1, <1>2, <2>1
<1> QED BY <1>3, <1>4, <1>5 DEF HostsIn

LEMMA OneEachHasNone ==
  ASSUME NEW q, OneEach(q)
  PROVE  ~HasHostless(q)
BY DEF OneEach, HasHostless, IsRoot

(* Its host's one root is all the roots of that host. *)
LEMMA RootsOfOneEach ==
  ASSUME NEW h \in Hostnames, NEW q \in Seq(Rule), OneEach(q), h \in HostsIn(q)
  PROVE  \E i \in DOMAIN q : q[i].host = h /\ RootsOf(q, h) = <<q[i]>>
<1> DEFINE Sole(u) == \E i \in DOMAIN u : u[i].host = h /\ RootsOf(u, h) = <<u[i]>>
           S == {u \in Seq(Rule) : OneEach(u) /\ h \in HostsIn(u) => Sole(u)}
<1>1. <<>> \in S
  BY EmptyHolds
<1>2. ASSUME NEW u \in Seq(Rule), NEW r \in Rule, u \in S PROVE Append(u, r) \in S
  <2> SUFFICES ASSUME OneEach(Append(u, r)), h \in HostsIn(Append(u, r))
               PROVE  Sole(Append(u, r))
    BY AppendIs
  <2>1. OneEach(u) /\ IsRoot(r) /\ r.host \notin HostsIn(u)
    BY OneEachAppend
  <2>2. /\ DOMAIN Append(u, r) = DOMAIN u \cup {Len(u) + 1}
        /\ Append(u, r)[Len(u) + 1] = r
        /\ \A i \in DOMAIN u : Append(u, r)[i] = u[i]
    BY AppendIs
  <2>3. CASE r.host = h
    <3>1. RootsOf(u, h) = <<>>
      BY <2>1, <2>3, RootsNone
    <3>2. RootsOf(Append(u, r), h) = Append(RootsOf(u, h), r)
      BY <2>1, <2>3, RootsOfAppend
    <3>3. RootsOf(Append(u, r), h) = <<r>>
      BY <3>1, <3>2
    <3> QED BY <2>2, <2>3, <3>3
  <2>4. CASE r.host # h
    <3>1. RootsOf(Append(u, r), h) = RootsOf(u, h)
      BY <2>4, RootsOfAppend
    <3>2. h \in HostsIn(u)
      BY <2>1, <2>4, HostsAppend
    <3>3. PICK i \in DOMAIN u : u[i].host = h /\ RootsOf(u, h) = <<u[i]>>
      BY <1>2, <2>1, <3>2
    <3> QED BY <2>2, <3>1, <3>3
  <2> QED BY <2>3, <2>4
<1> HIDE DEF S
<1>3. Seq(Rule) \subseteq S
  BY <1>1, <1>2, SequencesByInduction
<1> QED BY <1>3 DEF S

(* Sifting such a list for its hosts leaves nothing of it. *)
LEMMA SiftOneEach ==
  ASSUME NEW S \in SUBSET Hostnames, NEW x \in Seq(Rule), NEW q \in Seq(Rule), OneEach(q),
         HostsIn(q) \subseteq S \ HostsIn(x)
  PROVE  Sift(x \o q, S).rest = Sift(x, S).rest
<1> DEFINE Fresh(u) == OneEach(u) /\ HostsIn(u) \subseteq S \ HostsIn(x)
           Passed(u) == /\ HostsIn(x \o u) = HostsIn(x) \cup HostsIn(u)
                        /\ Sift(x \o u, S).rest = Sift(x, S).rest
           G == {u \in Seq(Rule) : Fresh(u) => Passed(u)}
<1>1. <<>> \in G
  <2>1. x \o <<>> = x
    OBVIOUS
  <2> QED BY <2>1, EmptyHolds
<1>2. ASSUME NEW u \in Seq(Rule), NEW r \in Rule, u \in G PROVE Append(u, r) \in G
  <2> SUFFICES ASSUME Fresh(Append(u, r)) PROVE Passed(Append(u, r))
    BY AppendIs
  <2>1. x \o Append(u, r) = Append(x \o u, r) /\ x \o u \in Seq(Rule)
    BY ConcatIs
  <2>2. OneEach(u) /\ IsRoot(r) /\ r.host \notin HostsIn(u)
    BY OneEachAppend
  <2>3. HostsIn(Append(u, r)) = HostsIn(u) \cup {r.host}
    BY <2>2, HostsAppend
  <2>4. Passed(u) /\ r.host \in S \ HostsIn(x)
    BY <1>2, <2>2, <2>3
  <2>5. HostsIn(Append(x \o u, r)) = HostsIn(x \o u) \cup {r.host}
    BY <2>1, <2>2, HostsAppend
  <2>6. r.host \in S \ HostsIn(x \o u)
    BY <2>2, <2>4
  <2>7. Sift(Append(x \o u, r), S).rest = Sift(x \o u, S).rest
    BY <2>1, <2>2, <2>6, SiftRest
  <2> QED BY <2>1, <2>3, <2>4, <2>5, <2>7
<1> HIDE DEF G
<1>3. Seq(Rule) \subseteq G
  BY <1>1, <1>2, SequencesByInduction
<1> QED BY <1>3 DEF G

LEMMA HostlessConcat ==
  ASSUME NEW x \in Seq(Rule), NEW q \in Seq(Rule)
  PROVE  HasHostless(x \o q) <=> HasHostless(x) \/ HasHostless(q)
<1>1. /\ x \o q \in Seq(Rule)
      /\ \A i \in DOMAIN x : i \in DOMAIN (x \o q) /\ (x \o q)[i] = x[i]
      /\ \A i \in DOMAIN q : Len(x) + i \in DOMAIN (x \o q) /\ (x \o q)[Len(x) + i] = q[i]
      /\ \A k \in DOMAIN (x \o q) :
           \/ k \in DOMAIN x /\ (x \o q)[k] = x[k]
           \/ k - Len(x) \in DOMAIN q /\ (x \o q)[k] = q[k - Len(x)]
  OBVIOUS
<1> QED BY <1>1 DEF HasHostless

(* The list the merge inserts. *)
LEMMA Inserted ==
  ASSUME NEW e, Desired(e), NEW P \in SUBSET DOMAIN e
  PROVE  /\ SortedRoots(e, P) \in Seq(Rule) /\ OneEach(SortedRoots(e, P))
         /\ HostsIn(SortedRoots(e, P)) = P /\ ~HasHostless(SortedRoots(e, P))
         /\ \A h \in P : RootsOf(SortedRoots(e, P), h) = <<NewRoot(h, e[h])>>
         /\ \A h \in Hostnames \ P : RootsOf(SortedRoots(e, P), h) = <<>>
<1> DEFINE q == SortedRoots(e, P)
           s == Sorted(P)
<1>1. Lists(e, P, q, s)
  BY SortedRootsList
<1> HIDE DEF q, s
<1>2. /\ q \in Seq(Rule) /\ s \in [DOMAIN q -> P]
      /\ \A i \in DOMAIN q : q[i] = NewRoot(s[i], e[s[i]])
      /\ \A i, j \in DOMAIN q : i # j => s[i] # s[j]
      /\ \A h \in P : \E i \in DOMAIN q : s[i] = h
  BY <1>1 DEF Lists
<1>3. ASSUME NEW i \in DOMAIN q
      PROVE  /\ s[i] \in P /\ IsRoot(q[i]) /\ q[i].host = s[i]
             /\ q[i] = NewRoot(q[i].host, e[q[i].host])
  <2>1. s[i] \in P /\ s[i] \in Hostnames /\ e[s[i]] \in Origin /\ q[i] = NewRoot(s[i], e[s[i]])
    BY <1>2 DEF Desired
  <2> QED BY <2>1, NewRootTyped
<1>4. OneEach(q)
  BY <1>2, <1>3 DEF OneEach
<1>5. HostsIn(q) = P
  <2>1. P \subseteq Hostnames
    BY DEF Desired
  <2> QED BY <1>2, <1>3, <2>1 DEF HostsIn
<1>6. ASSUME NEW h \in P PROVE RootsOf(q, h) = <<NewRoot(h, e[h])>>
  <2>1. h \in Hostnames /\ h \in HostsIn(q)
    BY <1>5 DEF Desired
  <2>2. PICK i \in DOMAIN q : q[i].host = h /\ RootsOf(q, h) = <<q[i]>>
    BY <1>2, <1>4, <2>1, RootsOfOneEach
  <2>3. q[i] = NewRoot(h, e[h])
    BY <1>3, <2>2
  <2> QED BY <2>2, <2>3
<1>7. ASSUME NEW h \in Hostnames \ P PROVE RootsOf(q, h) = <<>>
  BY <1>2, <1>5, RootsNone
<1> QED BY <1>2, <1>4, <1>5, <1>6, <1>7, OneEachHasNone DEF q
-----------------------------------------------------------------------------
(* The first root of h in t comes after a rule without a hostname. *)
BehindIn(t, h) ==
  \E i, j \in DOMAIN t :
    /\ i < j /\ Hostless(t[i]) /\ IsRoot(t[j]) /\ t[j].host = h
    /\ \A k \in 1 .. j - 1 : ~(IsRoot(t[k]) /\ t[k].host = h)

LEMMA BehindNone == ASSUME NEW h PROVE ~BehindIn(<<>>, h)
BY DEF BehindIn

LEMMA BehindAppend ==
  ASSUME NEW h \in Hostnames, NEW t \in Seq(Rule), NEW r \in Rule
  PROVE  BehindIn(Append(t, r), h) <=>
           \/ BehindIn(t, h)
           \/ HasHostless(t) /\ IsRoot(r) /\ r.host = h /\ h \notin HostsIn(t)
<1> DEFINE u == Append(t, r)
           n == Len(t)
           Of(x) == IsRoot(x) /\ x.host = h
<1>1. /\ n \in Nat /\ DOMAIN t = 1 .. n /\ DOMAIN u = 1 .. (n + 1) /\ u[n + 1] = r
      /\ \A i \in 1 .. n : u[i] = t[i]
  OBVIOUS
<1>2. /\ \A i \in DOMAIN t : Of(t[i]) => h \in HostsIn(t)
      /\ h \in HostsIn(t) => \E i \in DOMAIN t : Of(t[i])
  BY DEF HostsIn
<1>3. Of(r) => ~Hostless(r)
  BY DEF IsRoot
<1>4. IsRoot(r) /\ r.host = h <=> Of(r)
  OBVIOUS
<1>5. /\ BehindIn(t, h) <=> \E i, j \in DOMAIN t :
           i < j /\ Hostless(t[i]) /\ Of(t[j]) /\ \A k \in 1 .. j - 1 : ~Of(t[k])
      /\ BehindIn(u, h) <=> \E i, j \in DOMAIN u :
           i < j /\ Hostless(u[i]) /\ Of(u[j]) /\ \A k \in 1 .. j - 1 : ~Of(u[k])
  BY DEF BehindIn
<1> HIDE DEF u, n, Of
<1>6. ASSUME BehindIn(t, h) PROVE BehindIn(u, h)
  <2>1. PICK i, j \in DOMAIN t :
          i < j /\ Hostless(t[i]) /\ Of(t[j]) /\ \A k \in 1 .. j - 1 : ~Of(t[k])
    BY <1>6, <1>5
  <2>2. i \in DOMAIN u /\ j \in DOMAIN u /\ u[i] = t[i] /\ u[j] = t[j]
    BY <1>1
  <2>3. \A k \in 1 .. j - 1 : ~Of(u[k])
    BY <1>1, <2>1
  <2> QED BY <1>5, <2>1, <2>2, <2>3
<1>7. ASSUME HasHostless(t), Of(r), h \notin HostsIn(t) PROVE BehindIn(u, h)
  <2>1. PICK i \in DOMAIN t : Hostless(t[i])
    BY <1>7 DEF HasHostless
  <2>2. i \in DOMAIN u /\ n + 1 \in DOMAIN u /\ i < n + 1 /\ u[i] = t[i]
    BY <1>1
  <2>3. \A k \in 1 .. (n + 1) - 1 : ~Of(u[k])
    BY <1>1, <1>2, <1>7
  <2> QED BY <1>1, <1>7, <1>5, <2>1, <2>2, <2>3
<1>8. ASSUME BehindIn(u, h)
      PROVE  BehindIn(t, h) \/ (HasHostless(t) /\ Of(r) /\ h \notin HostsIn(t))
  <2>1. PICK i, j \in DOMAIN u :
          i < j /\ Hostless(u[i]) /\ Of(u[j]) /\ \A k \in 1 .. j - 1 : ~Of(u[k])
    BY <1>8, <1>5
  <2>2. i \in 1 .. n /\ u[i] = t[i]
    BY <1>1, <2>1
  <2>3. CASE j = n + 1
    <3>1. Of(r) /\ HasHostless(t)
      BY <1>1, <2>1, <2>2, <2>3 DEF HasHostless
    <3>2. \A k \in 1 .. n : ~Of(t[k])
      BY <1>1, <2>1, <2>3
    <3> QED BY <1>1, <1>2, <3>1, <3>2
  <2>4. CASE j # n + 1
    <3>1. j \in 1 .. n /\ u[j] = t[j]
      BY <1>1, <2>4
    <3>2. \A k \in 1 .. j - 1 : ~Of(t[k])
      BY <1>1, <2>1, <3>1
    <3> QED BY <1>1, <1>5, <2>1, <2>2, <3>1, <3>2
  <2> QED BY <2>3, <2>4
<1> QED BY <1>6, <1>7, <1>8, <1>4 DEF u

(* A root that no rule without a hostname comes before. *)
Reached(x, h) ==
  \E i \in DOMAIN x : IsRoot(x[i]) /\ x[i].host = h /\ \A j \in 1 .. i : ~Hostless(x[j])

LEMMA ReachedFurther ==
  ASSUME NEW h, NEW x \in Seq(Rule), NEW y \in Seq(Rule), Reached(x, h)
  PROVE  Reached(x \o y, h)
<1>1. PICK i \in DOMAIN x : IsRoot(x[i]) /\ x[i].host = h /\ \A j \in 1 .. i : ~Hostless(x[j])
  BY DEF Reached
<1>2. \A j \in 1 .. i : j \in DOMAIN x /\ j \in DOMAIN (x \o y) /\ (x \o y)[j] = x[j]
  OBVIOUS
<1>3. i \in 1 .. i /\ i \in DOMAIN (x \o y)
  OBVIOUS
<1> QED BY <1>1, <1>2, <1>3 DEF Reached

LEMMA ReachedNow ==
  ASSUME NEW h \in Hostnames, NEW x \in Seq(Rule), ~HasHostless(x), h \in HostsIn(x)
  PROVE  Reached(x, h)
<1>1. PICK i \in DOMAIN x : IsRoot(x[i]) /\ x[i].host = h
  BY DEF HostsIn
<1>2. \A j \in 1 .. i : j \in DOMAIN x
  OBVIOUS
<1> QED BY <1>1, <1>2 DEF Reached, HasHostless
-----------------------------------------------------------------------------
(***************************************************************************)
(* The merge rule by rule: an induction over the table, for one loop state *)
(* m = Done(e, t) after the rules t.                                       *)
(***************************************************************************)
Stepped(e, m, d, r) ==
  /\ Hostless(r) =>
       /\ d.out = Append(m.out \o SortedRoots(e, m.pending), r)
       /\ d.pending = {} /\ d.seen = m.seen
  /\ ~Hostless(r) /\ (r.path \/ r.host \in m.seen) =>
       d.out = Append(m.out, r) /\ d.pending = m.pending /\ d.seen = m.seen
  /\ IsRoot(r) /\ r.host \notin m.seen =>
       /\ d.out = IF r.host \in m.pending THEN Append(m.out, Replacement(r, e[r.host]))
                                          ELSE m.out
       /\ d.pending = m.pending \ {r.host} /\ d.seen = m.seen \cup {r.host}

LEMMA DoneStep ==
  ASSUME NEW e, Desired(e), NEW t \in Seq(Rule), NEW r \in Rule
  PROVE  Stepped(e, Done(e, t), Done(e, Append(t, r)), r)
<1> DEFINE m == Done(e, t)
           d == Done(e, Append(t, r))
           q == SortedRoots(e, m.pending)
<1>1. m \in States(e) /\ d = MergeStep(e, m, r)
  BY DoneTyped, DoneAppend
<1>2. m.out \in Seq(Rule) /\ m.pending \in SUBSET DOMAIN e
  BY <1>1 DEF States
<1>3. q \in Seq(Rule)
  BY <1>2, Inserted
<1> HIDE DEF m, d, q
<1>4. (m.out \o q) \o <<r>> = Append(m.out \o q, r)
  BY <1>2, <1>3
<1>5. Hostless(r) => d = [m EXCEPT !.out = (m.out \o q) \o <<r>>, !.pending = {}]
  BY <1>1 DEF MergeStep, q
<1>6. ~Hostless(r) /\ (r.path \/ r.host \in m.seen) => d = [m EXCEPT !.out = Append(m.out, r)]
  BY <1>1 DEF MergeStep
<1>7. IsRoot(r) /\ r.host \notin m.seen =>
        d = [out     |-> IF r.host \in m.pending THEN Append(m.out, Replacement(r, e[r.host]))
                                                 ELSE m.out,
             pending |-> m.pending \ {r.host},
             seen    |-> m.seen \cup {r.host}]
  BY <1>1 DEF MergeStep, IsRoot
<1>8. Hostless(r) => d.out = Append(m.out \o q, r) /\ d.pending = {} /\ d.seen = m.seen
  BY <1>1, <1>4, <1>5 DEF States
<1>9. ~Hostless(r) /\ (r.path \/ r.host \in m.seen) =>
        d.out = Append(m.out, r) /\ d.pending = m.pending /\ d.seen = m.seen
  BY <1>1, <1>6 DEF States
<1>10. IsRoot(r) /\ r.host \notin m.seen =>
         /\ d.out = IF r.host \in m.pending THEN Append(m.out, Replacement(r, e[r.host]))
                                            ELSE m.out
         /\ d.pending = m.pending \ {r.host} /\ d.seen = m.seen \cup {r.host}
  BY <1>7
<1> QED BY <1>8, <1>9, <1>10 DEF m, d, q, Stepped

LEMMA SameRule ==
  ASSUME NEW r \in Rule, NEW s \in Rule, r.host = s.host, r.path = s.path,
         r.service = s.service, r.req = s.req, r.extra = s.extra
  PROVE  r = s
BY DEF Rule

(* A desired root with another value for the fields nobody knows. *)
RootWith(h, o, x) == [NewRoot(h, o) EXCEPT !.extra = x]

(* What is known of it.                                                    *)
IsRootWith(v, h, o, x) ==
  /\ v \in Rule /\ v.host = h /\ v.path = FALSE
  /\ v.service = o.service /\ v.req = o.req /\ v.extra = x

LEMMA RootWithTyped ==
  ASSUME NEW h \in Hostnames, NEW o \in Origin, NEW x \in BOOLEAN
  PROVE  IsRootWith(RootWith(h, o, x), h, o, x)
<1>1. NewRoot(h, o) \in Rule
  BY NewRootTyped
<1>2. NewRoot(h, o).host = h /\ NewRoot(h, o).path = FALSE
      /\ NewRoot(h, o).service = o.service /\ NewRoot(h, o).req = o.req
  BY DEF NewRoot
<1> QED BY <1>1, <1>2 DEF Rule, RootWith, IsRootWith

LEMMA ReplacementIs ==
  ASSUME NEW r \in Rule, IsRoot(r), NEW o \in Origin
  PROVE  /\ Replacement(r, o) \in Rule /\ IsRoot(Replacement(r, o))
         /\ Replacement(r, o).host = r.host
         /\ o.extra = FALSE => Replacement(r, o) = RootWith(r.host, o, r.extra)
<1> DEFINE x == r.extra \/ o.extra
           w == Replacement(r, o)
           v == RootWith(r.host, o, r.extra)
<1>1. w = [r EXCEPT !.service = o.service, !.req = o.req, !.extra = x]
  BY DEF Replacement
<1>2. r.path = FALSE /\ r.extra \in BOOLEAN /\ o.extra \in BOOLEAN /\ r.host \in Hostnames
  BY RootHost DEF IsRoot, Rule, Origin
<1>3. o.extra = FALSE => x = r.extra
  BY <1>2
<1>4. w \in Rule
  BY ReplacementTyped
<1> HIDE DEF x, w
<1>5. /\ w.host = r.host /\ w.path = r.path /\ w.service = o.service /\ w.req = o.req
      /\ w.extra = x
  BY <1>1 DEF Rule
<1>6. IsRoot(w)
  BY <1>5 DEF IsRoot, Hostless
<1> DEFINE g == r.host
           y == r.extra
<1>7. g \in Hostnames /\ y \in BOOLEAN /\ o \in Origin
  BY <1>2
<1> HIDE DEF g, y
<1>8. IsRootWith(RootWith(g, o, y), g, o, y)
  BY <1>7, RootWithTyped
<1>9. IsRootWith(v, r.host, o, r.extra)
  BY <1>8 DEF g, y
<1> HIDE DEF v
<1>10. /\ v \in Rule /\ v.host = r.host /\ v.path = FALSE /\ v.service = o.service
      /\ v.req = o.req /\ v.extra = r.extra
  BY <1>9 DEF IsRootWith
<1>11. o.extra = FALSE => w = v
  BY <1>2, <1>3, <1>4, <1>5, <1>10, SameRule
<1> QED BY <1>4, <1>5, <1>6, <1>11 DEF w, v

(* The books: the hosts past their first root, the hosts still to place,   *)
(* and whether a rule without a hostname is out.                           *)
Books(e, t) ==
  LET m == Done(e, t) IN
  /\ m.out \in Seq(Rule) /\ m.seen = HostsIn(t)
  /\ m.pending = IF HasHostless(t) THEN {} ELSE DOMAIN e \ HostsIn(t)
  /\ HasHostless(m.out) <=> HasHostless(t)

LEMMA BooksHold ==
  ASSUME NEW e, Desired(e), NEW t \in Seq(Rule)
  PROVE  Books(e, t)
<1> DEFINE S == {u \in Seq(Rule) : Books(e, u)}
<1>1. <<>> \in S
  <2> DEFINE m == Done(e, <<>>)
  <2>1. m = [out |-> <<>>, pending |-> DOMAIN e, seen |-> {}]
    BY DoneNone DEF MergeStart
  <2>2. m.out = <<>> /\ m.pending = DOMAIN e /\ m.seen = {}
    BY <2>1
  <2> HIDE DEF m
  <2>3. Books(e, <<>>)
    BY <2>2, EmptyHolds DEF Books, m
  <2> QED BY <2>3, EmptyHolds
<1>2. ASSUME NEW u \in Seq(Rule), NEW r \in Rule, u \in S PROVE Append(u, r) \in S
  <2> DEFINE m == Done(e, u)
             d == Done(e, Append(u, r))
             q == SortedRoots(e, m.pending)
  <2>1. /\ m.out \in Seq(Rule) /\ m.seen = HostsIn(u)
        /\ m.pending = IF HasHostless(u) THEN {} ELSE DOMAIN e \ HostsIn(u)
        /\ HasHostless(m.out) <=> HasHostless(u)
    BY <1>2 DEF Books
  <2>2. Stepped(e, m, d, r)
    BY DoneStep
  <2>3. /\ Hostless(r) => d.out = Append(m.out \o q, r) /\ d.pending = {} /\ d.seen = m.seen
        /\ ~Hostless(r) /\ (r.path \/ r.host \in m.seen) =>
             d.out = Append(m.out, r) /\ d.pending = m.pending /\ d.seen = m.seen
        /\ IsRoot(r) /\ r.host \notin m.seen =>
             /\ d.out = IF r.host \in m.pending THEN Append(m.out, Replacement(r, e[r.host]))
                                                ELSE m.out
             /\ d.pending = m.pending \ {r.host} /\ d.seen = m.seen \cup {r.host}
    BY <2>2 DEF Stepped
  <2>4. d \in States(e) /\ Append(u, r) \in Seq(Rule)
    BY DoneTyped, AppendIs
  <2>5. d.out \in Seq(Rule)
    BY <2>4 DEF States
  <2>6. m.pending \in SUBSET DOMAIN e
    BY <2>1
  <2>7. q \in Seq(Rule) /\ ~HasHostless(q)
    BY <2>6, Inserted
  <2>8. HostsIn(Append(u, r)) = IF IsRoot(r) THEN HostsIn(u) \cup {r.host} ELSE HostsIn(u)
    BY HostsAppend
  <2>9. HasHostless(Append(u, r)) <=> HasHostless(u) \/ Hostless(r)
    BY HostlessAppend
  <2> HIDE DEF m, d, q
  <2>10. CASE Hostless(r)
    <3>1. HasHostless(d.out)
      <4>1. m.out \o q \in Seq(Rule)
        BY <2>1, <2>7
      <4> QED BY <2>3, <2>10, <4>1, HostlessAppend
    <3>2. ~IsRoot(r)
      BY <2>10 DEF IsRoot
    <3>3. Books(e, Append(u, r))
      BY <2>1, <2>3, <2>5, <2>8, <2>9, <2>10, <3>1, <3>2 DEF Books, d
    <3> QED BY <2>4, <3>3
  <2>11. CASE ~Hostless(r) /\ (r.path \/ r.host \in m.seen)
    <3>1. d.out = Append(m.out, r)
      BY <2>3, <2>11
    <3>2. HasHostless(d.out) <=> HasHostless(m.out)
      BY <2>1, <2>11, <3>1, HostlessAppend
    <3>3. HostsIn(Append(u, r)) = HostsIn(u)
      BY <2>1, <2>8, <2>11 DEF IsRoot
    <3>4. Books(e, Append(u, r))
      BY <2>1, <2>3, <2>5, <2>9, <2>11, <3>2, <3>3 DEF Books, d
    <3> QED BY <2>4, <3>4
  <2>12. CASE IsRoot(r) /\ r.host \notin m.seen
    <3>1. ~Hostless(r)
      BY <2>12 DEF IsRoot
    <3>2. HasHostless(d.out) <=> HasHostless(m.out)
      <4>1. CASE r.host \in m.pending
        <5>1. e[r.host] \in Origin
          BY <2>6, <4>1 DEF Desired
        <5>2. Replacement(r, e[r.host]) \in Rule /\ ~Hostless(Replacement(r, e[r.host]))
          BY <2>12, <5>1, ReplacementIs DEF IsRoot
        <5>3. d.out = Append(m.out, Replacement(r, e[r.host]))
          BY <2>3, <2>12, <4>1
        <5> QED BY <2>1, <5>2, <5>3, HostlessAppend
      <4>2. CASE r.host \notin m.pending
        BY <2>3, <2>12, <4>2
      <4> QED BY <4>1, <4>2
    <3>3. Books(e, Append(u, r))
      BY <2>1, <2>3, <2>5, <2>8, <2>9, <2>12, <3>1, <3>2 DEF Books, d
    <3> QED BY <2>4, <3>3
  <2> QED BY <2>10, <2>11, <2>12 DEF IsRoot
<1> HIDE DEF S
<1>3. Seq(Rule) \subseteq S
  BY <1>1, <1>2, SequencesByInduction
<1> QED BY <1>3 DEF S
-----------------------------------------------------------------------------
(* The roots of h: the desired one in the place of the first, or ahead of  *)
(* the first rule without a hostname, and the others as they were.         *)
Placed(e, t, h) ==
  IF h \notin DOMAIN e THEN <<>>
  ELSE IF RootsOf(t, h) = <<>> THEN IF HasHostless(t) THEN <<NewRoot(h, e[h])>> ELSE <<>>
  ELSE <<RootWith(h, e[h], RootsOf(t, h)[1].extra /\ ~BehindIn(t, h))>>

Others(t, h) == IF RootsOf(t, h) = <<>> THEN <<>> ELSE Tail(RootsOf(t, h))

KnownOnly(e) == \A h \in DOMAIN e : e[h].extra = FALSE

LEMMA PlacedTyped ==
  ASSUME NEW e, Desired(e), NEW t \in Seq(Rule), NEW h \in Hostnames
  PROVE  Placed(e, t, h) \in Seq(Rule) /\ Others(t, h) \in Seq(Rule)
<1>1. RootsOf(t, h) \in Seq(Rule)
  BY RootsTyped
<1>2. Others(t, h) \in Seq(Rule)
  BY <1>1 DEF Others
<1>3. CASE h \in DOMAIN e
  <2>1. NewRoot(h, e[h]) \in Rule
    BY <1>3, NewRootTyped DEF Desired
  <2> DEFINE x == RootsOf(t, h)[1].extra /\ ~BehindIn(t, h)
             v == RootWith(h, e[h], x)
  <2>2. x \in BOOLEAN
    OBVIOUS
  <2>3. e[h] \in Origin
    BY <1>3 DEF Desired
  <2> HIDE DEF x
  <2>4. IsRootWith(v, h, e[h], x)
    BY <2>3, <2>2, RootWithTyped
  <2> HIDE DEF v
  <2>5. v \in Rule
    BY <2>4 DEF IsRootWith
  <2>6. <<v>> \in Seq(Rule) /\ <<NewRoot(h, e[h])>> \in Seq(Rule) /\ <<>> \in Seq(Rule)
    BY <2>1, <2>5
  <2> QED BY <1>2, <1>3, <2>6 DEF Placed, v, x
<1>4. CASE h \notin DOMAIN e
  BY <1>2, <1>4 DEF Placed
<1> QED BY <1>3, <1>4
-----------------------------------------------------------------------------
LEMMA RootWithNone ==
  ASSUME NEW h \in Hostnames, NEW o \in Origin, o.extra = FALSE
  PROVE  RootWith(h, o, FALSE) = NewRoot(h, o)
<1> DEFINE v == RootWith(h, o, FALSE)
           w == NewRoot(h, o)
<1>1. IsRootWith(v, h, o, FALSE)
  BY RootWithTyped
<1> HIDE DEF v
<1>2. v \in Rule /\ v.host = h /\ v.path = FALSE /\ v.service = o.service /\ v.req = o.req
      /\ v.extra = FALSE
  BY <1>1 DEF IsRootWith
<1>3. w \in Rule
  BY NewRootTyped
<1>4. w.host = h /\ w.path = FALSE /\ w.service = o.service /\ w.req = o.req /\ w.extra = FALSE
  BY DEF NewRoot
<1> HIDE DEF w
<1>5. v = w
  BY <1>2, <1>3, <1>4, SameRule
<1> QED BY <1>5 DEF v, w

(* What one more rule makes of the expected roots of h. *)
PlacedGrows(e, t, r, h) ==
  LET u == Append(t, r) IN
  /\ ~Hostless(r) /\ ~(IsRoot(r) /\ r.host = h) =>
       Placed(e, u, h) = Placed(e, t, h) /\ Others(u, h) = Others(t, h)
  /\ Hostless(r) =>
       /\ Others(u, h) = Others(t, h)
       /\ Placed(e, u, h) = IF h \in DOMAIN e /\ RootsOf(t, h) = <<>> THEN <<NewRoot(h, e[h])>>
                                                                    ELSE Placed(e, t, h)
  /\ IsRoot(r) /\ r.host = h /\ RootsOf(t, h) # <<>> =>
       Placed(e, u, h) = Placed(e, t, h) /\ Others(u, h) = Append(Others(t, h), r)
  /\ IsRoot(r) /\ r.host = h /\ RootsOf(t, h) = <<>> =>
       /\ Others(u, h) = <<>>
       /\ Placed(e, u, h) = IF h \in DOMAIN e
                              THEN <<RootWith(h, e[h], r.extra /\ ~HasHostless(t))>> ELSE <<>>

LEMMA PlacedAppend ==
  ASSUME NEW e, Desired(e), NEW t \in Seq(Rule), NEW r \in Rule, NEW h \in Hostnames
  PROVE  PlacedGrows(e, t, r, h)
<1> DEFINE u == Append(t, r)
           R == RootsOf(t, h)
           V == RootsOf(u, h)
           Mine == IsRoot(r) /\ r.host = h
<1>1. R \in Seq(Rule) /\ (R = <<>> <=> h \notin HostsIn(t))
  BY RootsTyped, RootsNone
<1>2. V = IF Mine THEN Append(R, r) ELSE R
  BY RootsOfAppend
<1>3. BehindIn(u, h) <=> BehindIn(t, h) \/ (HasHostless(t) /\ Mine /\ R = <<>>)
  BY <1>1, BehindAppend
<1>4. HasHostless(u) <=> HasHostless(t) \/ Hostless(r)
  BY HostlessAppend
<1>5. Hostless(r) => ~Mine
  BY DEF IsRoot
<1>6. R = <<>> => ~BehindIn(t, h)
  <2> SUFFICES ASSUME BehindIn(t, h) PROVE h \in HostsIn(t)
    BY <1>1
  <2> QED BY DEF BehindIn, HostsIn
<1>7. /\ Placed(e, u, h) =
           IF h \notin DOMAIN e THEN <<>>
           ELSE IF V = <<>> THEN IF HasHostless(u) THEN <<NewRoot(h, e[h])>> ELSE <<>>
           ELSE <<RootWith(h, e[h], V[1].extra /\ ~BehindIn(u, h))>>
      /\ Placed(e, t, h) =
           IF h \notin DOMAIN e THEN <<>>
           ELSE IF R = <<>> THEN IF HasHostless(t) THEN <<NewRoot(h, e[h])>> ELSE <<>>
           ELSE <<RootWith(h, e[h], R[1].extra /\ ~BehindIn(t, h))>>
  BY DEF Placed
<1>8. /\ Others(u, h) = IF V = <<>> THEN <<>> ELSE Tail(V)
      /\ Others(t, h) = IF R = <<>> THEN <<>> ELSE Tail(R)
  BY DEF Others
<1> DEFINE new == <<NewRoot(h, e[h])>>
           With(x) == <<RootWith(h, e[h], x)>>
<1> HIDE DEF u, R, V, Mine, new, With
<1>9. ASSUME ~Mine
      PROVE  /\ Others(u, h) = Others(t, h)
             /\ ~Hostless(r) => Placed(e, u, h) = Placed(e, t, h)
             /\ Hostless(r) => Placed(e, u, h) = IF h \in DOMAIN e /\ R = <<>> THEN new
                                                                             ELSE Placed(e, t, h)
  <2>1. V = R /\ (BehindIn(u, h) <=> BehindIn(t, h))
    BY <1>2, <1>3, <1>9
  <2>2. (V[1].extra /\ ~BehindIn(u, h)) = (R[1].extra /\ ~BehindIn(t, h))
    BY <2>1
  <2> QED BY <1>4, <1>7, <1>8, <2>1, <2>2 DEF new
<1>10. ASSUME Mine, R # <<>>
       PROVE  Placed(e, u, h) = Placed(e, t, h) /\ Others(u, h) = Append(Others(t, h), r)
  <2>1. V = Append(R, r) /\ V # <<>> /\ V[1] = R[1] /\ Tail(V) = Append(Tail(R), r)
    <3>1. V = Append(R, r)
      BY <1>2, <1>10
    <3>2. Append(R, r) # <<>> /\ Append(R, r)[1] = R[1] /\ Tail(Append(R, r)) = Append(Tail(R), r)
      BY <1>1, <1>10
    <3> QED BY <3>1, <3>2
  <2>2. (V[1].extra /\ ~BehindIn(u, h)) = (R[1].extra /\ ~BehindIn(t, h))
    BY <1>3, <1>10, <2>1
  <2> QED BY <1>7, <1>8, <1>10, <2>1, <2>2
<1>11. ASSUME Mine, R = <<>>
       PROVE  /\ Others(u, h) = <<>>
              /\ Placed(e, u, h) = IF h \in DOMAIN e THEN With(r.extra /\ ~HasHostless(t)) ELSE <<>>
  <2>1. V = <<r>> /\ V # <<>> /\ V[1] = r /\ Tail(V) = <<>>
    <3>1. V = Append(<<>>, r)
      BY <1>2, <1>11
    <3>2. Append(<<>>, r) = <<r>>
      OBVIOUS
    <3>3. <<r>> # <<>> /\ <<r>>[1] = r /\ Tail(<<r>>) = <<>>
      OBVIOUS
    <3> QED BY <3>1, <3>2, <3>3
  <2>2. BehindIn(u, h) <=> HasHostless(t)
    BY <1>3, <1>6, <1>11
  <2>3. (V[1].extra /\ ~BehindIn(u, h)) = (r.extra /\ ~HasHostless(t))
    BY <2>1, <2>2
  <2> QED BY <1>7, <1>8, <2>1, <2>3 DEF With
<1> QED BY <1>5, <1>9, <1>10, <1>11 DEF PlacedGrows, u, R, Mine, new, With

RootsKept(e, t, h) ==
  RootsOf(Done(e, t).out, h) = Placed(e, t, h) \o Others(t, h)

LEMMA RootsMerged ==
  ASSUME NEW e, Desired(e), KnownOnly(e), NEW h \in Hostnames, NEW t \in Seq(Rule)
  PROVE  RootsKept(e, t, h)
<1> DEFINE S == {u \in Seq(Rule) : RootsKept(e, u, h)}
<1>1. <<>> \in S
  <2>1. Done(e, <<>>).out = <<>>
    BY DoneNone DEF MergeStart
  <2>2. RootsOf(<<>>, h) = <<>>
    BY RootsOfNone
  <2>3. Placed(e, <<>>, h) = <<>> /\ Others(<<>>, h) = <<>>
    BY <2>2, EmptyHolds DEF Placed, Others
  <2>4. <<>> \o <<>> = <<>>
    OBVIOUS
  <2>5. RootsKept(e, <<>>, h)
    BY <2>1, <2>2, <2>3, <2>4 DEF RootsKept
  <2> QED BY <2>5, EmptyHolds
<1>2. ASSUME NEW u \in Seq(Rule), NEW r \in Rule, u \in S PROVE Append(u, r) \in S
  <2> DEFINE m == Done(e, u)
             d == Done(e, Append(u, r))
             q == SortedRoots(e, m.pending)
             R == RootsOf(u, h)
             P == Placed(e, u, h)
             O == Others(u, h)
  <2>1. Books(e, u) /\ Stepped(e, m, d, r) /\ PlacedGrows(e, u, r, h)
    BY BooksHold, DoneStep, PlacedAppend
  <2>2. /\ m.out \in Seq(Rule) /\ m.seen = HostsIn(u)
        /\ m.pending = IF HasHostless(u) THEN {} ELSE DOMAIN e \ HostsIn(u)
    BY <2>1 DEF Books
  <2>3. m.pending \in SUBSET DOMAIN e
    BY <2>2
  <2>4. /\ q \in Seq(Rule)
        /\ h \in m.pending => RootsOf(q, h) = <<NewRoot(h, e[h])>>
        /\ h \notin m.pending => RootsOf(q, h) = <<>>
    BY <2>3, Inserted
  <2>5. P \in Seq(Rule) /\ O \in Seq(Rule)
    BY PlacedTyped
  <2>6. RootsOf(m.out, h) = P \o O
    BY <1>2 DEF RootsKept
  <2>7. R = <<>> <=> h \notin HostsIn(u)
    BY RootsNone
  <2>8. /\ R = <<>> => O = <<>>
        /\ R = <<>> => P = IF h \in DOMAIN e /\ HasHostless(u) THEN <<NewRoot(h, e[h])>> ELSE <<>>
    BY DEF Placed, Others
  <2>9. P \o <<>> = P /\ (P \o O) \o <<>> = P \o O
    BY <2>5
  <2> SUFFICES RootsOf(d.out, h) = Placed(e, Append(u, r), h) \o Others(Append(u, r), h)
    BY AppendIs DEF RootsKept
  <2> HIDE DEF m, d, q, R, P, O
  <2>10. CASE Hostless(r)
    <3>1. d.out = Append(m.out \o q, r)
      BY <2>1, <2>10 DEF Stepped, q
    <3>2. d.out = Append(m.out \o q, r) /\ m.out \o q \in Seq(Rule)
      BY <2>2, <2>4, <3>1
    <3>3. ~IsRoot(r)
      BY <2>10 DEF IsRoot
    <3>4. RootsOf(d.out, h) = RootsOf(m.out \o q, h)
      BY <3>2, <3>3, RootsOfAppend
    <3>5. RootsOf(m.out \o q, h) = (P \o O) \o RootsOf(q, h)
      BY <2>2, <2>4, <2>6, RootsOfConcat
    <3>6. /\ Others(Append(u, r), h) = O
          /\ Placed(e, Append(u, r), h) = IF h \in DOMAIN e /\ R = <<>> THEN <<NewRoot(h, e[h])>>
                                                                       ELSE P
      BY <2>1, <2>10 DEF PlacedGrows, R, P, O
    <3>7. CASE h \in m.pending
      <4>1. h \in DOMAIN e /\ ~HasHostless(u) /\ R = <<>>
        BY <2>2, <2>3, <2>7, <3>7
      <4>2. P = <<>> /\ O = <<>>
        BY <2>8, <4>1
      <4>3. (<<>> \o <<>>) \o <<NewRoot(h, e[h])>> = <<NewRoot(h, e[h])>> \o <<>>
        OBVIOUS
      <4> QED BY <2>4, <3>4, <3>5, <3>6, <3>7, <4>1, <4>2, <4>3
    <3>8. CASE h \notin m.pending
      <4>1. h \in DOMAIN e /\ R = <<>> => HasHostless(u)
        BY <2>2, <2>7, <3>8
      <4>2. Placed(e, Append(u, r), h) = P
        BY <2>8, <3>6, <4>1
      <4> QED BY <2>4, <2>9, <3>4, <3>5, <3>6, <3>8, <4>2
    <3> QED BY <3>7, <3>8
  <2>11. CASE ~Hostless(r) /\ ~(IsRoot(r) /\ r.host = h)
    <3>1. Placed(e, Append(u, r), h) = P /\ Others(Append(u, r), h) = O
      BY <2>1, <2>11 DEF PlacedGrows, P, O
    <3>2. CASE r.path \/ r.host \in m.seen
      <4>1. d.out = Append(m.out, r)
        BY <2>1, <2>11, <3>2 DEF Stepped
      <4>2. RootsOf(d.out, h) = RootsOf(m.out, h)
        BY <2>2, <2>11, <4>1, RootsOfAppend
      <4> QED BY <2>6, <3>1, <4>2
    <3>3. CASE ~(r.path \/ r.host \in m.seen)
      <4>1. IsRoot(r) /\ r.host # h
        BY <2>11, <3>3 DEF IsRoot
      <4>2. d.out = IF r.host \in m.pending THEN Append(m.out, Replacement(r, e[r.host])) ELSE m.out
        BY <2>1, <3>3, <4>1 DEF Stepped
      <4>3. CASE r.host \in m.pending
        <5>1. e[r.host] \in Origin
          BY <2>3, <4>3 DEF Desired
        <5>2. Replacement(r, e[r.host]) \in Rule /\ Replacement(r, e[r.host]).host # h
          BY <4>1, <5>1, ReplacementIs
        <5>3. d.out = Append(m.out, Replacement(r, e[r.host]))
          BY <4>2, <4>3
        <5>4. RootsOf(d.out, h) = RootsOf(m.out, h)
          BY <2>2, <5>2, <5>3, RootsOfAppend
        <5> QED BY <2>6, <3>1, <5>4
      <4>4. CASE r.host \notin m.pending
        BY <2>6, <3>1, <4>2, <4>4
      <4> QED BY <4>3, <4>4
    <3> QED BY <3>2, <3>3
  <2>12. CASE IsRoot(r) /\ r.host = h /\ R # <<>>
    <3>1. Placed(e, Append(u, r), h) = P /\ Others(Append(u, r), h) = Append(O, r)
      BY <2>1, <2>12 DEF PlacedGrows, P, O, R
    <3>2. d.out = Append(m.out, r)
      BY <2>1, <2>2, <2>7, <2>12 DEF Stepped, IsRoot
    <3>3. RootsOf(d.out, h) = Append(P \o O, r)
      BY <2>2, <2>6, <2>12, <3>2, RootsOfAppend
    <3>4. P \in Seq(Rule) /\ O \in Seq(Rule) /\ r \in Rule
      BY <2>5
    <3>5. P \o Append(O, r) = Append(P \o O, r)
      BY <3>4
    <3> QED BY <3>1, <3>3, <3>5
  <2>13. CASE IsRoot(r) /\ r.host = h /\ R = <<>>
    <3>1. /\ Others(Append(u, r), h) = <<>>
          /\ Placed(e, Append(u, r), h) =
               IF h \in DOMAIN e THEN <<RootWith(h, e[h], r.extra /\ ~HasHostless(u))>> ELSE <<>>
      BY <2>1, <2>13 DEF PlacedGrows, R
    <3>2. d.out = IF h \in m.pending THEN Append(m.out, Replacement(r, e[h])) ELSE m.out
      BY <2>1, <2>2, <2>7, <2>13 DEF Stepped
    <3>3. RootsOf(m.out, h) = P
      BY <2>6, <2>8, <2>9, <2>13
    <3>4. CASE h \in m.pending
      <4>1. h \in DOMAIN e /\ ~HasHostless(u) /\ e[h] \in Origin /\ e[h].extra = FALSE
        BY <2>2, <2>3, <3>4 DEF Desired, KnownOnly
      <4>2. P = <<>>
        BY <2>8, <2>13, <4>1
      <4> DEFINE w == Replacement(r, e[h])
      <4>3. w \in Rule /\ IsRoot(w) /\ w.host = h /\ w = RootWith(h, e[h], r.extra)
        BY <2>13, <4>1, ReplacementIs
      <4>4. r.extra \in BOOLEAN
        BY DEF Rule
      <4>5. (r.extra /\ ~HasHostless(u)) = r.extra
        BY <4>1, <4>4
      <4> HIDE DEF w
      <4>6. d.out = Append(m.out, w)
        BY <3>2, <3>4 DEF w
      <4>7. RootsOf(d.out, h) = Append(P, w)
        BY <2>2, <3>3, <4>3, <4>6, RootsOfAppend
      <4>8. Append(<<>>, w) = <<w>> \o <<>>
        OBVIOUS
      <4> QED BY <3>1, <4>1, <4>2, <4>3, <4>5, <4>7, <4>8
    <3>5. CASE h \notin m.pending /\ h \in DOMAIN e
      <4>1. HasHostless(u) /\ e[h] \in Origin /\ e[h].extra = FALSE
        BY <2>2, <2>7, <2>13, <3>5 DEF Desired, KnownOnly
      <4>2. (r.extra /\ ~HasHostless(u)) = FALSE
        BY <4>1
      <4>3. RootWith(h, e[h], FALSE) = NewRoot(h, e[h])
        BY <4>1, RootWithNone
      <4>4. P = <<NewRoot(h, e[h])>>
        BY <2>8, <2>13, <3>5, <4>1
      <4>5. Placed(e, Append(u, r), h) = P
        BY <3>1, <3>5, <4>2, <4>3, <4>4
      <4> QED BY <2>9, <3>1, <3>2, <3>3, <3>5, <4>5
    <3>6. CASE h \notin DOMAIN e
      <4>1. h \notin m.pending
        BY <2>3, <3>6
      <4>2. P = <<>>
        BY <2>8, <2>13, <3>6
      <4> QED BY <2>9, <3>1, <3>2, <3>3, <3>6, <4>1, <4>2
    <3> QED BY <3>4, <3>5, <3>6
  <2> QED BY <2>10, <2>11, <2>12, <2>13
<1> HIDE DEF S
<1>3. Seq(Rule) \subseteq S
  BY <1>1, <1>2, SequencesByInduction
<1> QED BY <1>3 DEF S
-----------------------------------------------------------------------------
(* Of the desired hosts, the ones placed have a root and the others none.  *)
LEMMA OutHosts ==
  ASSUME NEW e, Desired(e), KnownOnly(e), NEW t \in Seq(Rule), NEW h \in DOMAIN e
  PROVE  h \in HostsIn(Done(e, t).out) <=> h \notin Done(e, t).pending
<1> DEFINE m == Done(e, t)
           P == Placed(e, t, h)
           O == Others(t, h)
<1>1. h \in Hostnames
  BY DEF Desired
<1>2. /\ m.out \in Seq(Rule)
      /\ m.pending = IF HasHostless(t) THEN {} ELSE DOMAIN e \ HostsIn(t)
  BY BooksHold DEF Books
<1>3. RootsOf(m.out, h) = P \o O
  BY <1>1, RootsMerged DEF RootsKept
<1>4. RootsOf(m.out, h) = <<>> <=> h \notin HostsIn(m.out)
  BY <1>1, <1>2, RootsNone
<1>5. RootsOf(t, h) = <<>> <=> h \notin HostsIn(t)
  BY <1>1, RootsNone
<1>6. P \in Seq(Rule) /\ O \in Seq(Rule)
  BY <1>1, PlacedTyped
<1>7. P = <<>> <=> RootsOf(t, h) = <<>> /\ ~HasHostless(t)
  <2>1. \A x : <<x>> # <<>>
    OBVIOUS
  <2> QED BY <2>1 DEF Placed
<1>8. RootsOf(t, h) = <<>> => O = <<>>
  BY DEF Others
<1> HIDE DEF m, P, O
<1>9. CASE h \in m.pending
  <2>1. P = <<>> /\ O = <<>>
    BY <1>2, <1>5, <1>7, <1>8, <1>9
  <2>2. <<>> \o <<>> = <<>>
    OBVIOUS
  <2> QED BY <1>3, <1>4, <1>9, <2>1, <2>2 DEF m
<1>10. CASE h \notin m.pending
  <2>1. P # <<>>
    BY <1>2, <1>5, <1>7, <1>10
  <2>2. P \o O # <<>>
    BY <1>6, <2>1
  <2> QED BY <1>3, <1>4, <1>10, <2>2 DEF m
<1> QED BY <1>9, <1>10 DEF m

(* What is not a first root stays where it is. *)
RestKept(e, t) == Sift(Done(e, t).out, DOMAIN e).rest = Sift(t, Hostnames).rest

LEMMA RestMerged ==
  ASSUME NEW e, Desired(e), KnownOnly(e), NEW t \in Seq(Rule)
  PROVE  RestKept(e, t)
<1> DEFINE S == {u \in Seq(Rule) : RestKept(e, u)}
           D == DOMAIN e
<1>1. D \in SUBSET Hostnames /\ Hostnames \in SUBSET Hostnames
  BY DEF Desired
<1>2. <<>> \in S
  <2>1. Done(e, <<>>).out = <<>>
    BY DoneNone DEF MergeStart
  <2>2. RestKept(e, <<>>)
    BY <2>1, SiftNone DEF RestKept
  <2> QED BY <2>2, EmptyHolds
<1>3. ASSUME NEW u \in Seq(Rule), NEW r \in Rule, u \in S PROVE Append(u, r) \in S
  <2> DEFINE m == Done(e, u)
             d == Done(e, Append(u, r))
             q == SortedRoots(e, m.pending)
             rest == Sift(u, Hostnames).rest
  <2>1. Books(e, u) /\ Stepped(e, m, d, r)
    BY BooksHold, DoneStep
  <2>2. /\ m.out \in Seq(Rule) /\ m.seen = HostsIn(u)
        /\ m.pending = IF HasHostless(u) THEN {} ELSE D \ HostsIn(u)
    BY <2>1 DEF Books
  <2>3. m.pending \in SUBSET DOMAIN e
    BY <2>2
  <2>4. q \in Seq(Rule) /\ OneEach(q) /\ HostsIn(q) = m.pending
    BY <2>3, Inserted
  <2>5. Sift(m.out, D).rest = rest
    BY <1>3 DEF RestKept
  <2>6. \A h \in D : h \in HostsIn(m.out) <=> h \notin m.pending
    BY OutHosts
  <2>7. Sift(Append(u, r), Hostnames).rest =
          IF IsRoot(r) /\ r.host \in Hostnames \ HostsIn(u) THEN rest ELSE Append(rest, r)
    BY <1>1, SiftRest
  <2> SUFFICES Sift(d.out, D).rest = Sift(Append(u, r), Hostnames).rest
    BY AppendIs DEF RestKept
  <2> HIDE DEF m, d, q, rest, D
  <2>8. CASE Hostless(r)
    <3>1. d.out = Append(m.out \o q, r)
      BY <2>1, <2>8 DEF Stepped, q
    <3>2. m.out \o q \in Seq(Rule) /\ ~IsRoot(r)
      BY <2>2, <2>4, <2>8 DEF IsRoot
    <3>3. HostsIn(q) \subseteq D \ HostsIn(m.out)
      BY <2>3, <2>4, <2>6 DEF D
    <3>4. Sift(m.out \o q, D).rest = rest
      BY <1>1, <2>2, <2>4, <2>5, <3>3, SiftOneEach
    <3>5. Sift(Append(m.out \o q, r), D).rest =
            IF IsRoot(r) /\ r.host \in D \ HostsIn(m.out \o q) THEN Sift(m.out \o q, D).rest
            ELSE Append(Sift(m.out \o q, D).rest, r)
      BY <1>1, <3>2, SiftRest
    <3>6. Sift(d.out, D).rest = Append(rest, r)
      BY <3>1, <3>2, <3>4, <3>5
    <3> QED BY <2>7, <3>2, <3>6
  <2>9. CASE ~Hostless(r) /\ (r.path \/ r.host \in m.seen)
    <3>1. d.out = Append(m.out, r)
      BY <2>1, <2>9 DEF Stepped
    <3>2. ~(IsRoot(r) /\ r.host \in D \ HostsIn(m.out))
      BY <2>2, <2>6, <2>9 DEF IsRoot
    <3>3. ~(IsRoot(r) /\ r.host \in Hostnames \ HostsIn(u))
      BY <2>2, <2>9 DEF IsRoot
    <3>4. Sift(Append(m.out, r), D).rest =
            IF IsRoot(r) /\ r.host \in D \ HostsIn(m.out) THEN Sift(m.out, D).rest
                                                          ELSE Append(Sift(m.out, D).rest, r)
      BY <1>1, <2>2, SiftRest
    <3>5. Sift(d.out, D).rest = Append(rest, r)
      BY <2>5, <3>1, <3>2, <3>4
    <3> QED BY <2>7, <3>3, <3>5
  <2>10. CASE IsRoot(r) /\ r.host \notin m.seen
    <3>1. Sift(Append(u, r), Hostnames).rest = rest
      BY <2>2, <2>7, <2>10, RootHost
    <3>2. d.out = IF r.host \in m.pending THEN Append(m.out, Replacement(r, e[r.host])) ELSE m.out
      BY <2>1, <2>10 DEF Stepped
    <3>3. CASE r.host \in m.pending
      <4> DEFINE w == Replacement(r, e[r.host])
      <4>1. e[r.host] \in Origin
        BY <2>3, <3>3 DEF Desired
      <4>2. w \in Rule /\ IsRoot(w) /\ w.host = r.host
        BY <2>10, <4>1, ReplacementIs
      <4>3. r.host \in D \ HostsIn(m.out)
        BY <2>3, <2>6, <3>3 DEF D
      <4> HIDE DEF w
      <4>4. d.out = Append(m.out, w)
        BY <3>2, <3>3 DEF w
      <4>5. Sift(d.out, D).rest = rest
        BY <1>1, <2>2, <2>5, <4>2, <4>3, <4>4, SiftRest
      <4> QED BY <3>1, <4>5
    <3>4. CASE r.host \notin m.pending
      BY <2>5, <3>1, <3>2, <3>4
    <3> QED BY <3>3, <3>4
  <2> QED BY <2>8, <2>9, <2>10 DEF IsRoot
<1> HIDE DEF S
<1>4. Seq(Rule) \subseteq S
  BY <1>2, <1>3, SequencesByInduction
<1> QED BY <1>4 DEF S

LEMMA ReachedAppend ==
  ASSUME NEW h, NEW x \in Seq(Rule), NEW r \in Rule, Reached(x, h)
  PROVE  Reached(Append(x, r), h)
<1>1. <<r>> \in Seq(Rule) /\ x \o <<r>> = Append(x, r)
  OBVIOUS
<1>2. Reached(x \o <<r>>, h)
  BY <1>1, ReachedFurther
<1> QED BY <1>1, <1>2

(* Every host placed has a root that no rule without a hostname precedes. *)
PlacedReached(e, t) == \A h \in DOMAIN e \ Done(e, t).pending : Reached(Done(e, t).out, h)

LEMMA ReachedMerged ==
  ASSUME NEW e, Desired(e), NEW t \in Seq(Rule)
  PROVE  PlacedReached(e, t)
<1> DEFINE S == {u \in Seq(Rule) : PlacedReached(e, u)}
<1>1. <<>> \in S
  <2>1. Done(e, <<>>).pending = DOMAIN e
    BY DoneNone DEF MergeStart
  <2>2. PlacedReached(e, <<>>)
    BY <2>1 DEF PlacedReached
  <2> QED BY <2>2, EmptyHolds
<1>2. ASSUME NEW u \in Seq(Rule), NEW r \in Rule, u \in S PROVE Append(u, r) \in S
  <2> DEFINE m == Done(e, u)
             d == Done(e, Append(u, r))
             q == SortedRoots(e, m.pending)
  <2>1. Books(e, u) /\ Stepped(e, m, d, r)
    BY BooksHold, DoneStep
  <2>2. /\ m.out \in Seq(Rule) /\ m.seen = HostsIn(u)
        /\ m.pending = IF HasHostless(u) THEN {} ELSE DOMAIN e \ HostsIn(u)
        /\ HasHostless(m.out) <=> HasHostless(u)
    BY <2>1 DEF Books
  <2>3. m.pending \in SUBSET DOMAIN e
    BY <2>2
  <2>4. /\ q \in Seq(Rule) /\ ~HasHostless(q)
        /\ \A h \in m.pending : RootsOf(q, h) = <<NewRoot(h, e[h])>>
    BY <2>3, Inserted
  <2>5. \A h \in DOMAIN e \ m.pending : Reached(m.out, h)
    BY <1>2 DEF PlacedReached
  <2> SUFFICES ASSUME NEW h \in DOMAIN e \ d.pending PROVE Reached(d.out, h)
    BY AppendIs DEF PlacedReached
  <2>6. h \in Hostnames
    BY DEF Desired
  <2> HIDE DEF m, d, q
  <2>7. CASE Hostless(r)
    <3>1. d.out = Append(m.out \o q, r)
      BY <2>1, <2>7 DEF Stepped, q
    <3>2. m.out \o q \in Seq(Rule)
      BY <2>2, <2>4
    <3>3. CASE h \notin m.pending
      <4>1. Reached(m.out, h)
        BY <2>5, <3>3
      <4>2. Reached(m.out \o q, h)
        BY <2>2, <2>4, <4>1, ReachedFurther
      <4> QED BY <3>1, <3>2, <4>2, ReachedAppend
    <3>4. CASE h \in m.pending
      <4>1. ~HasHostless(m.out \o q)
        BY <2>2, <2>4, <3>4, HostlessConcat
      <4>2. RootsOf(q, h) = <<NewRoot(h, e[h])>>
        BY <2>4, <3>4
      <4>3. RootsOf(m.out \o q, h) = RootsOf(m.out, h) \o RootsOf(q, h)
        BY <2>2, <2>4, RootsOfConcat
      <4>4. RootsOf(m.out \o q, h) = RootsOf(m.out, h) \o <<NewRoot(h, e[h])>>
        BY <4>2, <4>3
      <4>5. RootsOf(m.out, h) \in Seq(Rule) /\ NewRoot(h, e[h]) \in Rule
        BY <2>2, <2>3, <2>6, <3>4, RootsTyped, NewRootTyped DEF Desired
      <4>6. RootsOf(m.out, h) \o <<NewRoot(h, e[h])>> # <<>>
        BY <4>5
      <4>7. h \in HostsIn(m.out \o q)
        BY <2>6, <3>2, <4>4, <4>6, RootsNone
      <4>8. Reached(m.out \o q, h)
        BY <2>6, <3>2, <4>1, <4>7, ReachedNow
      <4> QED BY <3>1, <3>2, <4>8, ReachedAppend
    <3> QED BY <3>3, <3>4
  <2>8. CASE ~Hostless(r) /\ (r.path \/ r.host \in m.seen)
    <3>1. d.out = Append(m.out, r) /\ d.pending = m.pending
      BY <2>1, <2>8 DEF Stepped
    <3>2. Reached(m.out, h)
      BY <2>5, <3>1
    <3> QED BY <2>2, <3>1, <3>2, ReachedAppend
  <2>9. CASE IsRoot(r) /\ r.host \notin m.seen
    <3>1. /\ d.pending = m.pending \ {r.host}
          /\ d.out = IF r.host \in m.pending THEN Append(m.out, Replacement(r, e[r.host])) ELSE m.out
      BY <2>1, <2>9 DEF Stepped
    <3>2. CASE r.host \in m.pending
      <4> DEFINE w == Replacement(r, e[r.host])
      <4>1. e[r.host] \in Origin
        BY <2>3, <3>2 DEF Desired
      <4>2. w \in Rule /\ IsRoot(w) /\ w.host = r.host
        BY <2>9, <4>1, ReplacementIs
      <4> HIDE DEF w
      <4>3. d.out = Append(m.out, w)
        BY <3>1, <3>2 DEF w
      <4>4. CASE h \notin m.pending
        <5>1. Reached(m.out, h)
          BY <2>5, <4>4
        <5> QED BY <2>2, <4>2, <4>3, <5>1, ReachedAppend
      <4>5. CASE h \in m.pending
        <5>1. h = r.host /\ ~HasHostless(m.out)
          BY <2>2, <3>1, <4>5
        <5>2. ~HasHostless(d.out)
          BY <2>2, <4>2, <4>3, <5>1, HostlessAppend DEF IsRoot
        <5>3. h \in HostsIn(d.out)
          BY <2>2, <4>2, <4>3, <5>1, HostsAppend
        <5>4. d.out \in Seq(Rule)
          BY <2>2, <4>2, <4>3
        <5> QED BY <2>6, <5>2, <5>3, <5>4, ReachedNow
      <4> QED BY <4>4, <4>5
    <3>3. CASE r.host \notin m.pending
      BY <2>5, <3>1, <3>3
    <3> QED BY <3>2, <3>3
  <2> QED BY <2>7, <2>8, <2>9 DEF IsRoot
<1> HIDE DEF S
<1>3. Seq(Rule) \subseteq S
  BY <1>1, <1>2, SequencesByInduction
<1> QED BY <1>3 DEF S
-----------------------------------------------------------------------------
(***************************************************************************)
(* A table that ends in the catch-all; the empty table is merged like the  *)
(* one that holds nothing else.                                            *)
(***************************************************************************)
EndsInCatchAll(t) == \E u \in Seq(Rule) : t = Append(u, CatchAll)

Closed(t) == IF t = <<>> THEN <<CatchAll>> ELSE t

LEMMA CatchAllTyped == CatchAll \in Rule /\ Hostless(CatchAll) /\ ~IsRoot(CatchAll)
BY DEF CatchAll, Rule, Hostless, IsRoot

LEMMA ClosedEnds ==
  ASSUME NEW t, t = <<>> \/ EndsInCatchAll(t)
  PROVE  \E u \in Seq(Rule) :
           /\ Closed(t) = Append(u, CatchAll)
           /\ (t = <<>> /\ u = <<>>) \/ t = Closed(t)
<1>1. CASE t = <<>>
  <2>1. Append(<<>>, CatchAll) = <<CatchAll>> /\ <<>> \in Seq(Rule)
    OBVIOUS
  <2> QED BY <1>1, <2>1 DEF Closed
<1>2. CASE t # <<>>
  BY <1>2 DEF Closed, EndsInCatchAll
<1> QED BY <1>1, <1>2

(* A table with a rule without a hostname leaves nothing to add at its end.*)
LEMMA FinishedIs ==
  ASSUME NEW e, Desired(e), NEW m \in States(e), m.pending = {}, HasHostless(m.out)
  PROVE  Finished(e, m) = m.out
<1>1. m.out \in Seq(Rule)
  BY DEF States
<1>2. SortedRoots(e, m.pending) = <<>>
  BY NothingToList
<1>3. m.out \o SortedRoots(e, m.pending) = m.out
  BY <1>1, <1>2
<1> QED BY <1>3 DEF Finished, HasHostless

(* The merge of a table is what the loop makes of it. *)
LEMMA MergeIs ==
  ASSUME NEW e, Desired(e), NEW t, t = <<>> \/ EndsInCatchAll(t)
  PROVE  /\ Closed(t) \in Seq(Rule) /\ HasHostless(Closed(t))
         /\ MergeIngress(t, e) = Done(e, Closed(t)).out
         /\ Done(e, Closed(t)).pending = {}
         /\ EndsInCatchAll(MergeIngress(t, e))
<1> DEFINE x == Closed(t)
<1>1. PICK u \in Seq(Rule) : x = Append(u, CatchAll) /\ ((t = <<>> /\ u = <<>>) \/ t = x)
  BY ClosedEnds
<1> HIDE DEF x
<1>2. x \in Seq(Rule) /\ HasHostless(x)
  BY <1>1, CatchAllTyped, AppendIs, HostlessAppend
<1> DEFINE m == Done(e, u)
           d == Done(e, x)
           q == SortedRoots(e, m.pending)
<1>3. Stepped(e, m, d, CatchAll)
  BY <1>1, CatchAllTyped, DoneStep
<1>4. d.pending = {} /\ d.out = Append(m.out \o q, CatchAll)
  BY <1>3, CatchAllTyped DEF Stepped
<1>5. d \in States(e) /\ Books(e, x) /\ Books(e, u)
  BY <1>2, DoneTyped, BooksHold
<1>6. /\ HasHostless(d.out) /\ m.out \in Seq(Rule)
      /\ m.pending = IF HasHostless(u) THEN {} ELSE DOMAIN e \ HostsIn(u)
  BY <1>2, <1>5 DEF Books
<1>7. m.pending \in SUBSET DOMAIN e
  BY <1>6
<1>8. q \in Seq(Rule) /\ ~HasHostless(q)
  BY <1>7, Inserted
<1>9. MergeIngress(t, e) = d.out
  <2>1. CASE t = x
    <3>1. MergeIngress(t, e) = Finished(e, d)
      BY <1>2, <2>1, MergeBySteps
    <3> QED BY <1>4, <1>5, <1>6, <3>1, FinishedIs
  <2>2. CASE t = <<>> /\ u = <<>>
    <3>1. MergeIngress(t, e) = Finished(e, m)
      BY <2>2, MergeBySteps
    <3>2. m = [out |-> <<>>, pending |-> DOMAIN e, seen |-> {}]
      BY <2>2, DoneNone DEF MergeStart
    <3>3. m.out = <<>>
      BY <3>2
    <3>4. m.out \o q = q
      BY <1>8, <3>3
    <3> HIDE DEF m
    <3>5. Finished(e, m) = IF HasHostless(m.out \o q) THEN m.out \o q ELSE Append(m.out \o q, CatchAll)
      BY DEF Finished, HasHostless
    <3> QED BY <1>4, <1>8, <3>1, <3>4, <3>5
  <2> QED BY <1>1, <2>1, <2>2
<1>10. EndsInCatchAll(d.out)
  <2>1. m.out \o q \in Seq(Rule)
    BY <1>6, <1>8
  <2> QED BY <1>4, <2>1 DEF EndsInCatchAll
<1> QED BY <1>2, <1>4, <1>9, <1>10 DEF x
-----------------------------------------------------------------------------
(***************************************************************************)
(* What the planner and the tunnel hand to a merge.                        *)
(***************************************************************************)
MergeSpec == MergeInit /\ [][MergeNext]_mergeVars

MergeTyped ==
  /\ table = <<>> \/ EndsInCatchAll(table)
  /\ Desired(desired) /\ KnownOnly(desired)

LEMMA FrontLast ==
  ASSUME NEW u \in Seq(Rule), NEW c \in Rule, NEW r \in Rule
  PROVE  Front(Append(u, c)) \o <<r, Last(Append(u, c))>> = Append(Append(u, r), c)
<1> DEFINE x == Append(u, c)
<1>1. Len(x) = Len(u) + 1 /\ x \in Seq(Rule) /\ Len(u) \in Nat
  OBVIOUS
<1>2. Last(x) = c
  BY <1>1 DEF Last
<1>3. Front(x) = u
  <2>1. Front(x) = SubSeq(x, 1, Len(u))
    BY <1>1 DEF Front
  <2> QED BY <2>1
<1> HIDE DEF x
<1>4. u \o <<r, c>> = Append(Append(u, r), c)
  OBVIOUS
<1> QED BY <1>2, <1>3, <1>4 DEF x

LEMMA MergeTypedHolds == MergeSpec => []MergeTyped
<1>1. MergeInit => MergeTyped
  <2> SUFFICES ASSUME MergeInit PROVE MergeTyped
    OBVIOUS
  <2>1. <<CatchAll>> = Append(<<>>, CatchAll) /\ <<>> \in Seq(Rule)
    OBVIOUS
  <2>2. table = <<>> \/ EndsInCatchAll(table)
    BY <2>1 DEF MergeInit, EndsInCatchAll
  <2>3. DOMAIN desired = {}
    BY DEF MergeInit
  <2>4. Desired(desired) /\ KnownOnly(desired)
    BY <2>3, FS_EmptySet DEF Desired, KnownOnly
  <2> QED BY <2>2, <2>4 DEF MergeTyped
<1>2. MergeTyped /\ [MergeNext]_mergeVars => MergeTyped'
  <2> SUFFICES ASSUME MergeTyped, [MergeNext]_mergeVars PROVE MergeTyped'
    OBVIOUS
  <2> USE DEF MergeTyped
  <2>1. CASE AddRule
    <3>1. PICK r \in Rule : table' = Front(table) \o <<r, Last(table)>>
      BY <2>1 DEF AddRule
    <3>2. PICK u \in Seq(Rule) : table = Append(u, CatchAll)
      BY <2>1 DEF AddRule, EndsInCatchAll
    <3>3. table' = Append(Append(u, r), CatchAll)
      BY <3>1, <3>2, CatchAllTyped, FrontLast
    <3>4. Append(u, r) \in Seq(Rule)
      OBVIOUS
    <3>5. EndsInCatchAll(table')
      BY <3>3, <3>4 DEF EndsInCatchAll
    <3> QED BY <2>1, <3>5 DEF AddRule
  <2>2. CASE AddDesired
    <3>1. PICK h \in Hostnames \ DOMAIN desired,
               o \in [service : Targets, req : Reqs \cup {NoReq}, extra : {FALSE}] :
            desired' = [g \in DOMAIN desired \cup {h} |-> IF g = h THEN o ELSE desired[g]]
      BY <2>2 DEF AddDesired
    <3>2. o \in Origin /\ o.extra = FALSE
      BY DEF Origin
    <3>3. DOMAIN desired' = DOMAIN desired \cup {h}
      BY <3>1
    <3>4. \A g \in DOMAIN desired' : desired'[g] = IF g = h THEN o ELSE desired[g]
      BY <3>1
    <3>5. IsFiniteSet(DOMAIN desired \cup {h})
      BY FS_AddElement DEF Desired
    <3>6. Desired(desired') /\ KnownOnly(desired')
      BY <3>2, <3>3, <3>4, <3>5 DEF Desired, KnownOnly
    <3> QED BY <2>2, <3>6 DEF AddDesired
  <2>3. CASE UNCHANGED mergeVars
    BY <2>3 DEF mergeVars
  <2> QED BY <2>1, <2>2, <2>3 DEF MergeNext
<1> QED BY <1>1, <1>2, PTL DEF MergeSpec
-----------------------------------------------------------------------------
(* What holds of a merge of a table and desired roots of these shapes. *)
LEMMA MergedIs ==
  ASSUME MergeTyped
  PROVE  /\ Closed(table) \in Seq(Rule) /\ HasHostless(Closed(table))
         /\ Merged = Done(desired, Closed(table)).out
         /\ Done(desired, Closed(table)).pending = {}
         /\ EndsInCatchAll(Merged)
BY MergeIs DEF MergeTyped, Merged

LEMMA ClosedRoots ==
  ASSUME MergeTyped, NEW h \in Hostnames
  PROVE  /\ RootsOf(Closed(table), h) = RootsOf(table, h)
         /\ BehindIn(Closed(table), h) <=> Behind(h)
<1>1. PICK u \in Seq(Rule) :
        /\ Closed(table) = Append(u, CatchAll)
        /\ (table = <<>> /\ u = <<>>) \/ table = Closed(table)
  BY ClosedEnds DEF MergeTyped
<1>2. BehindIn(table, h) <=> Behind(h)
  BY DEF BehindIn, Behind
<1>3. RootsOf(Closed(table), h) = RootsOf(u, h)
  BY <1>1, CatchAllTyped, RootsOfAppend
<1>4. BehindIn(Closed(table), h) <=> BehindIn(u, h)
  BY <1>1, CatchAllTyped, BehindAppend
<1> QED BY <1>1, <1>2, <1>3, <1>4

LEMMA RootsAsPlannedOf ==
  ASSUME MergeTyped
  PROVE  RootsAsPlanned
<1> SUFFICES ASSUME NEW h \in Hostnames
             PROVE  RootsOf(Merged, h) =
                      (IF h \notin DOMAIN desired THEN <<>>
                       ELSE IF RootsOf(table, h) = <<>> THEN <<NewRoot(h, desired[h])>>
                       ELSE <<[NewRoot(h, desired[h]) EXCEPT
                                 !.extra = RootsOf(table, h)[1].extra /\ ~Behind(h)]>>)
                        \o (IF RootsOf(table, h) = <<>> THEN <<>> ELSE Tail(RootsOf(table, h)))
  BY DEF RootsAsPlanned
<1> DEFINE x == Closed(table)
<1>1. /\ x \in Seq(Rule) /\ HasHostless(x) /\ Merged = Done(desired, x).out
      /\ RootsOf(x, h) = RootsOf(table, h) /\ (BehindIn(x, h) <=> Behind(h))
  BY MergedIs, ClosedRoots
<1>2. RootsOf(Merged, h) = Placed(desired, x, h) \o Others(x, h)
  BY <1>1, RootsMerged DEF RootsKept, MergeTyped
<1> HIDE DEF x
<1>3. Others(x, h) = IF RootsOf(table, h) = <<>> THEN <<>> ELSE Tail(RootsOf(table, h))
  BY <1>1 DEF Others
<1>4. (RootsOf(x, h)[1].extra /\ ~BehindIn(x, h)) = (RootsOf(table, h)[1].extra /\ ~Behind(h))
  BY <1>1
<1>5. Placed(desired, x, h) =
        IF h \notin DOMAIN desired THEN <<>>
        ELSE IF RootsOf(table, h) = <<>> THEN <<NewRoot(h, desired[h])>>
        ELSE <<RootWith(h, desired[h], RootsOf(table, h)[1].extra /\ ~Behind(h))>>
  BY <1>1, <1>4 DEF Placed
<1> QED BY <1>2, <1>3, <1>5 DEF RootWith

LEMMA RestKeptInOrderOf ==
  ASSUME MergeTyped
  PROVE  RestKeptInOrder
<1> DEFINE x == Closed(table)
<1>1. PICK u \in Seq(Rule) :
        x = Append(u, CatchAll) /\ ((table = <<>> /\ u = <<>>) \/ table = x)
  BY ClosedEnds DEF MergeTyped
<1>2. x \in Seq(Rule) /\ HasHostless(x) /\ Merged = Done(desired, x).out /\ EndsInCatchAll(Merged)
  BY MergedIs
<1>3. Sift(Merged, DOMAIN desired).rest = Sift(x, Hostnames).rest
  BY <1>2, RestMerged DEF RestKept, MergeTyped
<1>4. Merged \in Seq(Rule) /\ table \in Seq(Rule)
  <2>1. PICK v \in Seq(Rule) : Merged = Append(v, CatchAll)
    BY <1>2 DEF EndsInCatchAll
  <2>2. Merged \in Seq(Rule)
    BY <2>1, CatchAllTyped, AppendIs
  <2> QED BY <1>1, <1>2, <2>2
<1>5. /\ WithoutFirstRoots(Merged, DOMAIN desired) = Sift(Merged, DOMAIN desired).rest
      /\ WithoutFirstRoots(table, Hostnames) = Sift(table, Hostnames).rest
  BY <1>4, SiftBySteps
<1>6. Sift(x, Hostnames).rest =
        Sift(table, Hostnames).rest \o (IF HasHostless(table) THEN <<>> ELSE <<CatchAll>>)
  <2>1. CASE table = x
    <3>1. Sift(table, Hostnames).rest \in Seq(Rule)
      BY <1>4, SiftTyped DEF Sifted
    <3>2. Sift(table, Hostnames).rest \o <<>> = Sift(table, Hostnames).rest
      BY <3>1
    <3> QED BY <1>2, <2>1, <3>2
  <2>2. CASE table = <<>> /\ u = <<>>
    <3>1. Sift(u, Hostnames).rest = <<>> /\ ~HasHostless(table)
      BY <2>2, SiftNone, EmptyHolds DEF SiftStart
    <3>2. Sift(x, Hostnames).rest = Append(<<>>, CatchAll)
      BY <1>1, <3>1, CatchAllTyped, SiftRest
    <3>3. Append(<<>>, CatchAll) = <<>> \o <<CatchAll>>
      OBVIOUS
    <3> QED BY <2>2, <3>1, <3>2, <3>3
  <2> QED BY <1>1, <2>1, <2>2
<1> QED BY <1>3, <1>5, <1>6 DEF RestKeptInOrder, HasHostless

LEMMA DesiredRootsReachableOf ==
  ASSUME MergeTyped
  PROVE  DesiredRootsReachable
<1> DEFINE x == Closed(table)
<1>1. /\ x \in Seq(Rule) /\ Merged = Done(desired, x).out /\ Done(desired, x).pending = {}
      /\ EndsInCatchAll(Merged)
  BY MergedIs
<1>2. Merged # <<>> /\ Last(Merged) = CatchAll
  <2>1. PICK u \in Seq(Rule) : Merged = Append(u, CatchAll)
    BY <1>1 DEF EndsInCatchAll
  <2>2. Append(u, CatchAll) # <<>> /\ Len(Append(u, CatchAll)) = Len(u) + 1
        /\ Append(u, CatchAll)[Len(u) + 1] = CatchAll
    OBVIOUS
  <2> QED BY <2>1, <2>2 DEF Last
<1>3. PlacedReached(desired, x)
  BY <1>1, ReachedMerged DEF MergeTyped
<1>4. \A h \in DOMAIN desired : Reached(Merged, h)
  BY <1>1, <1>3 DEF PlacedReached
<1> QED BY <1>2, <1>4 DEF DesiredRootsReachable, Reached
-----------------------------------------------------------------------------
(***************************************************************************)
(* A second merge.  A table is settled for the desired roots when the      *)
(* first root of each host is already the desired one and every desired    *)
(* host is placed; the merge gives such a table back.                      *)
(***************************************************************************)
IsFirst(x, i) ==
  IsRoot(x[i]) /\ \A k \in 1 .. i - 1 : ~(IsRoot(x[k]) /\ x[k].host = x[i].host)

Agrees(e, r) == r.host \in DOMAIN e /\ Replacement(r, e[r.host]) = r

Settled(e, x) ==
  /\ EndsInCatchAll(x)
  /\ \A i \in DOMAIN x : IsFirst(x, i) => Agrees(e, x[i])
  /\ \A h \in DOMAIN e : Reached(x, h)

StartOf(q, x) == Len(q) <= Len(x) /\ \A i \in DOMAIN q : q[i] = x[i]

(* A root that is reached is among the rules up to one without a hostname. *)
LEMMA ReachedBefore ==
  ASSUME NEW h \in Hostnames, NEW x \in Seq(Rule), NEW q \in Seq(Rule), StartOf(q, x),
         Reached(x, h),
         \/ HasHostless(q)
         \/ Len(q) + 1 \in DOMAIN x /\ Hostless(x[Len(q) + 1])
  PROVE  h \in HostsIn(q)
<1>1. PICK i \in DOMAIN x : IsRoot(x[i]) /\ x[i].host = h /\ \A j \in 1 .. i : ~Hostless(x[j])
  BY DEF Reached
<1>2. Len(q) \in Nat /\ DOMAIN q = 1 .. Len(q) /\ DOMAIN x = 1 .. Len(x) /\ Len(x) \in Nat
  OBVIOUS
<1>3. PICK j \in 1 .. (Len(q) + 1) : Hostless(x[j])
  <2>1. CASE HasHostless(q)
    <3>1. PICK j \in DOMAIN q : Hostless(q[j])
      BY <2>1 DEF HasHostless
    <3>2. j \in 1 .. (Len(q) + 1) /\ x[j] = q[j]
      BY <1>2 DEF StartOf
    <3> QED BY <3>1, <3>2
  <2>2. CASE Hostless(x[Len(q) + 1])
    <3>1. Len(q) + 1 \in 1 .. (Len(q) + 1)
      BY <1>2
    <3> QED BY <2>2, <3>1
  <2> QED BY <2>1, <2>2
<1>4. i < j
  BY <1>1, <1>2, <1>3
<1>5. i \in DOMAIN q /\ q[i] = x[i]
  BY <1>2, <1>3, <1>4 DEF StartOf
<1> QED BY <1>1, <1>5 DEF HostsIn

LEMMA FirstAtEnd ==
  ASSUME NEW x \in Seq(Rule), NEW u \in Seq(Rule), NEW r \in Rule, StartOf(Append(u, r), x),
         IsRoot(r), r.host \notin HostsIn(u)
  PROVE  \E i \in DOMAIN x : x[i] = r /\ IsFirst(x, i)
<1> DEFINE n == Len(u) + 1
           v == Append(u, r)
<1>1. /\ Len(u) \in Nat /\ DOMAIN u = 1 .. Len(u) /\ n \in DOMAIN v /\ v[n] = r /\ Len(v) = n
      /\ \A k \in DOMAIN u : k \in DOMAIN v /\ v[k] = u[k]
  OBVIOUS
<1>2. Len(v) <= Len(x) /\ \A i \in DOMAIN v : v[i] = x[i]
  BY DEF StartOf
<1> HIDE DEF v
<1>3. n \in DOMAIN x /\ x[n] = r
  BY <1>1, <1>2
<1>4. ASSUME NEW k \in 1 .. n - 1 PROVE ~(IsRoot(x[k]) /\ x[k].host = r.host)
  <2>1. k \in DOMAIN u /\ x[k] = u[k] /\ u[k] \in Rule
    BY <1>1, <1>2
  <2>2. IsRoot(u[k]) => u[k].host \in HostsIn(u)
    BY <2>1, RootHost DEF HostsIn
  <2> QED BY <2>1, <2>2
<1>5. IsFirst(x, n)
  BY <1>3, <1>4 DEF IsFirst
<1> QED BY <1>3, <1>5

Same(e, x, q) == StartOf(q, x) => Done(e, q).out = q

LEMMA SettledStays ==
  ASSUME NEW e, Desired(e), NEW x \in Seq(Rule), Settled(e, x), NEW q \in Seq(Rule)
  PROVE  Same(e, x, q)
<1> DEFINE S == {u \in Seq(Rule) : Same(e, x, u)}
<1>1. <<>> \in S
  <2>1. Done(e, <<>>).out = <<>>
    BY DoneNone DEF MergeStart
  <2>2. Same(e, x, <<>>)
    BY <2>1 DEF Same
  <2> QED BY <2>2, EmptyHolds
<1>2. ASSUME NEW u \in Seq(Rule), NEW r \in Rule, u \in S PROVE Append(u, r) \in S
  <2> DEFINE m == Done(e, u)
             d == Done(e, Append(u, r))
  <2> SUFFICES ASSUME StartOf(Append(u, r), x) PROVE d.out = Append(u, r)
    BY AppendIs DEF Same
  <2>1. StartOf(u, x) /\ Len(u) + 1 \in DOMAIN x /\ x[Len(u) + 1] = r
    BY AppendIs DEF StartOf
  <2>2. m.out = u
    BY <1>2, <2>1 DEF Same
  <2>3. Stepped(e, m, d, r) /\ Books(e, u)
    BY DoneStep, BooksHold
  <2>4. /\ m.seen = HostsIn(u)
        /\ m.pending = IF HasHostless(u) THEN {} ELSE DOMAIN e \ HostsIn(u)
    BY <2>3 DEF Books
  <2>5. \A h \in DOMAIN e : h \in Hostnames /\ Reached(x, h)
    BY DEF Settled, Desired
  <2> HIDE DEF m, d
  <2>6. CASE Hostless(r)
    <3>1. ASSUME NEW h \in DOMAIN e PROVE h \in HostsIn(u)
      BY <2>1, <2>5, <2>6, ReachedBefore
    <3>2. m.pending = {}
      BY <2>4, <3>1
    <3>3. SortedRoots(e, m.pending) = <<>>
      BY <3>2, NothingToList
    <3>4. d.out = Append(m.out \o SortedRoots(e, m.pending), r)
      BY <2>3, <2>6 DEF Stepped
    <3>5. u \o <<>> = u
      OBVIOUS
    <3> QED BY <2>2, <3>3, <3>4, <3>5
  <2>7. CASE ~Hostless(r) /\ (r.path \/ r.host \in m.seen)
    BY <2>2, <2>3, <2>7 DEF Stepped
  <2>8. CASE IsRoot(r) /\ r.host \notin m.seen
    <3>1. PICK i \in DOMAIN x : x[i] = r /\ IsFirst(x, i)
      BY <2>4, <2>8, FirstAtEnd
    <3>2. Agrees(e, r)
      BY <3>1 DEF Settled
    <3>3. r.host \in DOMAIN e /\ Replacement(r, e[r.host]) = r
      BY <3>2 DEF Agrees
    <3>4. r.host \in m.pending
      <4>1. HasHostless(u) => r.host \in HostsIn(u)
        BY <2>1, <2>5, <3>3, ReachedBefore
      <4> QED BY <2>4, <2>8, <3>3, <4>1
    <3>5. d.out = Append(m.out, Replacement(r, e[r.host]))
      BY <2>3, <2>8, <3>4 DEF Stepped
    <3> QED BY <2>2, <3>3, <3>5
  <2> QED BY <2>6, <2>7, <2>8 DEF IsRoot
<1> HIDE DEF S
<1>3. Seq(Rule) \subseteq S
  BY <1>1, <1>2, SequencesByInduction
<1> QED BY <1>3 DEF S

LEMMA SettledMerge ==
  ASSUME NEW e, Desired(e), NEW x \in Seq(Rule), Settled(e, x)
  PROVE  MergeIngress(x, e) = x
<1>1. x # <<>>
  BY DEF Settled, EndsInCatchAll
<1>2. Closed(x) = x /\ EndsInCatchAll(x)
  BY <1>1 DEF Closed, Settled
<1>3. MergeIngress(x, e) = Done(e, x).out
  BY <1>2, MergeIs
<1>4. StartOf(x, x)
  BY DEF StartOf
<1>5. Same(e, x, x)
  BY SettledStays
<1> QED BY <1>3, <1>4, <1>5 DEF Same
-----------------------------------------------------------------------------
(* The first root of a host is the first of its roots. *)
FirstRoots(x) ==
  \A i \in DOMAIN x : IsFirst(x, i) =>
    RootsOf(x, x[i].host) # <<>> /\ RootsOf(x, x[i].host)[1] = x[i]

LEMMA FirstRootsHold ==
  ASSUME NEW x \in Seq(Rule)
  PROVE  FirstRoots(x)
<1> DEFINE S == {u \in Seq(Rule) : FirstRoots(u)}
<1>1. <<>> \in S
  BY EmptyHolds DEF FirstRoots
<1>2. ASSUME NEW u \in Seq(Rule), NEW r \in Rule, u \in S PROVE Append(u, r) \in S
  <2> DEFINE v == Append(u, r)
             n == Len(u) + 1
  <2>1. /\ v \in Seq(Rule) /\ Len(u) \in Nat /\ DOMAIN u = 1 .. Len(u) /\ v[n] = r
        /\ DOMAIN v = 1 .. n /\ \A k \in DOMAIN u : v[k] = u[k]
    OBVIOUS
  <2> HIDE DEF v
  <2> SUFFICES ASSUME NEW i \in DOMAIN v, IsFirst(v, i)
               PROVE  RootsOf(v, v[i].host) # <<>> /\ RootsOf(v, v[i].host)[1] = v[i]
    BY <2>1 DEF FirstRoots, v
  <2> DEFINE h == v[i].host
             R == RootsOf(u, h)
  <2>2. R \in Seq(Rule)
    BY RootsTyped
  <2>3. RootsOf(v, h) = IF IsRoot(r) /\ r.host = h THEN Append(R, r) ELSE R
    BY RootsOfAppend DEF v
  <2>4. CASE i \in DOMAIN u
    <3>1. v[i] = u[i] /\ \A k \in 1 .. i - 1 : v[k] = u[k]
      BY <2>1, <2>4
    <3>2. IsFirst(u, i)
      BY <3>1 DEF IsFirst
    <3>3. R # <<>> /\ R[1] = v[i]
      BY <1>2, <2>4, <3>1, <3>2 DEF FirstRoots
    <3>4. Append(R, r) # <<>> /\ Append(R, r)[1] = R[1]
      BY <2>2, <3>3
    <3> HIDE DEF h, R
    <3> QED BY <2>3, <3>3, <3>4 DEF h
  <2>5. CASE i \notin DOMAIN u
    <3>1. i = n /\ v[i] = r /\ IsRoot(r) /\ h = r.host
      BY <2>1, <2>5 DEF IsFirst
    <3>2. \A k \in DOMAIN u : ~(IsRoot(u[k]) /\ u[k].host = h)
      BY <2>1, <3>1 DEF IsFirst
    <3>3. h \in Hostnames /\ h \notin HostsIn(u)
      BY <3>1, <3>2, RootHost DEF HostsIn
    <3>4. R = <<>>
      BY <3>3, RootsNone
    <3>5. Append(<<>>, r) # <<>> /\ Append(<<>>, r)[1] = r
      OBVIOUS
    <3> HIDE DEF h, R
    <3> QED BY <2>3, <3>1, <3>4, <3>5 DEF h
  <2> QED BY <2>4, <2>5
<1> HIDE DEF S
<1>3. Seq(Rule) \subseteq S
  BY <1>1, <1>2, SequencesByInduction
<1> QED BY <1>3 DEF S

(* The index of a table has the first root of each host. *)
Fields(r) == [service |-> r.service, req |-> r.req, extra |-> r.extra]

Indexed(x, h) == \E i \in DOMAIN x : IsFirst(x, i) /\ x[i].host = h /\ RootIndex(x)[h] = Fields(x[i])

LEMMA RootIndexIs ==
  ASSUME NEW x \in Seq(Rule)
  PROVE  DOMAIN RootIndex(x) = HostsIn(x) /\ \A h \in HostsIn(x) : Indexed(x, h)
<1> DEFINE at(h) == {i \in DOMAIN x : IsRoot(x[i]) /\ x[i].host = h}
           first(h) == CHOOSE i \in at(h) : \A j \in at(h) : i <= j
<1>1. RootIndex(x) = [h \in {g \in Hostnames : at(g) # {}} |->
                        [service |-> x[first(h)].service, req |-> x[first(h)].req,
                         extra |-> x[first(h)].extra]]
  BY DEF RootIndex
<1>2. {g \in Hostnames : at(g) # {}} = HostsIn(x)
  BY DEF HostsIn
<1>3. ASSUME NEW h \in HostsIn(x) PROVE Indexed(x, h)
  <2>1. at(h) \in SUBSET Nat /\ at(h) # {}
    BY <1>2, <1>3
  <2>2. \E i \in at(h) : \A j \in at(h) : i <= j
    BY <2>1, LeastNatural
  <2>3. first(h) \in at(h) /\ \A j \in at(h) : first(h) <= j
    BY <2>2
  <2>4. RootIndex(x)[h] = Fields(x[first(h)])
    BY <1>1, <1>2, <1>3 DEF Fields
  <2> DEFINE i == first(h)
  <2> HIDE DEF i
  <2>5. i \in DOMAIN x /\ IsRoot(x[i]) /\ x[i].host = h
    BY <2>3 DEF i
  <2>6. ASSUME NEW k \in 1 .. i - 1 PROVE ~(IsRoot(x[k]) /\ x[k].host = h)
    <3>1. k \in DOMAIN x /\ ~(i <= k)
      BY <2>5
    <3>2. k \notin at(h)
      BY <2>3, <3>1 DEF i
    <3> QED BY <3>1, <3>2
  <2>7. IsFirst(x, i)
    BY <2>5, <2>6 DEF IsFirst
  <2> QED BY <2>4, <2>5, <2>7 DEF Indexed, i
<1>4. DOMAIN RootIndex(x) = HostsIn(x)
  BY <1>1, <1>2
<1> QED BY <1>3, <1>4

LEMMA FirstIsOne ==
  ASSUME NEW x \in Seq(Rule), NEW i \in DOMAIN x, NEW j \in DOMAIN x,
         IsFirst(x, i), IsFirst(x, j), x[i].host = x[j].host
  PROVE  i = j
<1>1. i < j => i \in 1 .. j - 1
  OBVIOUS
<1>2. j < i => j \in 1 .. i - 1
  OBVIOUS
<1>3. i \in Nat /\ j \in Nat
  OBVIOUS
<1> QED BY <1>1, <1>2, <1>3 DEF IsFirst

LEMMA ReplacedByItself ==
  ASSUME NEW r \in Rule
  PROVE  Replacement(r, Fields(r)) = r /\ Fields(r) \in Origin
<1> DEFINE o == Fields(r)
           w == Replacement(r, o)
           x == r.extra \/ o.extra
<1>1. o \in Origin
  BY DEF Fields, Origin, Rule
<1>2. o.service = r.service /\ o.req = r.req /\ o.extra = r.extra
  BY DEF Fields
<1>3. w \in Rule
  BY <1>1, ReplacementTyped
<1>4. w = [r EXCEPT !.service = o.service, !.req = o.req, !.extra = x]
  BY DEF Replacement
<1>5. x = r.extra
  <2>1. r.extra \in BOOLEAN
    BY DEF Rule
  <2> QED BY <1>2, <2>1
<1> HIDE DEF o, w, x
<1>6. /\ w.host = r.host /\ w.path = r.path /\ w.service = o.service /\ w.req = o.req
      /\ w.extra = x
  BY <1>4 DEF Rule
<1>7. w = r
  BY <1>2, <1>3, <1>5, <1>6, SameRule
<1> QED BY <1>1, <1>7 DEF o, w
-----------------------------------------------------------------------------
LEMMA ReplacedRoot ==
  ASSUME NEW h \in Hostnames, NEW o \in Origin, o.extra = FALSE, NEW b \in BOOLEAN
  PROVE  Replacement(RootWith(h, o, b), o) = RootWith(h, o, b) /\ RootWith(h, o, b).host = h
<1> DEFINE v == RootWith(h, o, b)
<1>1. IsRootWith(v, h, o, b)
  BY RootWithTyped
<1> HIDE DEF v
<1>2. v \in Rule /\ v.host = h /\ v.path = FALSE /\ v.extra = b
  BY <1>1 DEF IsRootWith
<1>3. IsRoot(v)
  BY <1>2, SentinelsDistinct DEF IsRoot, Hostless
<1>4. Replacement(v, o) = RootWith(v.host, o, v.extra)
  BY <1>2, <1>3, ReplacementIs
<1>5. Replacement(v, o) = v
  BY <1>2, <1>4 DEF v
<1> QED BY <1>2, <1>5 DEF v

(* No host that is not desired has two roots. *)
NoneDoubled == \A h \in Hostnames \ DOMAIN desired : Len(RootsOf(table, h)) <= 1

(* Then the merged table's first roots are the desired ones. *)
LEMMA MergedFirst ==
  ASSUME MergeTyped, NoneDoubled, NEW h \in Hostnames, h \in HostsIn(Merged)
  PROVE  Agrees(desired, RootsOf(Merged, h)[1])
<1> DEFINE x == Closed(table)
           P == Placed(desired, x, h)
           O == Others(x, h)
           R == RootsOf(x, h)
<1>1. x \in Seq(Rule) /\ HasHostless(x) /\ Merged = Done(desired, x).out /\ R = RootsOf(table, h)
      /\ EndsInCatchAll(Merged)
  BY MergedIs, ClosedRoots
<1>2. Desired(desired) /\ KnownOnly(desired) /\ Merged \in Seq(Rule)
  <2>1. Books(desired, x)
    BY <1>1, BooksHold DEF MergeTyped
  <2> QED BY <1>1, <2>1 DEF MergeTyped, Books
<1>3. RootsOf(Merged, h) = P \o O
  BY <1>1, <1>2, RootsMerged DEF RootsKept
<1>4. RootsOf(Merged, h) # <<>>
  BY <1>2, RootsNone
<1>5. R \in Seq(Rule) /\ O = IF R = <<>> THEN <<>> ELSE Tail(R)
  BY <1>1, RootsTyped DEF Others
<1>6. /\ h \notin DOMAIN desired => P = <<>>
      /\ h \in DOMAIN desired /\ R = <<>> => P = <<NewRoot(h, desired[h])>>
      /\ h \in DOMAIN desired /\ R # <<>> =>
           P = <<RootWith(h, desired[h], R[1].extra /\ ~BehindIn(x, h))>>
  BY <1>1 DEF Placed
<1>7. P \in Seq(Rule) /\ O \in Seq(Rule)
  BY <1>1, <1>2, PlacedTyped
<1> HIDE DEF x, P, O, R
<1>8. h \in DOMAIN desired
  <2> SUFFICES ASSUME h \notin DOMAIN desired PROVE FALSE
    OBVIOUS
  <2>1. Len(R) <= 1
    BY <1>1 DEF NoneDoubled
  <2>2. O = <<>>
    BY <1>5, <2>1
  <2>3. <<>> \o <<>> = <<>>
    OBVIOUS
  <2> QED BY <1>3, <1>4, <1>6, <2>2, <2>3
<1>9. desired[h] \in Origin /\ desired[h].extra = FALSE
  BY <1>2, <1>8 DEF Desired, KnownOnly
<1>10. \E b \in BOOLEAN : P = <<RootWith(h, desired[h], b)>>
  <2>1. CASE R = <<>>
    BY <1>6, <1>8, <1>9, <2>1, RootWithNone
  <2>2. CASE R # <<>>
    <3> DEFINE b == R[1].extra /\ ~BehindIn(x, h)
    <3>1. b \in BOOLEAN
      OBVIOUS
    <3>2. P = <<RootWith(h, desired[h], b)>>
      BY <1>6, <1>8, <2>2
    <3> HIDE DEF b
    <3> QED BY <3>1, <3>2
  <2> QED BY <2>1, <2>2
<1>11. PICK b \in BOOLEAN : P = <<RootWith(h, desired[h], b)>>
  BY <1>10
<1> DEFINE o == desired[h]
           v == RootWith(h, o, b)
<1>12. o \in Origin /\ o.extra = FALSE
  BY <1>9
<1>13. P = <<v>>
  BY <1>11
<1> HIDE DEF o
<1>14. Replacement(v, o) = v /\ v.host = h
  BY <1>12, ReplacedRoot
<1>15. IsRootWith(v, h, o, b)
  BY <1>12, RootWithTyped
<1> HIDE DEF v
<1>16. v \in Rule
  BY <1>15 DEF IsRootWith
<1>17. Replacement(v, desired[h]) = v /\ v.host = h /\ v \in Rule
  BY <1>14, <1>16 DEF o
<1>18. (<<v>> \o O)[1] = v
  BY <1>7, <1>17
<1>19. RootsOf(Merged, h)[1] = v
  BY <1>3, <1>13, <1>18
<1>20. Agrees(desired, v)
  BY <1>8, <1>17 DEF Agrees
<1> QED BY <1>19, <1>20

LEMMA MergeSettlesOf ==
  ASSUME MergeTyped
  PROVE  MergeSettles
<1> SUFFICES ASSUME NoneDoubled
             PROVE  /\ MergeIngress(Merged, desired) = Merged
                    /\ MergeIngress(Merged, RootIndex(Merged)) = Merged
  BY DEF MergeSettles, NoneDoubled
<1> DEFINE e == RootIndex(Merged)
<1>1. Desired(desired) /\ EndsInCatchAll(Merged) /\ Merged \in Seq(Rule)
  <2>1. EndsInCatchAll(Merged) /\ Desired(desired)
    BY MergedIs DEF MergeTyped
  <2>2. PICK u \in Seq(Rule) : Merged = Append(u, CatchAll)
    BY <2>1 DEF EndsInCatchAll
  <2>3. Merged \in Seq(Rule)
    BY <2>2, CatchAllTyped, AppendIs
  <2> QED BY <2>1, <2>3
<1>2. \A h \in DOMAIN desired : Reached(Merged, h)
  BY DesiredRootsReachableOf DEF DesiredRootsReachable, Reached
<1>3. ASSUME NEW i \in DOMAIN Merged, IsFirst(Merged, i)
      PROVE  Merged[i].host \in HostsIn(Merged) /\ Agrees(desired, Merged[i])
  <2> DEFINE h == Merged[i].host
  <2>1. Merged[i] \in Rule /\ IsRoot(Merged[i])
    BY <1>1, <1>3 DEF IsFirst
  <2>2. h \in Hostnames
    BY <2>1, RootHost
  <2>3. h \in HostsIn(Merged)
    BY <2>1, <2>2 DEF HostsIn
  <2>4. FirstRoots(Merged)
    BY <1>1, FirstRootsHold
  <2>5. RootsOf(Merged, h)[1] = Merged[i]
    BY <1>3, <2>4 DEF FirstRoots
  <2> HIDE DEF h
  <2>6. Agrees(desired, RootsOf(Merged, h)[1])
    BY <2>2, <2>3, MergedFirst
  <2> QED BY <2>3, <2>5, <2>6 DEF h
<1>4. Settled(desired, Merged)
  BY <1>1, <1>2, <1>3 DEF Settled
<1>5. MergeIngress(Merged, desired) = Merged
  BY <1>1, <1>4, SettledMerge
<1>6. DOMAIN e = HostsIn(Merged) /\ \A h \in HostsIn(Merged) : Indexed(Merged, h)
  BY <1>1, RootIndexIs
<1> HIDE DEF e
<1>7. ASSUME NEW h \in HostsIn(Merged)
      PROVE  h \in DOMAIN desired /\ e[h] \in Origin
  <2>1. PICK i \in DOMAIN Merged :
          IsFirst(Merged, i) /\ Merged[i].host = h /\ e[h] = Fields(Merged[i])
    BY <1>6 DEF Indexed, e
  <2>2. Merged[i] \in Rule
    BY <1>1
  <2>3. Agrees(desired, Merged[i])
    BY <1>3, <2>1
  <2> QED BY <2>1, <2>2, <2>3, ReplacedByItself DEF Agrees
<1>8. Desired(e)
  <2>1. HostsIn(Merged) \subseteq DOMAIN desired
    BY <1>7
  <2>2. IsFiniteSet(DOMAIN desired) /\ DOMAIN desired \subseteq Hostnames
    BY <1>1 DEF Desired
  <2>3. IsFiniteSet(HostsIn(Merged))
    BY <2>1, <2>2, FS_Subset
  <2> QED BY <1>6, <1>7, <2>1, <2>2, <2>3 DEF Desired
<1>9. ASSUME NEW i \in DOMAIN Merged, IsFirst(Merged, i) PROVE Agrees(e, Merged[i])
  <2> DEFINE h == Merged[i].host
  <2>1. h \in HostsIn(Merged) /\ Merged[i] \in Rule
    BY <1>1, <1>3, <1>9
  <2>2. PICK j \in DOMAIN Merged :
          IsFirst(Merged, j) /\ Merged[j].host = h /\ e[h] = Fields(Merged[j])
    BY <1>6, <2>1 DEF Indexed, e
  <2>3. i = j
    BY <1>1, <1>9, <2>2, FirstIsOne
  <2>4. Replacement(Merged[i], Fields(Merged[i])) = Merged[i]
    BY <2>1, ReplacedByItself
  <2> QED BY <1>6, <2>1, <2>2, <2>3, <2>4 DEF Agrees
<1>10. Settled(e, Merged)
  BY <1>1, <1>2, <1>6, <1>7, <1>9 DEF Settled
<1>11. MergeIngress(Merged, e) = Merged
  BY <1>1, <1>8, <1>10, SettledMerge
<1> QED BY <1>5, <1>11 DEF e

(* The first root of every host becomes the desired one or goes, and the   *)
(* other roots of that host stay (merge_ingress, "Replace the first root   *)
(* per hostname").                                                         *)
THEOREM RootsAsPlannedHolds == MergeSpec => []RootsAsPlanned
<1>1. MergeTyped => RootsAsPlanned
  BY RootsAsPlannedOf
<1> QED BY <1>1, MergeTypedHolds, PTL

(* Path rules, second roots and rules without a hostname keep their        *)
(* content and their order, whatever the merge puts between them.          *)
THEOREM RestKeptInOrderHolds == MergeSpec => []RestKeptInOrder
<1>1. MergeTyped => RestKeptInOrder
  BY RestKeptInOrderOf
<1> QED BY <1>1, MergeTypedHolds, PTL

(* No desired root ends up behind a rule without a hostname, and the table *)
(* still ends in the catch-all.                                            *)
THEOREM DesiredRootsReachableHolds == MergeSpec => []DesiredRootsReachable
<1>1. MergeTyped => DesiredRootsReachable
  BY DesiredRootsReachableOf
<1> QED BY <1>1, MergeTypedHolds, PTL

(* Merging again what a merge wrote, from the plan or from the index that  *)
(* the next cycle reads, changes nothing, so the executor sees nothing to  *)
(* write.                                                                  *)
THEOREM MergeSettlesHolds == MergeSpec => []MergeSettles
<1>1. MergeTyped => MergeSettles
  BY MergeSettlesOf
<1> QED BY <1>1, MergeTypedHolds, PTL
=============================================================================
