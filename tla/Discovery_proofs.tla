-------------------------- MODULE Discovery_proofs --------------------------
(***************************************************************************)
(* Proofs about the label rules, for labels of any text, and about         *)
(* discovery, for lists of any length.                                     *)
(***************************************************************************)
EXTENDS MCDiscovery, DataLemmas, FiniteSetTheorems
-----------------------------------------------------------------------------
(***************************************************************************)
(* The labels of a container: two spellings for every group.               *)
(***************************************************************************)
Fields == {"service", "port", "protocol", "server", "header"}

Texts == {Absent, Bad, "loopback", "https", "text"} \cup BOOLEAN \cup Int

Spellings(T) == [1 .. 2 -> T]

LabelRecords(T) ==
  [service : Spellings(T), port : Spellings(T), protocol : Spellings(T), inspected : T,
   tls : [ToSet(TlsGroups) -> Spellings(T)], server : Spellings(T), header : Spellings(T)]

LabelsTyped ==
  /\ labels \in LabelRecords(Texts)
  /\ \A rank \in 1 .. 2 : labels.service[rank] \in {Absent, Bad, "loopback"}

LabelSpec == LabelsInit /\ [][AddLabel]_labels

LEMMA LabelsStart == LabelsInit => LabelsTyped
<1> DEFINE none == <<Absent, Absent>>
<1>1. none \in Spellings(Texts) /\ \A rank \in 1 .. 2 : none[rank] = Absent
  BY DEF Spellings, Texts
<1> HIDE DEF none
<1>2. NoLabels = [service |-> none, port |-> none, protocol |-> none, inspected |-> Absent,
                  tls |-> [g \in ToSet(TlsGroups) |-> none], server |-> none, header |-> none]
  BY DEF NoLabels, none
<1>3. {Absent, 8080, 0} \subseteq Texts
  BY DEF Texts
<1> QED BY <1>1, <1>2, <1>3 DEF LabelsInit, LabelsTyped, LabelRecords

LEMMA SpellingSet ==
  ASSUME NEW group \in Spellings(Texts), NEW rank \in 1 .. 2, NEW v \in Texts
  PROVE  [group EXCEPT ![rank] = v] \in Spellings(Texts)
BY DEF Spellings

LEMMA LabelsStep == ASSUME LabelsTyped, AddLabel PROVE LabelsTyped'
<1>1. ASSUME NEW g \in Fields, NEW rank \in 1 .. 2, NEW v \in Values(g),
             labels' = [labels EXCEPT ![g][rank] = v]
      PROVE  LabelsTyped'
  <2>1. v \in Texts
    <3>1. CASE g = "service"
      BY <3>1 DEF Values, Texts
    <3>2. CASE g = "port"
      BY <3>2 DEF Values, Texts
    <3>3. CASE g = "protocol"
      BY <3>3 DEF Values, Texts
    <3>4. CASE g \in {"server", "header"}
      BY <3>4 DEF Values, Texts
    <3> QED BY <3>1, <3>2, <3>3, <3>4 DEF Fields
  <2>2. labels[g] \in Spellings(Texts)
    BY DEF LabelsTyped, LabelRecords, Fields
  <2>3. [labels[g] EXCEPT ![rank] = v] \in Spellings(Texts)
    BY <2>1, <2>2, SpellingSet
  <2>4. labels' = [labels EXCEPT ![g] = [labels[g] EXCEPT ![rank] = v]]
    BY <1>1
  <2>5. ASSUME NEW r \in 1 .. 2 PROVE labels'.service[r] \in {Absent, Bad, "loopback"}
    <3>1. CASE g = "service" /\ r = rank
      BY <2>2, <2>4, <3>1 DEF Values, LabelsTyped, LabelRecords, Spellings
    <3>2. CASE ~(g = "service" /\ r = rank)
      <4>1. labels'.service[r] = labels.service[r]
        BY <2>2, <2>4, <3>2 DEF LabelsTyped, LabelRecords, Spellings
      <4> QED BY <4>1 DEF LabelsTyped, LabelRecords
    <3> QED BY <3>1, <3>2
  <2> QED BY <2>3, <2>4, <2>5 DEF LabelsTyped, LabelRecords, Fields
<1>2. ASSUME NEW g \in ToSet(TlsGroups), NEW rank \in 1 .. 2, NEW v \in {TRUE, FALSE, Bad},
             labels' = [labels EXCEPT !.tls[g][rank] = v]
      PROVE  LabelsTyped'
  <2>1. v \in Texts
    BY DEF Texts
  <2>2. labels.tls[g] \in Spellings(Texts)
    BY DEF LabelsTyped, LabelRecords
  <2>3. [labels.tls[g] EXCEPT ![rank] = v] \in Spellings(Texts)
    BY <2>1, <2>2, SpellingSet
  <2>4. labels' = [labels EXCEPT !.tls = [labels.tls EXCEPT ![g] =
                                            [labels.tls[g] EXCEPT ![rank] = v]]]
    BY <1>2
  <2>5. [labels.tls EXCEPT ![g] = [labels.tls[g] EXCEPT ![rank] = v]]
          \in [ToSet(TlsGroups) -> Spellings(Texts)]
    BY <2>3 DEF LabelsTyped, LabelRecords
  <2> QED BY <2>4, <2>5 DEF LabelsTyped, LabelRecords
<1> QED BY <1>1, <1>2 DEF AddLabel, Fields

LEMMA LabelsAreTyped == LabelSpec => []LabelsTyped
<1>1. ASSUME LabelsTyped, UNCHANGED labels PROVE LabelsTyped'
  BY <1>1 DEF LabelsTyped, LabelRecords
<1> QED BY <1>1, LabelsStart, LabelsStep, PTL DEF LabelSpec

(* The first label of a group that is given, for any texts.                *)
LEMMA FirstOfTwo ==
  ASSUME NEW T, NEW group \in [1 .. 2 -> T]
  PROVE  FirstLabel(group) = IF group[1] # Absent THEN group[1] ELSE group[2]
<1> DEFINE S == {i \in DOMAIN group : group[i] # Absent}
<1>1. DOMAIN group = {1, 2} /\ S \in SUBSET Nat
  OBVIOUS
<1>2. FirstLabel(group) = IF S = {} THEN Absent ELSE group[Min(S)]
  BY DEF FirstLabel
<1>3. CASE S = {}
  BY <1>1, <1>2, <1>3
<1>4. CASE S # {}
  <2>1. Min(S) \in S /\ \A n \in S : Min(S) <= n
    BY <1>1, <1>4, MinIsLeast
  <2>2. Min(S) \in {1, 2} /\ group[Min(S)] # Absent /\ (group[1] # Absent => Min(S) = 1)
    BY <1>1, <2>1
  <2> QED BY <1>2, <1>4, <2>2
<1> QED BY <1>3, <1>4

(* What is parsed depends on the first labels only. *)
LEMMA SameFirstsSameOrigin ==
  ASSUME NEW l, NEW m, l.inspected = m.inspected, NoTlsVerify(l) = NoTlsVerify(m),
         \A f \in Fields : FirstLabel(l[f]) = FirstLabel(m[f])
  PROVE  ParseOrigin(l) = ParseOrigin(m)
<1>1. /\ FirstLabel(l.service) = FirstLabel(m.service) /\ FirstLabel(l.port) = FirstLabel(m.port)
      /\ FirstLabel(l.protocol) = FirstLabel(m.protocol)
      /\ FirstLabel(l.server) = FirstLabel(m.server) /\ FirstLabel(l.header) = FirstLabel(m.header)
  BY DEF Fields
<1>2. Protocol(l.protocol) = Protocol(m.protocol)
  BY <1>1 DEF Protocol
<1>3. Port(l) = Port(m)
  BY <1>1, <1>2 DEF Port
<1> QED BY <1>1, <1>2, <1>3 DEF ParseOrigin, Text

Readable(l) == {i \in 1 .. 6 : FirstLabel(l.tls[TlsGroups[i]]) \notin {Absent, Bad}}

LEMMA SwitchThatDecides ==
  ASSUME NEW l
  PROVE  NoTlsVerify(l) =
           LET g == TlsGroups[Min(Readable(l))]
           IN  Readable(l) # {} /\ FirstLabel(l.tls[g]) = Off(g)
<1>1. DOMAIN TlsGroups = 1 .. 6
  BY DEF TlsGroups
<1>2. Readable(l) = {i \in DOMAIN TlsGroups : FirstLabel(l.tls[TlsGroups[i]]) \notin {Absent, Bad}}
  BY <1>1 DEF Readable
<1> QED BY <1>2 DEF NoTlsVerify

LEMMA TlsGroupsDiffer ==
  /\ DOMAIN TlsGroups = 1 .. 6
  /\ \A i, j \in 1 .. 6 : TlsGroups[i] = TlsGroups[j] => i = j
  /\ \A i \in 1 .. 6 : TlsGroups[i] \in ToSet(TlsGroups)
BY DEF TlsGroups, ToSet

(* A spelling below one that is given changes nothing, whatever the texts. *)
LEMMA LowerSpellingIgnored ==
  ASSUME NEW T, Absent \in T, labels \in LabelRecords(T), NEW g \in Fields, labels[g][1] # Absent
  PROVE  ParseOrigin([labels EXCEPT ![g][2] = Absent]) = ParseOrigin(labels)
<1> DEFINE l == [labels EXCEPT ![g][2] = Absent]
           lower == [labels[g] EXCEPT ![2] = Absent]
<1>1. labels[g] \in Spellings(T)
  BY DEF LabelRecords, Fields
<1>2. lower \in Spellings(T) /\ lower[1] = labels[g][1]
  BY <1>1 DEF Spellings
<1>3. FirstLabel(lower) = FirstLabel(labels[g])
  BY <1>1, <1>2, FirstOfTwo DEF Spellings
<1>4. /\ l.inspected = labels.inspected /\ l.tls = labels.tls
      /\ \A f \in Fields : l[f] = IF f = g THEN lower ELSE labels[f]
  BY DEF LabelRecords, Fields
<1> HIDE DEF l, lower
<1>5. \A f \in Fields : FirstLabel(l[f]) = FirstLabel(labels[f])
  BY <1>3, <1>4
<1>6. NoTlsVerify(l) = NoTlsVerify(labels)
  BY <1>4 DEF NoTlsVerify
<1>7. ParseOrigin(l) = ParseOrigin(labels)
  BY <1>4, <1>5, <1>6, SameFirstsSameOrigin
<1> QED BY <1>7 DEF l

(* A switch below one that is readable changes nothing. *)
LEMMA LowerSwitchIgnored ==
  ASSUME NEW T, labels \in LabelRecords(T), NEW i \in 1 .. 6, NEW j \in 1 .. 6, i < j,
         FirstLabel(labels.tls[TlsGroups[i]]) \in BOOLEAN
  PROVE  ParseOrigin([labels EXCEPT !.tls[TlsGroups[j]] = <<Absent, Absent>>])
           = ParseOrigin(labels)
<1> DEFINE l == [labels EXCEPT !.tls[TlsGroups[j]] = <<Absent, Absent>>]
           R == Readable(labels)
<1>1. /\ \A f \in Fields \cup {"inspected"} : l[f] = labels[f]
      /\ \A g \in ToSet(TlsGroups) :
           l.tls[g] = IF g = TlsGroups[j] THEN <<Absent, Absent>> ELSE labels.tls[g]
  BY DEF LabelRecords, Fields
<1> HIDE DEF l
<1>2. FirstLabel(<<Absent, Absent>>) = Absent
  <2>1. <<Absent, Absent>> \in [1 .. 2 -> {Absent}]
    OBVIOUS
  <2> QED BY <2>1, FirstOfTwo
<1>3. i \in R
  BY TextsDistinct DEF Readable
<1>4. Readable(l) = R \ {j}
  BY <1>1, <1>2, TlsGroupsDiffer DEF Readable
<1>5. R \in SUBSET Nat /\ R \ {j} \in SUBSET Nat /\ R # {} /\ R \ {j} # {}
  BY <1>3 DEF Readable
<1>6. Min(R) \in R /\ (\A n \in R : Min(R) <= n) /\ Min(R \ {j}) \in R \ {j}
      /\ (\A n \in R \ {j} : Min(R \ {j}) <= n)
  BY <1>5, MinIsLeast
<1>7. Min(R) <= i /\ Min(R) \in 1 .. 6 /\ Min(R \ {j}) \in 1 .. 6
  BY <1>3, <1>6 DEF Readable
<1>8. Min(R \ {j}) = Min(R) /\ Min(R) # j
  BY <1>3, <1>6, <1>7
<1>9. l.tls[TlsGroups[Min(R)]] = labels.tls[TlsGroups[Min(R)]]
  BY <1>1, <1>7, <1>8, TlsGroupsDiffer
<1>10. NoTlsVerify(l) = NoTlsVerify(labels)
  BY <1>4, <1>5, <1>8, <1>9, SwitchThatDecides
<1>11. ParseOrigin(l) = ParseOrigin(labels)
  BY <1>1, <1>10, SameFirstsSameOrigin DEF Fields
<1> QED BY <1>11 DEF l

LEMMA PrecedenceOfAnyTexts ==
  ASSUME NEW T, Absent \in T, labels \in LabelRecords(T)
  PROVE  LabelPrecedence
BY LowerSpellingIgnored, LowerSwitchIgnored, TlsGroupsDiffer DEF LabelPrecedence, Fields

(* "Modern labels take precedence over legacy ones", whatever they say.    *)
THEOREM LabelPrecedenceHolds == LabelSpec => []LabelPrecedence
<1>1. LabelsTyped => LabelPrecedence
  BY PrecedenceOfAnyTexts DEF LabelsTyped, Texts
<1> QED BY <1>1, LabelsAreTyped, PTL

(* The kind of an explicit service is never "container".                   *)
LEMMA VerifiedForAnyTexts ==
  ASSUME NEW T, labels \in LabelRecords(T),
         \A rank \in 1 .. 2 : labels.service[rank] \in {Absent, Bad}
                                \/ labels.service[rank] # "container"
  PROVE  VerifiedUnlessAsked
<1>1. ASSUME NoTlsVerify(labels)
      PROVE  \E i \in DOMAIN TlsGroups, rank \in 1 .. 2 :
               labels.tls[TlsGroups[i]][rank] = Off(TlsGroups[i])
  <2> DEFINE k == Min(Readable(labels))
             g == TlsGroups[k]
  <2>1. Readable(labels) # {} /\ FirstLabel(labels.tls[g]) = Off(g)
    BY <1>1, SwitchThatDecides
  <2>2. k \in 1 .. 6
    <3>1. Readable(labels) \in SUBSET Nat
      BY DEF Readable
    <3> QED BY <2>1, <3>1, MinIsLeast DEF Readable
  <2>3. labels.tls[g] \in Spellings(T)
    BY <2>2, TlsGroupsDiffer DEF LabelRecords
  <2> HIDE DEF k
  <2>4. labels.tls[g][1] = Off(g) \/ labels.tls[g][2] = Off(g)
    BY <2>1, <2>3, FirstOfTwo DEF Spellings
  <2> QED BY <2>2, <2>4, TlsGroupsDiffer
<1>2. ValidPort(Port(labels))
  BY DEF Port, ValidPort
<1>3. ASSUME ParseOrigin(labels).target = "container"
      PROVE  ParseOrigin(labels).port = Port(labels)
  <2>1. labels.service \in Spellings(T)
    BY DEF LabelRecords
  <2>2. FirstLabel(labels.service) \in {labels.service[1], labels.service[2]}
    BY <2>1, FirstOfTwo DEF Spellings
  <2>3. Text(labels.service) = Absent \/ Text(labels.service) # "container"
    BY <2>2 DEF Text
  <2> QED BY <1>3, <2>3 DEF ParseOrigin
<1> QED BY <1>1, <1>2, <1>3 DEF VerifiedUnlessAsked, ParseOrigin

(* TLS verification goes off by a label that says so only, and an origin   *)
(* in the container has a port, for any labels.                            *)
THEOREM VerifiedUnlessAskedHolds == LabelSpec => []VerifiedUnlessAsked
<1>1. LabelsTyped => VerifiedUnlessAsked
  <2> SUFFICES ASSUME LabelsTyped PROVE VerifiedUnlessAsked
    OBVIOUS
  <2>1. ASSUME NEW rank \in 1 .. 2
        PROVE  labels.service[rank] \in {Absent, Bad} \/ labels.service[rank] # "container"
    BY DEF LabelsTyped
  <2> QED BY <2>1, VerifiedForAnyTexts DEF LabelsTyped
<1> QED BY <1>1, LabelsAreTyped, PTL
-----------------------------------------------------------------------------
(***************************************************************************)
(* The services of a list, for containers of any kind C.                   *)
(***************************************************************************)
Nothing == [seen |-> {}, services |-> <<>>]

(* The fold, container by container. *)
LEMMA ServicesBySteps ==
  ASSUME NEW C, NEW list \in Seq(C), NEW e, NEW nets, nets = ConnectorNets(list, e)
  PROVE  \E h : /\ h[0] = Nothing
                /\ \A i \in 1 .. Len(list) : h[i] = Collect(e, nets, h[i - 1], list[i])
                /\ Services(e, list) = h[Len(list)].services
<1> DEFINE n == Len(list)
           H == {Hostname(c) : c \in C}
           S == {Service(c, nets) : c \in C}
           A == [seen : SUBSET H, services : Seq(S)]
           F == [x \in A \X (1 .. n) |-> Collect(e, nets, x[1], list[x[2]])]
           it == CHOOSE g : g = [d \in SUBSET DOMAIN list |->
                     IF d = {} THEN Nothing
                     ELSE Collect(e, nets, g[d \ {Max(d)}], list[Max(d)])]
<1>1. n \in Nat /\ DOMAIN list = 1 .. n
  OBVIOUS
<1>2. Nothing \in A
  BY DEF Nothing
<1>3. ASSUME NEW m \in A, NEW c \in C PROVE Collect(e, nets, m, c) \in A
  <2> DEFINE s == Service(c, nets)
  <2>1. s \in S /\ s.hostname \in H
    BY DEF Service
  <2> HIDE DEF s, H, S
  <2>2. [seen |-> m.seen \cup {s.hostname},
         services |-> IF e.strict /\ ~s.connected THEN m.services ELSE Append(m.services, s)] \in A
    BY <2>1
  <2> QED BY <2>2 DEF Collect, s
<1> HIDE DEF A
<1>4. F \in [A \X (1 .. n) -> A]
  <2>1. ASSUME NEW x \in A \X (1 .. n) PROVE Collect(e, nets, x[1], list[x[2]]) \in A
    BY <1>3
  <2> QED BY <2>1
<1>5. \A m \in A, i \in 1 .. n : F[<<m, i>>] = Collect(e, nets, m, list[i])
  OBVIOUS
<1> HIDE DEF F, n
<1>6. PICK g \in [SUBSET (1 .. n) -> A] : IsFold(g, n, Nothing, F)
  BY <1>1, <1>2, <1>4, FoldExists
<1>7. g = [d \in SUBSET DOMAIN list |->
             IF d = {} THEN Nothing ELSE Collect(e, nets, g[d \ {Max(d)}], list[Max(d)])]
  <2>1. ASSUME NEW d \in SUBSET (1 .. n), d # {}
        PROVE  F[<<g[d \ {Max(d)}], Max(d)>>] = Collect(e, nets, g[d \ {Max(d)}], list[Max(d)])
    <3>1. Max(d) \in 1 .. n /\ d \ {Max(d)} \in SUBSET (1 .. n)
      BY <1>1, <2>1, MaxIsGreatest
    <3>2. g[d \ {Max(d)}] \in A
      BY <3>1
    <3> QED BY <1>5, <3>1, <3>2
  <2>2. \A d \in SUBSET (1 .. n) :
          g[d] = IF d = {} THEN Nothing
                 ELSE Collect(e, nets, g[d \ {Max(d)}], list[Max(d)])
    BY <1>6, <2>1 DEF IsFold
  <2> QED BY <1>1, <2>2
<1>8. it = [d \in SUBSET DOMAIN list |->
             IF d = {} THEN Nothing ELSE Collect(e, nets, it[d \ {Max(d)}], list[Max(d)])]
  BY <1>7
<1>9. Services(e, list) = it[DOMAIN list].services
  BY DEF Services, FoldLeft, MapThenFoldSet, Nothing
<1> HIDE DEF it
<1> DEFINE h == [i \in 0 .. n |-> it[1 .. i]]
<1>10. h[0] = Nothing
  <2>1. 1 .. 0 = {} /\ {} \in SUBSET DOMAIN list /\ 0 \in 0 .. n
    BY <1>1
  <2>2. it[{}] = Nothing
    BY <1>8, <2>1
  <2> QED BY <2>1, <2>2
<1>11. ASSUME NEW i \in 1 .. n PROVE h[i] = Collect(e, nets, h[i - 1], list[i])
  <2>1. 1 .. i \in SUBSET DOMAIN list /\ 1 .. i # {} /\ Max(1 .. i) = i
        /\ (1 .. i) \ {i} = 1 .. (i - 1)
    BY <1>1, PrefixPositions
  <2>2. it[1 .. i] = Collect(e, nets, it[1 .. (i - 1)], list[i])
    BY <1>8, <2>1
  <2>3. i \in 0 .. n /\ i - 1 \in 0 .. n
    BY <1>1
  <2> QED BY <2>2, <2>3
<1>12. h[n] = it[DOMAIN list]
  BY <1>1
<1> QED BY <1>9, <1>10, <1>11, <1>12 DEF n

(* The first container that asks for its hostname takes it, and is listed  *)
(* unless the strict network check excludes it.                            *)
Takes(list, j) ==
  Asks(list[j]) /\ \A k \in 1 .. (j - 1) : Asks(list[k]) => Hostname(list[k]) # Hostname(list[j])

Kept(list, e, nets, j) ==
  Takes(list, j) /\ (e.strict => Service(list[j], nets).connected)

CollectedRight(list, e, nets, m, i) ==
  /\ m.seen = {Hostname(list[j]) : j \in {k \in 1 .. i : Asks(list[k])}}
  /\ m.services \in Seq({Service(list[j], nets) : j \in 1 .. Len(list)})
  /\ \A p \in DOMAIN m.services :
       \E j \in 1 .. i : Kept(list, e, nets, j) /\ m.services[p] = Service(list[j], nets)
  /\ \A j \in 1 .. i : Kept(list, e, nets, j) =>
       \E p \in DOMAIN m.services : m.services[p] = Service(list[j], nets)
  /\ \A p, q \in DOMAIN m.services : m.services[p].hostname = m.services[q].hostname => p = q

LEMMA CollectKeepsRight ==
  ASSUME NEW C, NEW list \in Seq(C), NEW e, NEW nets, NEW m, NEW i \in 1 .. Len(list),
         CollectedRight(list, e, nets, m, i - 1)
  PROVE  CollectedRight(list, e, nets, Collect(e, nets, m, list[i]), i)
<1> DEFINE c == list[i]
           s == Service(c, nets)
           S == {Service(list[j], nets) : j \in 1 .. Len(list)}
           r == Collect(e, nets, m, c)
<1>1. Len(list) \in Nat /\ i \in Nat /\ 1 .. i = (1 .. (i - 1)) \cup {i} /\ i \notin 1 .. (i - 1)
      /\ s \in S
  OBVIOUS
<1>2. /\ m.seen = {Hostname(list[j]) : j \in {k \in 1 .. (i - 1) : Asks(list[k])}}
      /\ m.services \in Seq(S)
      /\ \A p \in DOMAIN m.services :
           \E j \in 1 .. (i - 1) : Kept(list, e, nets, j) /\ m.services[p] = Service(list[j], nets)
      /\ \A j \in 1 .. (i - 1) : Kept(list, e, nets, j) =>
           \E p \in DOMAIN m.services : m.services[p] = Service(list[j], nets)
      /\ \A p, q \in DOMAIN m.services : m.services[p].hostname = m.services[q].hostname => p = q
  BY DEF CollectedRight
<1>3. Takes(list, i) <=> Asks(c) /\ Hostname(c) \notin m.seen
  BY <1>2 DEF Takes
<1>4. \A j : Service(list[j], nets).hostname = Hostname(list[j])
  BY DEF Service
<1> HIDE DEF S
<1>5. CASE ~Takes(list, i)
  <2>1. r = m
    BY <1>3, <1>5 DEF Collect
  <2> HIDE DEF r, s, c
  <2>2. ~Kept(list, e, nets, i)
    BY <1>5 DEF Kept
  <2>3. m.seen = {Hostname(list[j]) : j \in {k \in 1 .. i : Asks(list[k])}}
    BY <1>1, <1>2, <1>3, <1>5 DEF c
  <2>4. \A p \in DOMAIN m.services :
          \E j \in 1 .. i : Kept(list, e, nets, j) /\ m.services[p] = Service(list[j], nets)
    BY <1>1, <1>2
  <2>5. \A j \in 1 .. i : Kept(list, e, nets, j) =>
          \E p \in DOMAIN m.services : m.services[p] = Service(list[j], nets)
    BY <1>1, <1>2, <2>2
  <2>6. CollectedRight(list, e, nets, m, i)
    BY <1>2, <2>3, <2>4, <2>5 DEF CollectedRight, S
  <2> QED BY <2>1, <2>6 DEF r, c
<1>6. CASE Takes(list, i)
  <2>1. /\ r.seen = m.seen \cup {Hostname(c)}
        /\ r.services = IF e.strict /\ ~s.connected THEN m.services ELSE Append(m.services, s)
    BY <1>3, <1>4, <1>6 DEF Collect
  <2>2. r.seen = {Hostname(list[j]) : j \in {k \in 1 .. i : Asks(list[k])}}
    <3>1. Asks(list[i])
      BY <1>6 DEF Takes
    <3>2. {k \in 1 .. i : Asks(list[k])} = {k \in 1 .. (i - 1) : Asks(list[k])} \cup {i}
      BY <1>1, <3>1
    <3> HIDE DEF r
    <3> QED BY <1>2, <2>1, <3>2
  <2> HIDE DEF r, s, c
  <2>3. CASE e.strict /\ ~s.connected
    <3>1. ~Kept(list, e, nets, i)
      BY <2>3 DEF Kept, s, c
    <3>2. \A p \in DOMAIN m.services :
            \E j \in 1 .. i : Kept(list, e, nets, j) /\ m.services[p] = Service(list[j], nets)
      BY <1>1, <1>2
    <3>3. \A j \in 1 .. i : Kept(list, e, nets, j) =>
            \E p \in DOMAIN m.services : m.services[p] = Service(list[j], nets)
      BY <1>1, <1>2, <3>1
    <3>4. r.services = m.services
      BY <2>1, <2>3
    <3>5. CollectedRight(list, e, nets, r, i)
      BY <1>2, <2>2, <3>2, <3>3, <3>4 DEF CollectedRight, S
    <3> QED BY <3>5 DEF r, c
  <2>4. CASE ~(e.strict /\ ~s.connected)
    <3> DEFINE n == Len(m.services)
    <3>1. Kept(list, e, nets, i)
      BY <1>6, <2>4 DEF Kept, s, c
    <3>2. /\ r.services \in Seq(S) /\ n \in Nat /\ DOMAIN m.services = 1 .. n
          /\ DOMAIN r.services = 1 .. (n + 1) /\ r.services[n + 1] = s
          /\ \A p \in 1 .. n : r.services[p] = m.services[p]
      BY <1>1, <1>2, <2>1, <2>4
    <3> HIDE DEF n
    <3>3. 1 .. (n + 1) = (1 .. n) \cup {n + 1} /\ n + 1 \notin 1 .. n
      BY <3>2
    <3>4. \A p \in DOMAIN r.services :
            \E j \in 1 .. i : Kept(list, e, nets, j) /\ r.services[p] = Service(list[j], nets)
      <4>1. ASSUME NEW p \in 1 .. n
            PROVE  \E j \in 1 .. i : /\ Kept(list, e, nets, j)
                                     /\ r.services[p] = Service(list[j], nets)
        <5>1. p \in DOMAIN m.services /\ r.services[p] = m.services[p]
          BY <3>2
        <5>2. PICK j \in 1 .. (i - 1) :
                Kept(list, e, nets, j) /\ m.services[p] = Service(list[j], nets)
          BY <1>2, <5>1
        <5>3. j \in 1 .. i
          BY <1>1
        <5> QED BY <5>1, <5>2, <5>3
      <4>2. r.services[n + 1] = Service(list[i], nets) /\ i \in 1 .. i
        BY <1>1, <3>2 DEF s, c
      <4> QED BY <3>1, <3>2, <3>3, <4>1, <4>2
    <3>5. \A j \in 1 .. i : Kept(list, e, nets, j) =>
            \E p \in DOMAIN r.services : r.services[p] = Service(list[j], nets)
      BY <1>1, <1>2, <3>2, <3>3 DEF s, c
    <3>6. \A p \in 1 .. n : m.services[p].hostname # s.hostname
      <4>1. ASSUME NEW p \in 1 .. n PROVE m.services[p].hostname \in m.seen
        <5>1. PICK j \in 1 .. (i - 1) :
                Kept(list, e, nets, j) /\ m.services[p] = Service(list[j], nets)
          BY <1>2, <3>2
        <5> QED BY <1>2, <1>4, <5>1 DEF Kept, Takes
      <4>2. s.hostname \notin m.seen
        BY <1>3, <1>4, <1>6 DEF s, c
      <4> QED BY <4>1, <4>2
    <3>7. \A p, q \in DOMAIN r.services :
            r.services[p].hostname = r.services[q].hostname => p = q
      <4> SUFFICES ASSUME NEW p \in DOMAIN r.services, NEW q \in DOMAIN r.services,
                          r.services[p].hostname = r.services[q].hostname
                   PROVE  p = q
        OBVIOUS
      <4>1. CASE p \in 1 .. n /\ q \in 1 .. n
        BY <1>2, <3>2, <4>1
      <4>2. CASE p = n + 1 /\ q \in 1 .. n
        BY <3>2, <3>6, <4>2
      <4>3. CASE p \in 1 .. n /\ q = n + 1
        BY <3>2, <3>6, <4>3
      <4> QED BY <3>2, <3>3, <4>1, <4>2, <4>3
    <3>8. CollectedRight(list, e, nets, r, i)
      BY <2>2, <3>2, <3>4, <3>5, <3>7 DEF CollectedRight, S
    <3> QED BY <3>8 DEF r, c
  <2> QED BY <2>3, <2>4
<1> QED BY <1>5, <1>6

LEMMA ServicesRight ==
  ASSUME NEW C, NEW list \in Seq(C), NEW e, NEW nets, nets = ConnectorNets(list, e)
  PROVE  \E m : CollectedRight(list, e, nets, m, Len(list)) /\ Services(e, list) = m.services
<1>1. PICK h : /\ h[0] = Nothing
               /\ \A i \in 1 .. Len(list) : h[i] = Collect(e, nets, h[i - 1], list[i])
               /\ Services(e, list) = h[Len(list)].services
  BY ServicesBySteps
<1> DEFINE S == {i \in 0 .. Len(list) : CollectedRight(list, e, nets, h[i], i)}
<1>2. Len(list) \in Nat
  OBVIOUS
<1>3. 0 \in S
  <2>1. 1 .. 0 = {}
    OBVIOUS
  <2>2. \A T : <<>> \in Seq(T) /\ DOMAIN <<>> = {}
    OBVIOUS
  <2>3. CollectedRight(list, e, nets, Nothing, 0)
    BY <2>1, <2>2 DEF Nothing, CollectedRight
  <2> QED BY <1>1, <1>2, <2>3
<1>4. ASSUME NEW i \in 1 .. Len(list), i - 1 \in S PROVE i \in S
  BY <1>1, <1>2, <1>4, CollectKeepsRight
<1> HIDE DEF S
<1>5. 0 .. Len(list) \subseteq S
  BY <1>2, <1>3, <1>4, IntervalByInduction
<1>6. Len(list) \in S
  BY <1>2, <1>5
<1> QED BY <1>1, <1>6 DEF S

(* A usable inventory is what the fold makes of the list. *)
LEMMA AvailableServices ==
  ASSUME NEW list, Read(list).verdict = "available"
  PROVE  Read(list).services = Services(env, list)
BY DEF Read, Collected, GetDockerContainers, Discover, Unusable

LEMMA FirstTakes ==
  ASSUME NEW C, actual \in Seq(C), NEW h \in AskedFor
  PROVE  /\ Min(Asking(h)) \in 1 .. Len(actual)
         /\ Takes(actual, Min(Asking(h))) /\ Hostname(actual[Min(Asking(h))]) = h
<1>1. DOMAIN actual = 1 .. Len(actual) /\ Len(actual) \in Nat
  OBVIOUS
<1>2. Asking(h) \in SUBSET Nat /\ Asking(h) # {}
  BY <1>1 DEF Asking, AskedFor
<1> DEFINE j == Min(Asking(h))
<1>3. j \in Asking(h) /\ \A k \in Asking(h) : j <= k
  BY <1>2, MinIsLeast
<1> HIDE DEF j
<1>4. j \in 1 .. Len(actual) /\ Asks(actual[j]) /\ Hostname(actual[j]) = h
  BY <1>1, <1>3 DEF Asking
<1>5. ASSUME NEW k \in 1 .. (j - 1), Asks(actual[k]) PROVE Hostname(actual[k]) # h
  <2>1. k \in 1 .. Len(actual) /\ ~(j <= k)
    BY <1>1, <1>4
  <2> QED BY <1>1, <1>3, <1>5, <2>1 DEF Asking
<1> QED BY <1>4, <1>5 DEF Takes, j

LEMMA TakerUnique ==
  ASSUME NEW list, NEW j \in Nat \ {0}, NEW k \in Nat \ {0}, Takes(list, j), Takes(list, k),
         Hostname(list[j]) = Hostname(list[k])
  PROVE  j = k
BY DEF Takes

LEMMA InventoryOfAnyList ==
  ASSUME NEW C, actual \in Seq(C) PROVE InventoryIsTrue
<1> DEFINE nets == ConnectorNets(actual, env)
           inv == Read(actual)
           listed(h) == {p \in DOMAIN inv.services : inv.services[p].hostname = h}
<1> SUFFICES ASSUME inv.verdict = "available"
             PROVE  /\ \A h \in AskedFor :
                         LET first == Service(actual[Min(Asking(h))], nets) IN
                         \/ \E p \in DOMAIN inv.services :
                              listed(h) = {p} /\ inv.services[p] = first
                         \/ listed(h) = {} /\ env.strict /\ ~first.connected
                    /\ \A p \in DOMAIN inv.services : inv.services[p].hostname \in AskedFor
  BY DEF InventoryIsTrue
<1>1. PICK m : CollectedRight(actual, env, nets, m, Len(actual)) /\ inv.services = m.services
  BY AvailableServices, ServicesRight
<1>2. \A c : Service(c, nets).hostname = Hostname(c)
  BY DEF Service
<1>3. DOMAIN actual = 1 .. Len(actual) /\ Len(actual) \in Nat
  OBVIOUS
<1> HIDE DEF nets, inv
<1>4. /\ \A p \in DOMAIN inv.services :
           \E j \in 1 .. Len(actual) :
             Kept(actual, env, nets, j) /\ inv.services[p] = Service(actual[j], nets)
      /\ \A j \in 1 .. Len(actual) : Kept(actual, env, nets, j) =>
           \E p \in DOMAIN inv.services : inv.services[p] = Service(actual[j], nets)
      /\ \A p, q \in DOMAIN inv.services :
           inv.services[p].hostname = inv.services[q].hostname => p = q
  BY <1>1 DEF CollectedRight
<1>5. ASSUME NEW h \in AskedFor
      PROVE  LET first == Service(actual[Min(Asking(h))], nets) IN
             \/ \E p \in DOMAIN inv.services : listed(h) = {p} /\ inv.services[p] = first
             \/ listed(h) = {} /\ env.strict /\ ~first.connected
  <2> DEFINE j == Min(Asking(h))
  <2>1. j \in 1 .. Len(actual) /\ Takes(actual, j) /\ Hostname(actual[j]) = h
    BY FirstTakes
  <2> HIDE DEF j
  <2>2. CASE Kept(actual, env, nets, j)
    <3>1. PICK p \in DOMAIN inv.services : inv.services[p] = Service(actual[j], nets)
      BY <1>4, <2>1, <2>2
    <3>2. inv.services[p].hostname = h
      BY <1>2, <2>1, <3>1
    <3>3. listed(h) = {p}
      BY <1>4, <3>2
    <3> QED BY <3>1, <3>3 DEF j
  <2>3. CASE ~Kept(actual, env, nets, j)
    <3>1. env.strict /\ ~Service(actual[j], nets).connected
      BY <2>1, <2>3 DEF Kept
    <3>2. ASSUME NEW p \in DOMAIN inv.services, inv.services[p].hostname = h PROVE FALSE
      <4>1. PICK k \in 1 .. Len(actual) :
              Kept(actual, env, nets, k) /\ inv.services[p] = Service(actual[k], nets)
        BY <1>4
      <4>2. Takes(actual, k) /\ Hostname(actual[k]) = h
        BY <1>2, <3>2, <4>1 DEF Kept
      <4>3. j = k
        BY <1>3, <2>1, <4>2, TakerUnique
      <4> QED BY <2>3, <4>1, <4>3
    <3> QED BY <3>1, <3>2 DEF j
  <2> QED BY <2>2, <2>3
<1>6. ASSUME NEW p \in DOMAIN inv.services PROVE inv.services[p].hostname \in AskedFor
  <2>1. PICK j \in 1 .. Len(actual) :
          Kept(actual, env, nets, j) /\ inv.services[p] = Service(actual[j], nets)
    BY <1>4
  <2>2. Asks(actual[j]) /\ inv.services[p].hostname = Hostname(actual[j])
    BY <1>2, <2>1 DEF Kept, Takes
  <2> QED BY <1>3, <2>2 DEF AskedFor
<1> QED BY <1>5, <1>6
-----------------------------------------------------------------------------
(***************************************************************************)
(* The list turned round.                                                  *)
(***************************************************************************)
Turned(list, turned) ==
  /\ Len(turned) = Len(list)
  /\ \A i \in 1 .. Len(list) : turned[i] = list[(Len(list) - i) + 1]

LEMMA ReverseTurns ==
  ASSUME NEW C, NEW list \in Seq(C)
  PROVE  /\ Reverse(list) \in Seq(C)
         /\ Turned(list, Reverse(list)) /\ Turned(Reverse(list), list)
<1>1. Len(list) \in Nat /\ \A i \in 1 .. Len(list) : (Len(list) - i) + 1 \in 1 .. Len(list)
  OBVIOUS
<1>2. Reverse(list) = [i \in 1 .. Len(list) |-> list[(Len(list) - i) + 1]]
  BY DEF Reverse
<1>3. Reverse(list) \in [1 .. Len(list) -> C]
  BY <1>1, <1>2
<1>4. Reverse(list) \in Seq(C) /\ Len(Reverse(list)) = Len(list)
  BY <1>1, <1>3
<1>5. \A i \in 1 .. Len(list) : (Len(list) - ((Len(list) - i) + 1)) + 1 = i
  BY <1>1
<1> QED BY <1>1, <1>2, <1>4, <1>5 DEF Turned

FirstIn(list, S) ==
  LET found == {i \in 1 .. Len(list) : list[i] \in S}
  IN  IF found = {} THEN Absent ELSE list[Min(found)]

(* A container that alone meets a condition is found from either end.      *)
LEMMA OnlyOneFound ==
  ASSUME NEW C, NEW list \in Seq(C), NEW turned \in Seq(C), Turned(list, turned),
         Turned(turned, list), NEW S,
         \A i, j \in 1 .. Len(list) : list[i] \in S /\ list[j] \in S => list[i] = list[j]
  PROVE  FirstIn(turned, S) = FirstIn(list, S)
<1> DEFINE I == {i \in 1 .. Len(list) : list[i] \in S}
           J == {i \in 1 .. Len(turned) : turned[i] \in S}
<1>1. Len(list) \in Nat /\ Len(turned) = Len(list)
      /\ \A i \in 1 .. Len(list) : (Len(list) - i) + 1 \in 1 .. Len(list)
  BY DEF Turned
<1>2. \A i \in I : (Len(list) - i) + 1 \in J
  BY <1>1 DEF Turned
<1>3. \A i \in J : (Len(list) - i) + 1 \in I
  BY <1>1 DEF Turned
<1>4. CASE I = {}
  <2>1. J = {}
    BY <1>3, <1>4
  <2> QED BY <1>4, <2>1 DEF FirstIn
<1>5. CASE I # {}
  <2>1. I \in SUBSET Nat /\ J \in SUBSET Nat /\ J # {}
    BY <1>1, <1>2, <1>5
  <2> DEFINE a == Min(I)
             b == Min(J)
  <2>2. a \in I /\ b \in J
    BY <1>5, <2>1, MinIsLeast
  <2>3. FirstIn(list, S) = list[a] /\ FirstIn(turned, S) = turned[b]
    BY <1>5, <2>1 DEF FirstIn
  <2> HIDE DEF a, b
  <2>4. turned[b] = list[(Len(list) - b) + 1] /\ (Len(list) - b) + 1 \in I
    BY <1>1, <1>3, <2>2 DEF Turned
  <2> QED BY <2>2, <2>3, <2>4
<1> QED BY <1>4, <1>5

LEMMA AtMostOne ==
  ASSUME NEW n \in Nat, NEW S \in SUBSET (1 .. n), Cardinality(S) <= 1,
         NEW i \in S, NEW j \in S
  PROVE  i = j
<1>1. IsFiniteSet(S)
  <2>1. IsFiniteSet(1 .. n)
    BY FS_Interval
  <2> QED BY <2>1, FS_Subset
<1>2. CASE i # j
  <2>1. IsFiniteSet({i}) /\ Cardinality({i}) = 1
    BY FS_Singleton
  <2>2. IsFiniteSet(S \ {i}) /\ Cardinality(S \ {i}) = Cardinality(S) - 1
    BY <1>1, FS_RemoveElement
  <2>3. Cardinality(S \ {i}) = 0
    BY <1>1, <2>2, FS_CardinalityType
  <2> QED BY <1>2, <2>2, <2>3, FS_EmptySet
<1> QED BY <1>2

OwnOnes(C) == {c \in C : c.self /\ c.project # Absent}

Ours(C, project) == {c \in C : c.project = project /\ "cloudflared" \in {c.name, c.service}}

NamedOnes(C) == {c \in C : c.name = "cloudflared"}

WantedOnes(C, wanted) == {c \in C : wanted \in {c.name, c.service}}

LEMMA ConnectorFound ==
  ASSUME NEW C, NEW list \in Seq(C), NEW wanted
  PROVE  Connector(list, wanted) =
           LET self == FirstIn(list, OwnOnes(C))
               project == IF self = Absent THEN Absent ELSE self.project
               ours == FirstIn(list, Ours(C, project))
               byName == FirstIn(list, NamedOnes(C))
               byService == {i \in DOMAIN list : list[i].service = "cloudflared"}
           IN  IF wanted # Absent THEN FirstIn(list, WantedOnes(C, wanted))
               ELSE IF project # Absent /\ ours # Absent THEN ours
               ELSE IF byName # Absent THEN byName
               ELSE IF Cardinality(byService) = 1 THEN list[Min(byService)] ELSE Absent
<1> DEFINE At(I) == IF I = {} THEN Absent ELSE list[Min(I)]
<1>1. DOMAIN list = 1 .. Len(list)
  OBVIOUS
<1>2. \A i \in 1 .. Len(list) : list[i] \in C
  OBVIOUS
<1>3. OwnProject(list) = LET self == FirstIn(list, OwnOnes(C))
                         IN  IF self = Absent THEN Absent ELSE self.project
  <2>1. {i \in DOMAIN list : list[i].self /\ list[i].project # Absent}
          = {i \in 1 .. Len(list) : list[i] \in OwnOnes(C)}
    BY <1>1, <1>2 DEF OwnOnes
  <2> DEFINE I == {i \in DOMAIN list : list[i].self /\ list[i].project # Absent}
  <2>2. OwnProject(list) = IF At(I) = Absent THEN Absent ELSE At(I).project
    BY DEF OwnProject, FirstWhere, At
  <2>3. At(I) = FirstIn(list, OwnOnes(C))
    BY <2>1 DEF FirstIn
  <2> HIDE DEF I
  <2> QED BY <2>2, <2>3
<1>4. \A p : {i \in DOMAIN list : /\ list[i].project = p
                                     /\ "cloudflared" \in {list[i].name, list[i].service}}
               = {i \in 1 .. Len(list) : list[i] \in Ours(C, p)}
  BY <1>1, <1>2 DEF Ours
<1>5. {i \in DOMAIN list : list[i].name = "cloudflared"}
        = {i \in 1 .. Len(list) : list[i] \in NamedOnes(C)}
  BY <1>1, <1>2 DEF NamedOnes
<1>6. {i \in DOMAIN list : wanted \in {list[i].name, list[i].service}}
        = {i \in 1 .. Len(list) : list[i] \in WantedOnes(C, wanted)}
  BY <1>1, <1>2 DEF WantedOnes
<1>7. CASE wanted # Absent
  <2> DEFINE I == {i \in DOMAIN list : wanted \in {list[i].name, list[i].service}}
  <2>1. Connector(list, wanted) = At(I)
    BY <1>7 DEF Connector, FirstWhere, At
  <2>2. At(I) = FirstIn(list, WantedOnes(C, wanted))
    BY <1>6 DEF FirstIn
  <2> QED BY <1>7, <2>1, <2>2
<1>8. CASE wanted = Absent
  <2> DEFINE I(p) == {i \in DOMAIN list : /\ list[i].project = p
                                            /\ "cloudflared" \in {list[i].name, list[i].service}}
             J == {i \in DOMAIN list : list[i].name = "cloudflared"}
             K == {i \in DOMAIN list : list[i].service = "cloudflared"}
             p == OwnProject(list)
  <2>1. Connector(list, wanted) =
          IF p # Absent /\ At(I(p)) # Absent THEN At(I(p))
          ELSE IF At(J) # Absent THEN At(J)
          ELSE IF Cardinality(K) = 1 THEN list[Min(K)] ELSE Absent
    BY <1>8 DEF Connector, FirstWhere, At
  <2>2. At(I(p)) = FirstIn(list, Ours(C, p))
    BY <1>4 DEF FirstIn
  <2>3. At(J) = FirstIn(list, NamedOnes(C))
    BY <1>5 DEF FirstIn
  <2> HIDE DEF I, J, p, K
  <2>4. p = LET self == FirstIn(list, OwnOnes(C)) IN IF self = Absent THEN Absent ELSE self.project
    BY <1>3 DEF p
  <2> QED BY <1>8, <2>1, <2>2, <2>3, <2>4 DEF K
<1> QED BY <1>7, <1>8

(* Containers of which one can be the connector, and those of the          *)
(* synchronizer itself alike: the connector is the same from either end.   *)
OneConnector(list, wanted) ==
  /\ \A i, j \in 1 .. Len(list) :
       /\ {"cloudflared", wanted} \cap {list[i].name, list[i].service} # {}
       /\ {"cloudflared", wanted} \cap {list[j].name, list[j].service} # {}
       => i = j
  /\ \A i, j \in 1 .. Len(list) : list[i].self /\ list[j].self => list[i] = list[j]

LEMMA ConnectorTurned ==
  ASSUME NEW C, NEW list \in Seq(C), NEW turned \in Seq(C), Turned(list, turned),
         Turned(turned, list), NEW wanted, OneConnector(list, wanted)
  PROVE  Connector(turned, wanted) = Connector(list, wanted)
<1>1. Len(list) \in Nat /\ Len(turned) = Len(list)
      /\ \A i \in 1 .. Len(list) : list[i] \in C /\ turned[i] \in C
                                   /\ (Len(list) - i) + 1 \in 1 .. Len(list)
  BY DEF Turned
<1>2. ASSUME NEW S \in SUBSET C,
             \A i, j \in 1 .. Len(list) : list[i] \in S /\ list[j] \in S => list[i] = list[j]
      PROVE  FirstIn(turned, S) = FirstIn(list, S)
  BY <1>2, OnlyOneFound
<1> DEFINE I == {i \in DOMAIN list : list[i].service = "cloudflared"}
           J == {i \in DOMAIN turned : turned[i].service = "cloudflared"}
<1>3. FirstIn(turned, OwnOnes(C)) = FirstIn(list, OwnOnes(C))
  <2>1. OwnOnes(C) \in SUBSET C /\ \A c \in OwnOnes(C) : c.self
    BY DEF OwnOnes
  <2> QED BY <1>2, <2>1 DEF OneConnector
<1>4. ASSUME NEW project PROVE FirstIn(turned, Ours(C, project)) = FirstIn(list, Ours(C, project))
  <2>1. Ours(C, project) \in SUBSET C
        /\ \A c \in Ours(C, project) : {"cloudflared", wanted} \cap {c.name, c.service} # {}
    BY DEF Ours
  <2> QED BY <1>2, <2>1 DEF OneConnector
<1>5. FirstIn(turned, NamedOnes(C)) = FirstIn(list, NamedOnes(C))
  <2>1. NamedOnes(C) \in SUBSET C
        /\ \A c \in NamedOnes(C) : {"cloudflared", wanted} \cap {c.name, c.service} # {}
    BY DEF NamedOnes
  <2> QED BY <1>2, <2>1 DEF OneConnector
<1>6. FirstIn(turned, WantedOnes(C, wanted)) = FirstIn(list, WantedOnes(C, wanted))
  <2>1. WantedOnes(C, wanted) \in SUBSET C
        /\ \A c \in WantedOnes(C, wanted) : {"cloudflared", wanted} \cap {c.name, c.service} # {}
    BY DEF WantedOnes
  <2> QED BY <1>2, <2>1 DEF OneConnector
<1>7. /\ Cardinality(I) = 1 <=> Cardinality(J) = 1
      /\ Cardinality(I) = 1 => list[Min(I)] = turned[Min(J)]
  <2>1. DOMAIN list = 1 .. Len(list) /\ DOMAIN turned = 1 .. Len(list)
    BY <1>1
  <2>2. \A i \in I : (Len(list) - i) + 1 \in J /\ list[i] = turned[(Len(list) - i) + 1]
    BY <1>1, <2>1 DEF Turned
  <2>3. \A i \in J : (Len(list) - i) + 1 \in I /\ turned[i] = list[(Len(list) - i) + 1]
    BY <1>1, <2>1 DEF Turned
  <2>4. \A i, j \in I : i = j
    BY <2>1 DEF OneConnector
  <2>5. CASE I = {}
    <3>1. J = {}
      BY <2>3, <2>5
    <3> HIDE DEF I, J
    <3>2. Cardinality(I) = 0 /\ Cardinality(J) = 0
      BY <2>5, <3>1, FS_EmptySet
    <3> QED BY <3>2
  <2>6. CASE I # {}
    <3>1. PICK i \in I : I = {i}
      BY <2>4, <2>6
    <3>2. \A j, k \in J : j = k
      <4> SUFFICES ASSUME NEW j \in J, NEW k \in J PROVE j = k
        OBVIOUS
      <4>1. (Len(list) - j) + 1 = (Len(list) - k) + 1 /\ j \in Nat /\ k \in Nat
        BY <2>1, <2>3, <2>4
      <4> QED BY <1>1, <4>1
    <3>3. J = {(Len(list) - i) + 1}
      BY <2>2, <3>2
    <3>4. Cardinality(I) = 1 /\ Cardinality(J) = 1
      BY <3>1, <3>3, FS_Singleton
    <3>5. I \in SUBSET Nat /\ J \in SUBSET Nat
      BY <2>1
    <3>6. Min(I) = i /\ Min(J) = (Len(list) - i) + 1
      BY <3>1, <3>3, <3>5, MinIsLeast
    <3> QED BY <2>2, <3>1, <3>4, <3>6
  <2> QED BY <2>5, <2>6
<1> QED BY <1>3, <1>4, <1>5, <1>6, <1>7, ConnectorFound

(* With one asker to a hostname, every asker takes it. *)
LEMMA ServicesTurned ==
  ASSUME NEW C, NEW list \in Seq(C), NEW turned \in Seq(C), Turned(list, turned), NEW e,
         ConnectorNets(turned, e) = ConnectorNets(list, e),
         \A i, j \in 1 .. Len(list) :
           Asks(list[i]) /\ Asks(list[j]) /\ Hostname(list[i]) = Hostname(list[j]) => i = j
  PROVE  ToSet(Services(e, list)) \subseteq ToSet(Services(e, turned))
<1> DEFINE nets == ConnectorNets(list, e)
           n == Len(list)
<1>1. PICK m : CollectedRight(list, e, nets, m, n) /\ Services(e, list) = m.services
  BY ServicesRight
<1>2. PICK r : CollectedRight(turned, e, nets, r, n) /\ Services(e, turned) = r.services
  BY ServicesRight DEF Turned
<1> HIDE DEF nets
<1>3. n \in Nat /\ \A i \in 1 .. n : (n - i) + 1 \in 1 .. n /\ turned[(n - i) + 1] = list[i]
                                     /\ turned[i] = list[(n - i) + 1]
  BY DEF Turned
<1> HIDE DEF n
<1>4. ASSUME NEW p \in DOMAIN m.services
      PROVE  \E q \in DOMAIN r.services : r.services[q] = m.services[p]
  <2>1. PICK j \in 1 .. n : Kept(list, e, nets, j) /\ m.services[p] = Service(list[j], nets)
    BY <1>1 DEF CollectedRight
  <2> DEFINE k == (n - j) + 1
  <2>2. k \in 1 .. n /\ turned[k] = list[j]
    BY <1>3
  <2>3. ASSUME NEW i \in 1 .. (k - 1), Asks(turned[i])
        PROVE  Hostname(turned[i]) # Hostname(turned[k])
    <3>1. i \in 1 .. n /\ i # k
      BY <1>3, <2>2
    <3>2. (n - i) + 1 \in 1 .. n /\ turned[i] = list[(n - i) + 1] /\ (n - i) + 1 # j
      BY <1>3, <3>1
    <3>3. Asks(list[j])
      BY <2>1 DEF Kept, Takes
    <3> QED BY <2>2, <2>3, <3>2, <3>3 DEF n
  <2> HIDE DEF k
  <2>4. Kept(turned, e, nets, k)
    BY <2>1, <2>2, <2>3 DEF Kept, Takes
  <2> QED BY <1>2, <2>1, <2>2, <2>4 DEF CollectedRight
<1> QED BY <1>1, <1>2, <1>4 DEF ToSet

(* For containers of any kind, as long as the synchronizer is one of them. *)
LEMMA OrderOfAnyList ==
  ASSUME NEW C, actual \in Seq(C),
         \A i, j \in 1 .. Len(actual) : actual[i].self /\ actual[j].self => actual[i] = actual[j]
  PROVE  OrderIndependent
<1> DEFINE turned == Reverse(actual)
           candidates == {i \in DOMAIN actual : {"cloudflared", env.connector}
                                                  \cap {actual[i].name, actual[i].service} # {}}
<1> SUFFICES ASSUME \A h \in AskedFor : Cardinality(Asking(h)) = 1, Cardinality(candidates) <= 1
             PROVE  /\ ToSet(Read(turned).services) = ToSet(Read(actual).services)
                    /\ Read(turned).verdict = Read(actual).verdict
                    /\ ConnectorName(turned, env.connector) = ConnectorName(actual, env.connector)
  BY DEF OrderIndependent
<1>1. turned \in Seq(C) /\ Turned(actual, turned) /\ Turned(turned, actual)
  BY ReverseTurns
<1> HIDE DEF turned
<1>2. DOMAIN actual = 1 .. Len(actual) /\ Len(actual) \in Nat
  OBVIOUS
<1>3. OneConnector(actual, env.connector)
  <2>1. \A i, j \in candidates : i = j
    BY <1>2, AtMostOne
  <2> QED BY <1>2, <2>1 DEF OneConnector
<1>4. Connector(turned, env.connector) = Connector(actual, env.connector)
  BY <1>1, <1>3, ConnectorTurned
<1>5. ConnectorName(turned, env.connector) = ConnectorName(actual, env.connector)
      /\ ConnectorNets(turned, env) = ConnectorNets(actual, env)
  BY <1>4 DEF ConnectorName, ConnectorNets
<1>6. ASSUME NEW i \in 1 .. Len(actual), NEW j \in 1 .. Len(actual), Asks(actual[i]),
             Asks(actual[j]), Hostname(actual[i]) = Hostname(actual[j])
      PROVE  i = j
  <2> DEFINE h == Hostname(actual[i])
  <2>1. h \in AskedFor /\ i \in Asking(h) /\ j \in Asking(h) /\ Asking(h) \in SUBSET (1 .. Len(actual))
    BY <1>2, <1>6 DEF AskedFor, Asking
  <2>2. Cardinality(Asking(h)) <= 1
    BY <2>1
  <2> HIDE DEF h
  <2> QED BY <1>2, <2>1, <2>2, AtMostOne
<1>7. ASSUME NEW i \in 1 .. Len(turned), NEW j \in 1 .. Len(turned), Asks(turned[i]),
             Asks(turned[j]), Hostname(turned[i]) = Hostname(turned[j])
      PROVE  i = j
  <2> DEFINE n == Len(actual)
  <2>1. /\ (n - i) + 1 \in 1 .. n /\ turned[i] = actual[(n - i) + 1]
        /\ (n - j) + 1 \in 1 .. n /\ turned[j] = actual[(n - j) + 1]
    BY <1>1, <1>2 DEF Turned
  <2>2. (n - i) + 1 = (n - j) + 1
    BY <1>6, <1>7, <2>1
  <2> QED BY <1>1, <1>2, <2>2
<1>8. ToSet(Services(env, turned)) = ToSet(Services(env, actual))
  <2>1. ToSet(Services(env, actual)) \subseteq ToSet(Services(env, turned))
    BY <1>1, <1>5, <1>6, ServicesTurned
  <2>2. ToSet(Services(env, turned)) \subseteq ToSet(Services(env, actual))
    BY <1>1, <1>5, <1>7, ServicesTurned
  <2> QED BY <2>1, <2>2
<1>9. (\E i \in DOMAIN turned : ~turned[i].readable) <=> \E i \in DOMAIN actual : ~actual[i].readable
  <2>1. DOMAIN turned = 1 .. Len(actual) /\ \A i \in 1 .. Len(actual) :
          (Len(actual) - i) + 1 \in 1 .. Len(actual)
    BY <1>1, <1>2 DEF Turned
  <2>2. \A i \in 1 .. Len(actual) : /\ turned[i] = actual[(Len(actual) - i) + 1]
                                    /\ actual[i] = turned[(Len(actual) - i) + 1]
    BY <1>1 DEF Turned
  <2>3. ASSUME NEW i \in DOMAIN turned, ~turned[i].readable
        PROVE  \E j \in DOMAIN actual : ~actual[j].readable
    BY <1>2, <2>1, <2>2, <2>3
  <2>4. ASSUME NEW i \in DOMAIN actual, ~actual[i].readable
        PROVE  \E j \in DOMAIN turned : ~turned[j].readable
    BY <1>2, <2>1, <2>2, <2>4
  <2> QED BY <2>3, <2>4
<1>10. turned = <<>> <=> actual = <<>>
  BY <1>1 DEF Turned
<1>11. \A reply, connected :
         /\ Discover(env, reply, turned, connected).verdict
              = Discover(env, reply, actual, connected).verdict
         /\ ToSet(Discover(env, reply, turned, connected).services)
              = ToSet(Discover(env, reply, actual, connected).services)
  BY <1>8, <1>9, <1>10 DEF Discover, Unusable
<1>12. Read(turned).verdict = Read(actual).verdict
       /\ ToSet(Read(turned).services) = ToSet(Read(actual).services)
  BY <1>11 DEF Read, Collected, GetDockerContainers
<1> QED BY <1>5, <1>12
-----------------------------------------------------------------------------
DiscoverySpec == DiscoveryInit /\ [][DiscoveryNext]_discoveryVars

DiscoveryTyped == actual \in Seq(AnyContainer)

LEMMA DiscoveryIsTyped == DiscoverySpec => []DiscoveryTyped
<1>1. DiscoveryInit => DiscoveryTyped
  BY DEF DiscoveryInit, DiscoveryTyped
<1>2. DiscoveryTyped /\ [DiscoveryNext]_discoveryVars => DiscoveryTyped'
  BY DEF DiscoveryNext, discoveryVars, DiscoveryTyped
<1> QED BY <1>1, <1>2, PTL DEF DiscoverySpec

LEMMA OneSynchronizer == \A c, d \in AnyContainer : c.self /\ d.self => c = d
<1>1. \A c \in Webs : c.self = FALSE
  <2>1. Web.self = FALSE /\ Away(Web).self = FALSE /\ External(Away(Web)).self = FALSE
    BY DEF Web, Away, External
  <2>2. [Web EXCEPT !.running = FALSE].self = FALSE /\ [Web EXCEPT !.tunnel = <<"other">>].self = FALSE
        /\ [Web EXCEPT !.readable = FALSE].self = FALSE
    BY DEF Web
  <2>3. [Away(Web) EXCEPT !.tunnel = <<Tunnel>>].self = FALSE
        /\ [Away(Web) EXCEPT !.mode = "host"].self = FALSE
        /\ [Away(Web) EXCEPT !.name = "web.1", !.dotted = TRUE].self = FALSE
    BY DEF Web, Away
  <2>4. \A h : Named(Web, h).self = FALSE
    BY DEF Web, Named
  <2> QED BY <2>1, <2>2, <2>3, <2>4 DEF Webs
<1>2. \A c \in Connectors : c.self = FALSE
  BY DEF Connectors
<1> QED BY <1>1, <1>2 DEF AnyContainer

(* Absence from a usable inventory means what the grace period takes it to *)
(* mean, for any list of containers, settings and answers.                 *)
THEOREM InventoryIsTrueHolds == DiscoverySpec => []InventoryIsTrue
<1>1. DiscoveryTyped => InventoryIsTrue
  BY InventoryOfAnyList DEF DiscoveryTyped
<1> QED BY <1>1, DiscoveryIsTyped, PTL

(* The order of Docker's list decides nothing that is not asked for twice. *)
THEOREM OrderIndependentHolds == DiscoverySpec => []OrderIndependent
<1>1. ASSUME DiscoveryTyped PROVE OrderIndependent
  <2>1. \A i \in 1 .. Len(actual) : actual[i] \in AnyContainer
    BY <1>1 DEF DiscoveryTyped
  <2> QED BY <1>1, <2>1, OneSynchronizer, OrderOfAnyList DEF DiscoveryTyped
<1> QED BY <1>1, DiscoveryIsTyped, PTL
=============================================================================
