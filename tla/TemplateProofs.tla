---------------------------- MODULE TemplateProofs -----------------------------
(***************************************************************************)
(* The numbered rows of the workflow templates (TemplateTasks) implement   *)
(* the lists of TaskLists, in the composition that is model-checked, for   *)
(* any templates, agency's own keys and number of rows.                    *)
(*                                                                         *)
(* Where a row comes is counted: its place is one more than the number of  *)
(* rows before it.  The lemmas show that this puts the rows in a sequence, *)
(* and that two sets of rows that agree but for one row give sequences     *)
(* that agree but for one element; every handler is then such a pair.      *)
(***************************************************************************)
EXTENDS MC_AgentPages, FiniteSetTheorems, SequenceTheorems, TLAPS

-----------------------------------------------------------------------------
(* The rows of a template in their order *)

Keys == T!Catalog \cup CustomKeys \cup {NoKey}
NumberedRow == [at : Templates, order : Nat, key : Keys]
IsRows(R) == IsFiniteSet(DOMAIN R) /\ DOMAIN R \subseteq Nat /\ R \in [DOMAIN R -> NumberedRow]

\* The sequence s has every row of the template once, in the order of the numbers.
InOrder(R, t, s) ==
    /\ s \in Seq(T!OfTemplate(R, t))
    /\ \A i \in T!OfTemplate(R, t) : \E n \in 1 .. Len(s) : s[n] = i
    /\ \A m, n \in 1 .. Len(s) : m < n => T!Before(R, s[m], s[n])

LEMMA SameCardinality == \A S : T!Cardinality(S) = Cardinality(S)
  BY DEF T!Cardinality, Cardinality

LEMMA RowFacts ==
    ASSUME NEW R, IsRows(R), NEW i \in DOMAIN R
    PROVE  /\ R[i] \in NumberedRow /\ i \in Nat
           /\ R[i].at \in Templates /\ R[i].order \in Nat /\ R[i].key \in Keys
  BY DEF IsRows, NumberedRow

LEMMA BeforeIsStrict ==
    ASSUME NEW R, IsRows(R), NEW i \in DOMAIN R, NEW j \in DOMAIN R, NEW k \in DOMAIN R
    PROVE  /\ ~ T!Before(R, i, i)
           /\ T!Before(R, i, j) /\ T!Before(R, j, k) => T!Before(R, i, k)
           /\ i = j \/ T!Before(R, i, j) \/ T!Before(R, j, i)
           /\ ~ (T!Before(R, i, j) /\ T!Before(R, j, i))
  <1>1. /\ R[i].order \in Nat /\ R[j].order \in Nat /\ R[k].order \in Nat
        /\ i \in Nat /\ j \in Nat /\ k \in Nat
    BY DEF IsRows, NumberedRow
  <1> QED BY <1>1 DEF T!Before

LEMMA OfTemplateFinite ==
    ASSUME NEW R, IsRows(R), NEW t
    PROVE  /\ IsFiniteSet(T!OfTemplate(R, t))
           /\ Cardinality(T!OfTemplate(R, t)) \in Nat
           /\ T!OfTemplate(R, t) \subseteq DOMAIN R
           /\ T!OfTemplate(R, t) \subseteq Nat
  <1>1. T!OfTemplate(R, t) \subseteq DOMAIN R
    BY DEF T!OfTemplate
  <1>2. IsFiniteSet(DOMAIN R) /\ DOMAIN R \subseteq Nat
    BY DEF IsRows
  <1>3. IsFiniteSet(T!OfTemplate(R, t))
    BY <1>1, <1>2, FS_Subset
  <1> QED BY <1>1, <1>2, <1>3, FS_CardinalityType

LEMMA PlaceInRange ==
    ASSUME NEW R, IsRows(R), NEW i \in DOMAIN R
    PROVE  T!Place(R, i) \in 1 .. Cardinality(T!OfTemplate(R, R[i].at))
  <1> DEFINE O == T!OfTemplate(R, R[i].at)
             B == {j \in O : T!Before(R, j, i)}
  <1>1. IsFiniteSet(O) /\ Cardinality(O) \in Nat
    BY OfTemplateFinite
  <1>2. i \in O
    BY DEF T!OfTemplate
  <1>3. B \subseteq O \ {i}
    BY <1>2, BeforeIsStrict
  <1>4. IsFiniteSet(O \ {i}) /\ Cardinality(O \ {i}) = Cardinality(O) - 1
    BY <1>1, <1>2, FS_RemoveElement
  <1>5. IsFiniteSet(B) /\ Cardinality(B) <= Cardinality(O) - 1
    BY <1>3, <1>4, FS_Subset
  <1>6. Cardinality(B) \in Nat
    BY <1>5, FS_CardinalityType
  <1>7. T!Place(R, i) = 1 + Cardinality(B)
    BY SameCardinality DEF T!Place
  <1> HIDE DEF B, O
  <1>8. 1 + Cardinality(B) \in 1 .. Cardinality(O)
    BY <1>1, <1>5, <1>6
  <1> QED BY <1>7, <1>8 DEF O

LEMMA PlaceIsMonotone ==
    ASSUME NEW R, IsRows(R), NEW i \in DOMAIN R, NEW j \in DOMAIN R,
           R[i].at = R[j].at, T!Before(R, i, j)
    PROVE  T!Place(R, i) < T!Place(R, j)
  <1> DEFINE O == T!OfTemplate(R, R[i].at)
             B == {l \in O : T!Before(R, l, i)}
             C == {l \in O : T!Before(R, l, j)}
  <1>1. IsFiniteSet(O) /\ O \subseteq DOMAIN R
    BY OfTemplateFinite
  <1>2. i \in C /\ i \notin B /\ B \subseteq C
    <2>1. i \in C
      BY DEF T!OfTemplate
    <2>2. i \notin B
      BY BeforeIsStrict
    <2>3. ASSUME NEW l \in B PROVE l \in C
      BY <2>3, <1>1, BeforeIsStrict
    <2> QED BY <2>1, <2>2, <2>3
  <1>3. IsFiniteSet(C) /\ C \subseteq O
    BY <1>1, FS_Subset
  <1>4. IsFiniteSet(B) /\ Cardinality(B) <= Cardinality(C)
         /\ (Cardinality(C) = Cardinality(B) => C = B)
    BY <1>2, <1>3, FS_Subset
  <1>5. Cardinality(B) \in Nat /\ Cardinality(C) \in Nat
    BY <1>3, <1>4, FS_CardinalityType
  <1>6. T!Place(R, i) = 1 + Cardinality(B) /\ T!Place(R, j) = 1 + Cardinality(C)
    BY SameCardinality DEF T!Place
  <1> HIDE DEF B, C, O
  <1> QED BY <1>2, <1>4, <1>5, <1>6

LEMMA PlaceIsInjective ==
    ASSUME NEW R, IsRows(R), NEW i \in DOMAIN R, NEW j \in DOMAIN R,
           R[i].at = R[j].at, T!Place(R, i) = T!Place(R, j)
    PROVE  i = j
  <1>1. T!Place(R, i) \in Nat /\ T!Place(R, j) \in Nat
    BY PlaceInRange
  <1>2. CASE T!Before(R, i, j)
    BY <1>1, <1>2, PlaceIsMonotone
  <1>3. CASE T!Before(R, j, i)
    BY <1>1, <1>3, PlaceIsMonotone
  <1> QED BY <1>2, <1>3, BeforeIsStrict

\* Every place up to the number of rows is that of a row.
LEMMA PlaceIsTaken ==
    ASSUME NEW R, IsRows(R), NEW t, NEW n \in 1 .. Cardinality(T!OfTemplate(R, t))
    PROVE  \E i \in T!OfTemplate(R, t) : T!Place(R, i) = n
  <1> DEFINE O == T!OfTemplate(R, t)
             N == 1 .. Cardinality(O)
             f == [i \in O |-> T!Place(R, i)]
  <1>1. /\ IsFiniteSet(O) /\ Cardinality(O) \in Nat
        /\ \A i \in O : i \in DOMAIN R /\ R[i].at = t
    BY OfTemplateFinite DEF T!OfTemplate
  <1>2. \A i \in O : T!Place(R, i) \in N
    BY <1>1, PlaceInRange
  <1>3. \A i, j \in O : T!Place(R, i) = T!Place(R, j) => i = j
    BY <1>1, PlaceIsInjective
  <1>4. f \in [O -> N] /\ \A i, j \in O : f[i] = f[j] => i = j
    BY <1>2, <1>3
  <1>5. IsFiniteSet(N) /\ Cardinality(N) = Cardinality(O)
    BY <1>1, FS_Interval
  <1>6. \A i \in O : f[i] = T!Place(R, i)
    OBVIOUS
  <1>7. n \in N
    OBVIOUS
  <1> HIDE DEF f, O, N
  <1>8. f \in Injection(O, N)
    BY <1>4 DEF Injection, IsInjective
  <1>9. f \in Surjection(O, N)
    BY <1>5, <1>8, FS_Injection
  <1>10. \E i \in O : f[i] = n
    BY <1>7, <1>9 DEF Surjection
  <1> QED BY <1>6, <1>10 DEF O

LEMMA OrderedInOrder ==
    ASSUME NEW R, IsRows(R), NEW t
    PROVE  /\ InOrder(R, t, T!Ordered(R, t))
           /\ Len(T!Ordered(R, t)) = Cardinality(T!OfTemplate(R, t))
           /\ \A i \in T!OfTemplate(R, t) : T!Ordered(R, t)[T!Place(R, i)] = i
  <1> DEFINE O == T!OfTemplate(R, t)
             N == Cardinality(O)
             s == T!Ordered(R, t)
  <1>1. /\ N \in Nat
        /\ \A i \in O : i \in DOMAIN R /\ R[i].at = t
    BY OfTemplateFinite DEF T!OfTemplate
  <1>2. s = [n \in 1 .. N |-> CHOOSE i \in O : T!Place(R, i) = n]
    BY SameCardinality DEF T!Ordered
  <1>3. \A n \in 1 .. N : s[n] \in O /\ T!Place(R, s[n]) = n
    BY <1>2, PlaceIsTaken
  <1>4. \A i \in O : T!Place(R, i) \in 1 .. N
    BY <1>1, PlaceInRange
  <1>5. \A i \in O : s[T!Place(R, i)] = i
    BY <1>1, <1>3, <1>4, PlaceIsInjective
  <1>6. s \in [1 .. N -> O]
    BY <1>2, <1>3
  <1> HIDE DEF s, O, N
  <1>7. s \in Seq(O) /\ Len(s) = N
    BY <1>1, <1>6
  <1>8. ASSUME NEW m \in 1 .. N, NEW n \in 1 .. N, m < n PROVE T!Before(R, s[m], s[n])
    <2>1. /\ s[m] \in DOMAIN R /\ s[n] \in DOMAIN R /\ R[s[m]].at = R[s[n]].at
          /\ T!Place(R, s[m]) = m /\ T!Place(R, s[n]) = n
      BY <1>1, <1>3
    <2>2. ~ T!Before(R, s[n], s[m])
      BY <2>1, <1>8, <1>1, PlaceIsMonotone
    <2>3. s[m] # s[n]
      BY <2>1, <1>8, <1>1
    <2> QED BY <2>1, <2>2, <2>3, BeforeIsStrict
  <1>9. InOrder(R, t, s)
    BY <1>4, <1>5, <1>7, <1>8 DEF InOrder, O
  <1> QED BY <1>5, <1>7, <1>9 DEF s, O, N

\* What is in order is what Ordered gives.
LEMMA InOrderIsOrdered ==
    ASSUME NEW R, IsRows(R), NEW t, NEW s, InOrder(R, t, s)
    PROVE  /\ s = T!Ordered(R, t)
           /\ \A n \in 1 .. Len(s) : T!Place(R, s[n]) = n
  <1> DEFINE O == T!OfTemplate(R, t)
             N == Len(s)
  <1>1. /\ O \subseteq DOMAIN R /\ IsFiniteSet(O)
        /\ \A i \in O : R[i].at = t
    BY OfTemplateFinite DEF T!OfTemplate
  <1>2. /\ s \in Seq(O) /\ N \in Nat /\ s \in [1 .. N -> O]
        /\ \A i \in O : \E n \in 1 .. N : s[n] = i
        /\ \A m, n \in 1 .. N : m < n => T!Before(R, s[m], s[n])
    BY DEF InOrder
  <1>3. \A m, n \in 1 .. N : T!Before(R, s[m], s[n]) <=> m < n
    <2> TAKE m, n \in 1 .. N
    <2>1. m < n \/ m = n \/ n < m
      BY <1>2
    <2>2. s[m] \in DOMAIN R /\ s[n] \in DOMAIN R
      BY <1>1, <1>2
    <2> QED BY <2>1, <2>2, <1>2, BeforeIsStrict
  <1>4. ASSUME NEW n \in 1 .. N PROVE T!Place(R, s[n]) = n
    <2> DEFINE B == {j \in O : T!Before(R, j, s[n])}
               f == [m \in 1 .. n - 1 |-> s[m]]
    <2>1. T!Place(R, s[n]) = 1 + Cardinality(B)
      BY <1>1, <1>2, SameCardinality DEF T!Place
    <2>2. n - 1 \in Nat /\ \A m \in 1 .. n - 1 : m \in 1 .. N /\ m < n /\ s[m] \in B
      BY <1>2, <1>3
    <2>3. f \in [1 .. n - 1 -> B]
      BY <2>2
    <2>4. \A j \in B : \E m \in 1 .. n - 1 : s[m] = j
      BY <1>2, <1>3
    <2>5. \A l, m \in 1 .. n - 1 : s[l] = s[m] => l = m
      <3> TAKE l, m \in 1 .. n - 1
      <3>1. l < m \/ l = m \/ m < l
        BY <2>2
      <3> QED BY <3>1, <2>2, <1>1, <1>2, <1>3, BeforeIsStrict
    <2>6. \A m \in 1 .. n - 1 : f[m] = s[m]
      OBVIOUS
    <2> HIDE DEF f, B
    <2>7. f \in Bijection(1 .. n - 1, B)
      BY <2>3, <2>4, <2>5, <2>6 DEF Bijection, Injection, Surjection, IsInjective
    <2>8. IsFiniteSet(1 .. n - 1) /\ Cardinality(1 .. n - 1) = n - 1
      BY <2>2, FS_Interval
    <2>9. Cardinality(B) = n - 1
      BY <2>7, <2>8, FS_Bijection DEF ExistsBijection
    <2> QED BY <2>1, <2>2, <2>9
  <1>5. InOrder(R, t, T!Ordered(R, t)) /\ Len(T!Ordered(R, t)) = Cardinality(O)
        /\ \A i \in O : T!Ordered(R, t)[T!Place(R, i)] = i
    BY OrderedInOrder
  <1>6. Cardinality(O) \in Nat /\ \A i \in O : T!Place(R, i) \in 1 .. Cardinality(O)
    BY <1>1, OfTemplateFinite, PlaceInRange
  <1>7. \A n \in 1 .. N : n \in 1 .. Cardinality(O) /\ T!Ordered(R, t)[n] = s[n]
    BY <1>2, <1>4, <1>5, <1>6
  <1>8. \A n \in 1 .. Cardinality(O) : n \in 1 .. N
    <2> TAKE n \in 1 .. Cardinality(O)
    <2>1. PICK i \in O : T!Place(R, i) = n
      BY PlaceIsTaken
    <2> QED BY <2>1, <1>2, <1>4
  <1>9. Cardinality(O) = N
    BY <1>2, <1>6, <1>7, <1>8
  <1>10. T!Ordered(R, t) \in Seq(O)
    BY <1>5 DEF InOrder
  <1>11. s = T!Ordered(R, t)
    BY <1>2, <1>5, <1>7, <1>9, <1>10, SeqEqual
  <1> QED BY <1>4, <1>11

-----------------------------------------------------------------------------
(* Sequences with one element more or less *)

LEMMA RemoveAtFacts ==
    ASSUME NEW S, NEW s \in Seq(S), NEW q \in 1 .. Len(s)
    PROVE  /\ T!RemoveAt(s, q) \in Seq(S)
           /\ Len(T!RemoveAt(s, q)) = Len(s) - 1
           /\ \A n \in 1 .. Len(s) - 1 :
                 T!RemoveAt(s, q)[n] = IF n < q THEN s[n] ELSE s[n + 1]
  <1> DEFINE a == SubSeq(s, 1, q - 1)
             b == SubSeq(s, q + 1, Len(s))
  <1>1. /\ Len(s) \in Nat /\ q \in Nat /\ 1 <= q /\ q <= Len(s)
        /\ \A n \in 1 .. Len(s) : s[n] \in S
    OBVIOUS
  <1>2. /\ a \in Seq(S) /\ Len(a) = q - 1
        /\ \A n \in 1 .. q - 1 : a[n] = s[n]
    <2>1. \A n \in 1 .. q - 1 : s[n] \in S
      BY <1>1
    <2>2. /\ a \in Seq(S) /\ Len(a) = IF 1 <= q - 1 THEN q - 1 - 1 + 1 ELSE 0
          /\ \A n \in 1 .. q - 1 - 1 + 1 : a[n] = s[1 + n - 1]
      BY <1>1, <2>1, SubSeqProperties
    <2> QED BY <1>1, <2>2
  <1>3. /\ b \in Seq(S) /\ Len(b) = Len(s) - q
        /\ \A n \in 1 .. Len(s) - q : b[n] = s[q + n]
    <2>1. \A n \in q + 1 .. Len(s) : s[n] \in S
      BY <1>1
    <2>2. /\ b \in Seq(S) /\ Len(b) = IF q + 1 <= Len(s) THEN Len(s) - (q + 1) + 1 ELSE 0
          /\ \A n \in 1 .. Len(s) - (q + 1) + 1 : b[n] = s[q + 1 + n - 1]
      BY <1>1, <2>1, SubSeqProperties
    <2> QED BY <1>1, <2>2
  <1> HIDE DEF a, b
  <1>4. /\ a \o b \in Seq(S) /\ Len(a \o b) = Len(s) - 1
        /\ \A n \in 1 .. Len(s) - 1 : (a \o b)[n] = IF n <= q - 1 THEN a[n] ELSE b[n - (q - 1)]
    BY <1>1, <1>2, <1>3, ConcatProperties
  <1>5. \A n \in 1 .. Len(s) - 1 : (a \o b)[n] = IF n < q THEN s[n] ELSE s[n + 1]
    <2> TAKE n \in 1 .. Len(s) - 1
    <2>1. CASE n < q
      <3>1. n \in 1 .. q - 1 /\ n <= q - 1
        BY <2>1, <1>1
      <3> QED BY <2>1, <3>1, <1>2, <1>4
    <2>2. CASE ~ (n < q)
      <3>1. n - (q - 1) \in 1 .. Len(s) - q /\ q + (n - (q - 1)) = n + 1 /\ ~ (n <= q - 1)
        BY <2>2, <1>1
      <3>2. b[n - (q - 1)] = s[q + (n - (q - 1))]
        BY <3>1, <1>3
      <3> QED BY <2>2, <3>1, <3>2, <1>4
    <2> QED BY <2>1, <2>2
  <1>6. T!RemoveAt(s, q) = a \o b
    BY DEF T!RemoveAt, a, b
  <1> QED BY <1>4, <1>5, <1>6

LEMMA InsertAtFacts ==
    ASSUME NEW S, NEW s \in Seq(S), NEW p \in 1 .. Len(s) + 1, NEW e \in S
    PROVE  /\ T!InsertAt(s, p, e) \in Seq(S)
           /\ Len(T!InsertAt(s, p, e)) = Len(s) + 1
           /\ \A n \in 1 .. Len(s) + 1 :
                 T!InsertAt(s, p, e)[n] = IF n < p THEN s[n] ELSE IF n = p THEN e ELSE s[n - 1]
  <1> DEFINE a == SubSeq(s, 1, p - 1)
             b == SubSeq(s, p, Len(s))
             c == <<e>>
  <1>1. /\ Len(s) \in Nat /\ p \in Nat /\ 1 <= p /\ p <= Len(s) + 1
        /\ \A n \in 1 .. Len(s) : s[n] \in S
    OBVIOUS
  <1>2. /\ a \in Seq(S) /\ Len(a) = p - 1
        /\ \A n \in 1 .. p - 1 : a[n] = s[n]
    <2>1. \A n \in 1 .. p - 1 : s[n] \in S
      BY <1>1
    <2>2. /\ a \in Seq(S) /\ Len(a) = IF 1 <= p - 1 THEN p - 1 - 1 + 1 ELSE 0
          /\ \A n \in 1 .. p - 1 - 1 + 1 : a[n] = s[1 + n - 1]
      BY <1>1, <2>1, SubSeqProperties
    <2> QED BY <1>1, <2>2
  <1>3. /\ b \in Seq(S) /\ Len(b) = Len(s) - p + 1
        /\ \A n \in 1 .. Len(s) - p + 1 : b[n] = s[p + n - 1]
    <2>1. \A n \in p .. Len(s) : s[n] \in S
      BY <1>1
    <2>2. /\ b \in Seq(S) /\ Len(b) = IF p <= Len(s) THEN Len(s) - p + 1 ELSE 0
          /\ \A n \in 1 .. Len(s) - p + 1 : b[n] = s[p + n - 1]
      BY <1>1, <2>1, SubSeqProperties
    <2> QED BY <1>1, <2>2
  <1>4. c \in Seq(S) /\ Len(c) = 1 /\ c[1] = e
    OBVIOUS
  <1> HIDE DEF a, b, c
  <1>5. /\ a \o c \in Seq(S) /\ Len(a \o c) = p
        /\ \A n \in 1 .. p : (a \o c)[n] = IF n <= p - 1 THEN a[n] ELSE c[n - (p - 1)]
    <2>1. Len(a) + Len(c) = p
      BY <1>1, <1>2, <1>4
    <2>2. /\ a \o c \in Seq(S) /\ Len(a \o c) = Len(a) + Len(c)
          /\ \A n \in 1 .. Len(a) + Len(c) :
                (a \o c)[n] = IF n <= Len(a) THEN a[n] ELSE c[n - Len(a)]
      BY <1>2, <1>4, ConcatProperties
    <2> QED BY <2>1, <2>2, <1>2
  <1>6. /\ (a \o c) \o b \in Seq(S) /\ Len((a \o c) \o b) = Len(s) + 1
        /\ \A n \in 1 .. Len(s) + 1 :
              ((a \o c) \o b)[n] = IF n <= p THEN (a \o c)[n] ELSE b[n - p]
    <2> DEFINE d == a \o c
    <2>1. d \in Seq(S) /\ Len(d) = p
      BY <1>5
    <2> HIDE DEF d
    <2>2. Len(d) + Len(b) = Len(s) + 1
      BY <1>1, <1>3, <2>1
    <2>3. /\ d \o b \in Seq(S) /\ Len(d \o b) = Len(d) + Len(b)
          /\ \A n \in 1 .. Len(d) + Len(b) :
                (d \o b)[n] = IF n <= Len(d) THEN d[n] ELSE b[n - Len(d)]
      BY <1>3, <2>1, ConcatProperties
    <2>4. /\ d \o b \in Seq(S) /\ Len(d \o b) = Len(s) + 1
          /\ \A n \in 1 .. Len(s) + 1 : (d \o b)[n] = IF n <= p THEN d[n] ELSE b[n - p]
      BY <2>1, <2>2, <2>3
    <2> QED BY <2>4 DEF d
  <1>7. \A n \in 1 .. Len(s) + 1 :
           ((a \o c) \o b)[n] = IF n < p THEN s[n] ELSE IF n = p THEN e ELSE s[n - 1]
    <2> TAKE n \in 1 .. Len(s) + 1
    <2>1. CASE n < p
      BY <2>1, <1>1, <1>2, <1>5, <1>6
    <2>2. CASE n = p
      <3>1. n <= p /\ n \in 1 .. p /\ ~ (n <= p - 1) /\ ~ (n < p) /\ n - (p - 1) = 1
        BY <2>2, <1>1
      <3>2. (a \o c)[n] = c[n - (p - 1)]
        BY <3>1, <1>5
      <3> QED BY <2>2, <3>1, <3>2, <1>4, <1>6
    <2>3. CASE n > p
      <3>1. /\ n - p \in 1 .. Len(s) - p + 1 /\ p + (n - p) - 1 = n - 1
            /\ ~ (n <= p) /\ ~ (n < p) /\ n # p
        BY <2>3, <1>1
      <3>2. b[n - p] = s[p + (n - p) - 1]
        BY <3>1, <1>3
      <3>3. ((a \o c) \o b)[n] = b[n - p]
        BY <3>1, <1>6
      <3> QED BY <3>1, <3>2, <3>3
    <2>4. n < p \/ n = p \/ n > p
      BY <1>1
    <2> QED BY <2>1, <2>2, <2>3, <2>4
  <1>8. T!InsertAt(s, p, e) = (a \o c) \o b
    BY DEF T!InsertAt, a, b, c
  <1> QED BY <1>6, <1>7, <1>8

LEMMA SameSequenceOperators ==
    /\ \A s, n : A!RemoveAt(s, n) = T!RemoveAt(s, n)
    /\ \A s, n, e : A!InsertAt(s, n, e) = T!InsertAt(s, n, e)
  BY DEF A!RemoveAt, T!RemoveAt, A!InsertAt, T!InsertAt

\* What is removed and put back leaves the sequence as it was.
LEMMA InsertRemoved ==
    ASSUME NEW S, NEW s \in Seq(S), NEW q \in 1 .. Len(s)
    PROVE  s = T!InsertAt(T!RemoveAt(s, q), q, s[q])
  <1> DEFINE r == T!RemoveAt(s, q)
  <1>1. /\ r \in Seq(S) /\ Len(r) = Len(s) - 1 /\ Len(s) \in Nat /\ s[q] \in S
        /\ \A n \in 1 .. Len(s) - 1 : r[n] = IF n < q THEN s[n] ELSE s[n + 1]
    BY RemoveAtFacts
  <1> HIDE DEF r
  <1>2. q \in 1 .. Len(r) + 1 /\ Len(r) + 1 = Len(s)
    BY <1>1
  <1>3. /\ T!InsertAt(r, q, s[q]) \in Seq(S)
        /\ Len(T!InsertAt(r, q, s[q])) = Len(s)
        /\ \A n \in 1 .. Len(s) :
              T!InsertAt(r, q, s[q])[n] = IF n < q THEN r[n] ELSE IF n = q THEN s[q] ELSE r[n - 1]
    <2>1. /\ T!InsertAt(r, q, s[q]) \in Seq(S)
          /\ Len(T!InsertAt(r, q, s[q])) = Len(r) + 1
          /\ \A n \in 1 .. Len(r) + 1 :
                T!InsertAt(r, q, s[q])[n] = IF n < q THEN r[n] ELSE IF n = q THEN s[q] ELSE r[n - 1]
      <3> DEFINE e == s[q]
      <3>1. r \in Seq(S) /\ e \in S /\ q \in 1 .. Len(r) + 1
        BY <1>1, <1>2
      <3> HIDE DEF e
      <3>2. /\ T!InsertAt(r, q, e) \in Seq(S)
            /\ Len(T!InsertAt(r, q, e)) = Len(r) + 1
            /\ \A n \in 1 .. Len(r) + 1 :
                  T!InsertAt(r, q, e)[n] = IF n < q THEN r[n] ELSE IF n = q THEN e ELSE r[n - 1]
        BY <3>1, InsertAtFacts
      <3> QED BY <3>2 DEF e
    <2> QED BY <1>2, <2>1
  <1>4. \A n \in 1 .. Len(s) : T!InsertAt(r, q, s[q])[n] = s[n]
    <2> TAKE n \in 1 .. Len(s)
    <2>1. CASE n < q
      <3>1. n \in 1 .. Len(s) - 1
        BY <2>1, <1>1
      <3> QED BY <2>1, <3>1, <1>1, <1>3
    <2>2. CASE n = q
      <3>1. ~ (n < q)
        BY <2>2, <1>1
      <3> QED BY <2>2, <3>1, <1>3
    <2>3. CASE n > q
      <3>1. n - 1 \in 1 .. Len(s) - 1 /\ ~ (n < q) /\ n # q /\ ~ (n - 1 < q) /\ n - 1 + 1 = n
        BY <2>3, <1>1
      <3>2. r[n - 1] = s[n - 1 + 1]
        BY <3>1, <1>1
      <3>3. T!InsertAt(r, q, s[q])[n] = r[n - 1]
        BY <3>1, <1>3
      <3> QED BY <3>1, <3>2, <3>3
    <2> QED BY <1>1, <2>1, <2>2, <2>3
  <1>5. T!InsertAt(r, q, s[q]) = s
    BY <1>3, <1>4, SeqEqual
  <1> QED BY <1>5 DEF r

-----------------------------------------------------------------------------
(* Lists of two sets of rows *)

\* Rows that come in the same order give the same sequence.
LEMMA SameOrder ==
    ASSUME NEW R, IsRows(R), NEW Q, IsRows(Q), NEW t,
           T!OfTemplate(Q, t) = T!OfTemplate(R, t),
           \A i, j \in T!OfTemplate(R, t) : T!Before(R, i, j) => T!Before(Q, i, j)
    PROVE  T!Ordered(Q, t) = T!Ordered(R, t)
  <1> DEFINE s == T!Ordered(R, t)
  <1>1. InOrder(R, t, s)
    BY OrderedInOrder
  <1> HIDE DEF s
  <1>2. s \in Seq(T!OfTemplate(R, t))
    BY <1>1 DEF InOrder
  <1>3. \A n \in 1 .. Len(s) : s[n] \in T!OfTemplate(R, t)
    BY <1>2
  <1>4. InOrder(Q, t, s)
    BY <1>1, <1>3 DEF InOrder
  <1>5. s = T!Ordered(Q, t)
    BY <1>4, InOrderIsOrdered
  <1> QED BY <1>5 DEF s

\* One row more is one element more in its place.
LEMMA OneRowMore ==
    ASSUME NEW R, IsRows(R), NEW Q, IsRows(Q), NEW t, NEW i \in T!OfTemplate(R, t),
           T!OfTemplate(Q, t) = T!OfTemplate(R, t) \ {i},
           \A j, k \in T!OfTemplate(Q, t) : T!Before(R, j, k) => T!Before(Q, j, k)
    PROVE  /\ T!Place(R, i) \in 1 .. Len(T!Ordered(R, t))
           /\ T!Ordered(R, t)[T!Place(R, i)] = i
           /\ T!Ordered(Q, t) = T!RemoveAt(T!Ordered(R, t), T!Place(R, i))
  <1> DEFINE O == T!OfTemplate(R, t)
             P == T!OfTemplate(Q, t)
             s == T!Ordered(R, t)
             q == T!Place(R, i)
             r == T!RemoveAt(s, q)
  <1>1. i \in DOMAIN R /\ R[i].at = t
    BY DEF T!OfTemplate
  <1>2. /\ InOrder(R, t, s) /\ s[q] = i /\ q \in 1 .. Len(s)
    BY <1>1, OrderedInOrder, PlaceInRange
  <1> HIDE DEF O, P, s, q
  <1>3. /\ s \in Seq(O) /\ Len(s) \in Nat /\ \A n \in 1 .. Len(s) : s[n] \in O
        /\ \A j \in O : \E n \in 1 .. Len(s) : s[n] = j
        /\ \A m, n \in 1 .. Len(s) : m < n => T!Before(R, s[m], s[n])
    BY <1>2 DEF InOrder, O
  <1>4. O \subseteq DOMAIN R
    BY DEF O, T!OfTemplate
  <1>5. \A m, n \in 1 .. Len(s) : s[m] = s[n] => m = n
    <2> TAKE m, n \in 1 .. Len(s)
    <2>1. m < n \/ m = n \/ n < m
      BY <1>3
    <2>2. s[m] \in DOMAIN R /\ s[n] \in DOMAIN R
      BY <1>3, <1>4
    <2> QED BY <2>1, <2>2, <1>3, BeforeIsStrict
  <1>6. /\ r \in Seq(O) /\ Len(r) = Len(s) - 1
        /\ \A n \in 1 .. Len(s) - 1 : r[n] = IF n < q THEN s[n] ELSE s[n + 1]
    BY <1>2, <1>3, RemoveAtFacts
  <1> HIDE DEF r
  <1>7. P = O \ {i}
    BY DEF P, O
  <1>8. \A n \in 1 .. Len(r) : r[n] \in P
    <2> TAKE n \in 1 .. Len(r)
    <2>1. n \in 1 .. Len(s) /\ n + 1 \in 1 .. Len(s)
      BY <1>3, <1>6
    <2>2. CASE n < q
      <3>1. r[n] = s[n] /\ n # q
        <4>1. n # q /\ n \in 1 .. Len(s) - 1
          BY <2>2, <1>2, <1>3, <1>6
        <4> QED BY <4>1, <2>2, <1>6
      <3> QED BY <3>1, <2>1, <1>2, <1>3, <1>5, <1>7
    <2>3. CASE ~ (n < q)
      <3>1. r[n] = s[n + 1]
        BY <2>3, <1>6
      <3>2. n + 1 # q
        BY <2>1, <2>3, <1>2, <1>3
      <3> QED BY <3>1, <3>2, <2>1, <1>2, <1>3, <1>5, <1>7
    <2> QED BY <2>2, <2>3
  <1>9. Len(r) \in Nat /\ r \in Seq(P)
    <2>1. Len(r) \in Nat /\ r \in [1 .. Len(r) -> O]
      BY <1>6
    <2>2. r \in [1 .. Len(r) -> P]
      BY <2>1, <1>8
    <2> QED BY <2>1, <2>2
  <1>10. \A j \in P : \E n \in 1 .. Len(r) : r[n] = j
    <2> TAKE j \in P
    <2>1. PICK n \in 1 .. Len(s) : s[n] = j
      BY <1>3, <1>7
    <2>2. n # q
      BY <2>1, <1>2, <1>7
    <2>3. CASE n < q
      <3>1. n \in 1 .. Len(r) /\ r[n] = s[n]
        BY <2>3, <1>2, <1>3, <1>6
      <3> QED BY <2>1, <3>1
    <2>4. CASE n > q
      <3>1. n - 1 \in 1 .. Len(r) /\ ~ (n - 1 < q) /\ (n - 1) + 1 = n
        BY <2>4, <1>2, <1>3, <1>6
      <3>2. r[n - 1] = s[n]
        BY <3>1, <1>6
      <3> QED BY <2>1, <3>1, <3>2
    <2> QED BY <2>2, <2>3, <2>4, <1>2, <1>3
  <1>11. \A m, n \in 1 .. Len(r) : m < n => T!Before(R, r[m], r[n])
    <2> TAKE m, n \in 1 .. Len(r)
    <2> HAVE m < n
    <2>1. /\ m \in 1 .. Len(s) /\ n \in 1 .. Len(s) /\ m + 1 \in 1 .. Len(s)
          /\ n + 1 \in 1 .. Len(s) /\ m < n + 1 /\ m + 1 < n + 1
      <3>1. Len(r) = Len(s) - 1 /\ Len(s) \in Nat /\ m \in 1 .. Len(r) /\ n \in 1 .. Len(r)
        BY <1>3, <1>6
      <3> QED BY <3>1
    <2>2. r[m] = (IF m < q THEN s[m] ELSE s[m + 1]) /\ r[n] = (IF n < q THEN s[n] ELSE s[n + 1])
      BY <1>6
    <2>3. CASE n < q
      <3>1. m < q
        BY <2>3, <1>2, <1>3, <1>6
      <3> QED BY <2>1, <2>2, <2>3, <3>1, <1>3
    <2>4. CASE ~ (n < q)
      BY <2>1, <2>2, <2>4, <1>3
    <2> QED BY <2>3, <2>4
  <1>12. \A j, k \in P : T!Before(R, j, k) => T!Before(Q, j, k)
    BY DEF P
  <1>13. \A m, n \in 1 .. Len(r) : m < n => T!Before(Q, r[m], r[n])
    BY <1>8, <1>11, <1>12
  <1>14. InOrder(Q, t, r)
    BY <1>9, <1>10, <1>13 DEF InOrder, P
  <1>15. r = T!Ordered(Q, t)
    BY <1>14, InOrderIsOrdered
  <1> QED BY <1>2, <1>15 DEF r, s, q

-----------------------------------------------------------------------------
(* What the page shows of a template *)

Entry(R, i) == [id |-> i, key |-> R[i].key]
Entries(R) == {Entry(R, i) : i \in DOMAIN R}
ListIn(R, t) == [n \in DOMAIN T!Ordered(R, t) |-> Entry(R, T!Ordered(R, t)[n])]

LEMMA ListsAreListIn ==
    /\ T!Lists = [t \in Templates |-> ListIn(tasks, t)]
    /\ T!Lists' = [t \in Templates |-> ListIn(tasks', t)]
  BY DEF T!Lists, T!ListOf, ListIn, Entry

LEMMA ListInFacts ==
    ASSUME NEW R, IsRows(R), NEW t
    PROVE  /\ ListIn(R, t) \in Seq(Entries(R))
           /\ Len(ListIn(R, t)) = Len(T!Ordered(R, t))
           /\ Len(ListIn(R, t)) = Cardinality(T!OfTemplate(R, t))
           /\ Len(ListIn(R, t)) \in Nat
           /\ DOMAIN ListIn(R, t) = 1 .. Len(ListIn(R, t))
           /\ \A n \in 1 .. Len(ListIn(R, t)) :
                 /\ T!Ordered(R, t)[n] \in T!OfTemplate(R, t)
                 /\ ListIn(R, t)[n] = Entry(R, T!Ordered(R, t)[n])
  <1> DEFINE s == T!Ordered(R, t)
             l == ListIn(R, t)
             O == T!OfTemplate(R, t)
  <1>1. s \in Seq(O) /\ Len(s) = Cardinality(O)
    BY OrderedInOrder DEF InOrder
  <1>2. O \subseteq DOMAIN R
    BY DEF T!OfTemplate
  <1>3. l = [n \in DOMAIN s |-> Entry(R, s[n])]
    BY DEF ListIn
  <1> HIDE DEF s, l, O
  <1>4. DOMAIN s = 1 .. Len(s) /\ Len(s) \in Nat /\ \A n \in 1 .. Len(s) : s[n] \in O
    BY <1>1
  <1>5. \A n \in 1 .. Len(s) : Entry(R, s[n]) \in Entries(R)
    BY <1>2, <1>4 DEF Entries
  <1>6. l \in [1 .. Len(s) -> Entries(R)]
    BY <1>3, <1>4, <1>5
  <1>7. l \in Seq(Entries(R)) /\ Len(l) = Len(s)
    BY <1>4, <1>6
  <1> QED BY <1>1, <1>3, <1>4, <1>7 DEF s, l, O

LEMMA SameList ==
    ASSUME NEW R, IsRows(R), NEW Q, IsRows(Q), NEW t,
           T!OfTemplate(Q, t) = T!OfTemplate(R, t),
           \A i \in T!OfTemplate(R, t) : Q[i].key = R[i].key,
           \A i, j \in T!OfTemplate(R, t) : T!Before(R, i, j) => T!Before(Q, i, j)
    PROVE  ListIn(Q, t) = ListIn(R, t)
  <1>1. T!Ordered(Q, t) = T!Ordered(R, t)
    BY SameOrder
  <1>2. /\ DOMAIN T!Ordered(R, t) = 1 .. Len(ListIn(R, t))
        /\ \A n \in 1 .. Len(ListIn(R, t)) : T!Ordered(R, t)[n] \in T!OfTemplate(R, t)
    BY ListInFacts DEF ListIn
  <1>3. \A n \in DOMAIN T!Ordered(R, t) :
           Entry(Q, T!Ordered(R, t)[n]) = Entry(R, T!Ordered(R, t)[n])
    BY <1>2 DEF Entry
  <1> QED BY <1>1, <1>3 DEF ListIn

LEMMA OneEntryMore ==
    ASSUME NEW R, IsRows(R), NEW Q, IsRows(Q), NEW t, NEW i \in T!OfTemplate(R, t),
           T!OfTemplate(Q, t) = T!OfTemplate(R, t) \ {i},
           \A j \in T!OfTemplate(Q, t) : Q[j].key = R[j].key,
           \A j, k \in T!OfTemplate(Q, t) : T!Before(R, j, k) => T!Before(Q, j, k)
    PROVE  /\ T!Place(R, i) \in 1 .. Len(ListIn(R, t))
           /\ ListIn(R, t)[T!Place(R, i)] = Entry(R, i)
           /\ Len(ListIn(R, t)) = Len(ListIn(Q, t)) + 1
           /\ ListIn(Q, t) = T!RemoveAt(ListIn(R, t), T!Place(R, i))
           /\ ListIn(R, t) = T!InsertAt(ListIn(Q, t), T!Place(R, i), Entry(R, i))
  <1> DEFINE q == T!Place(R, i)
             s == T!Ordered(R, t)
             r == T!Ordered(Q, t)
             k == ListIn(R, t)
             l == ListIn(Q, t)
             S == Entries(R) \cup Entries(Q)
             O == T!OfTemplate(R, t)
  <1>1. q \in 1 .. Len(s) /\ s[q] = i /\ r = T!RemoveAt(s, q)
    BY OneRowMore
  <1>2. /\ k \in Seq(Entries(R)) /\ Len(k) = Len(s) /\ Len(k) \in Nat
        /\ \A n \in 1 .. Len(k) : s[n] \in O /\ k[n] = Entry(R, s[n])
    BY ListInFacts
  <1>3. /\ l \in Seq(Entries(Q)) /\ Len(l) = Len(r) /\ Len(l) \in Nat
        /\ \A n \in 1 .. Len(l) : r[n] \in O \ {i} /\ l[n] = Entry(Q, r[n])
    BY ListInFacts
  <1>4. s \in Seq(O)
    BY OrderedInOrder DEF InOrder
  <1>5. \A j \in O \ {i} : Entry(Q, j) = Entry(R, j)
    BY DEF Entry
  <1> HIDE DEF q, s, r, k, l, S, O
  <1>6. k \in Seq(S) /\ l \in Seq(S)
    <2>1. k \in [1 .. Len(k) -> Entries(R)] /\ l \in [1 .. Len(l) -> Entries(Q)]
      BY <1>2, <1>3
    <2>2. k \in [1 .. Len(k) -> S] /\ l \in [1 .. Len(l) -> S]
      BY <2>1 DEF S
    <2> QED BY <2>2, <1>2, <1>3
  <1>7. /\ Len(r) = Len(s) - 1
        /\ \A n \in 1 .. Len(s) - 1 : r[n] = IF n < q THEN s[n] ELSE s[n + 1]
    BY <1>1, <1>4, RemoveAtFacts
  <1>8. q \in 1 .. Len(k)
    BY <1>1, <1>2
  <1>9. /\ T!RemoveAt(k, q) \in Seq(S) /\ Len(T!RemoveAt(k, q)) = Len(k) - 1
        /\ \A n \in 1 .. Len(k) - 1 : T!RemoveAt(k, q)[n] = IF n < q THEN k[n] ELSE k[n + 1]
    BY <1>6, <1>8, RemoveAtFacts
  <1>10. Len(l) = Len(k) - 1
    BY <1>2, <1>3, <1>7
  <1>11. \A n \in 1 .. Len(l) : l[n] = T!RemoveAt(k, q)[n]
    <2> TAKE n \in 1 .. Len(l)
    <2>1. /\ n \in 1 .. Len(k) /\ n + 1 \in 1 .. Len(k)
          /\ n \in 1 .. Len(k) - 1 /\ n \in 1 .. Len(s) - 1
      BY <1>2, <1>3, <1>7, <1>10
    <2>2. r[n] \in O \ {i} /\ l[n] = Entry(R, r[n])
      BY <1>3, <1>5
    <2>3. k[n] = Entry(R, s[n]) /\ k[n + 1] = Entry(R, s[n + 1])
      BY <2>1, <1>2
    <2>4. CASE n < q
      BY <2>1, <2>2, <2>3, <2>4, <1>7, <1>9
    <2>5. CASE ~ (n < q)
      BY <2>1, <2>2, <2>3, <2>5, <1>7, <1>9
    <2> QED BY <2>4, <2>5
  <1>12. l = T!RemoveAt(k, q)
    BY <1>6, <1>9, <1>10, <1>11, SeqEqual
  <1>13. k[q] = Entry(R, i)
    BY <1>1, <1>2, <1>8
  <1>14. k = T!InsertAt(l, q, Entry(R, i))
    BY <1>6, <1>8, <1>12, <1>13, InsertRemoved
  <1>15. Len(k) = Len(l) + 1
    BY <1>2, <1>3, <1>10
  <1> QED BY <1>8, <1>12, <1>13, <1>14, <1>15 DEF q, s, r, k, l

\* A row that changes its number is an element that goes to another place.
LEMMA OneRowMoved ==
    ASSUME NEW R, IsRows(R), NEW Q, IsRows(Q), NEW t, NEW i \in T!OfTemplate(R, t),
           T!OfTemplate(Q, t) = T!OfTemplate(R, t),
           \A j \in T!OfTemplate(R, t) : Q[j].key = R[j].key,
           \A j, k \in T!OfTemplate(R, t) \ {i} : T!Before(R, j, k) <=> T!Before(Q, j, k)
    PROVE  /\ Len(ListIn(Q, t)) = Len(ListIn(R, t))
           /\ T!Place(R, i) \in DOMAIN ListIn(R, t)
           /\ T!Place(Q, i) \in DOMAIN ListIn(R, t)
           /\ ListIn(Q, t) = T!InsertAt(T!RemoveAt(ListIn(R, t), T!Place(R, i)),
                                        T!Place(Q, i), ListIn(R, t)[T!Place(R, i)])
  <1> DEFINE D == DOMAIN R \ {i}
             W == [j \in D |-> R[j]]
  <1>1. IsRows(W)
    <2>1. IsFiniteSet(D) /\ D \subseteq Nat
      BY FS_Subset DEF IsRows
    <2>2. \A j \in D : R[j] \in NumberedRow
      BY RowFacts
    <2> QED BY <2>1, <2>2 DEF IsRows
  <1>2. \A j \in D : W[j] = R[j]
    OBVIOUS
  <1>3. T!OfTemplate(W, t) = T!OfTemplate(R, t) \ {i}
    BY <1>2 DEF T!OfTemplate
  <1> HIDE DEF W
  <1>4. \A j \in T!OfTemplate(W, t) : j \in D /\ W[j].key = R[j].key /\ W[j].key = Q[j].key
    BY <1>2, <1>3 DEF T!OfTemplate
  <1>5. \A j, k \in T!OfTemplate(W, t) :
           (T!Before(R, j, k) => T!Before(W, j, k)) /\ (T!Before(Q, j, k) => T!Before(W, j, k))
    BY <1>2, <1>3, <1>4 DEF T!Before
  <1>6. /\ T!Place(R, i) \in 1 .. Len(ListIn(R, t))
        /\ ListIn(R, t)[T!Place(R, i)] = Entry(R, i)
        /\ Len(ListIn(R, t)) = Len(ListIn(W, t)) + 1
        /\ ListIn(W, t) = T!RemoveAt(ListIn(R, t), T!Place(R, i))
    BY <1>1, <1>3, <1>4, <1>5, OneEntryMore
  <1>7. /\ T!Place(Q, i) \in 1 .. Len(ListIn(Q, t))
        /\ Len(ListIn(Q, t)) = Len(ListIn(W, t)) + 1
        /\ ListIn(Q, t) = T!InsertAt(ListIn(W, t), T!Place(Q, i), Entry(Q, i))
    BY <1>1, <1>3, <1>4, <1>5, OneEntryMore
  <1>8. Entry(Q, i) = Entry(R, i)
    BY DEF Entry
  <1>9. DOMAIN ListIn(R, t) = 1 .. Len(ListIn(R, t))
    BY ListInFacts
  <1> QED BY <1>6, <1>7, <1>8, <1>9

-----------------------------------------------------------------------------
(* What the operators on rows do *)

LEMMA IdsAreFinite == IsFiniteSet(T!Ids) /\ T!Ids \subseteq Nat /\ Cardinality(T!Ids) = NTasks
  <1>1. NTasks \in Nat
    BY RoomAssumption
  <1>2. IsFiniteSet(1 .. NTasks) /\ Cardinality(1 .. NTasks) = NTasks
    BY <1>1, FS_Interval
  <1> QED BY <1>2 DEF T!Ids

LEMMA RowsOfIds ==
    ASSUME NEW R, DOMAIN R \subseteq T!Ids, R \in [DOMAIN R -> NumberedRow]
    PROVE  IsRows(R)
  <1>1. IsFiniteSet(DOMAIN R) /\ DOMAIN R \subseteq Nat
    BY IdsAreFinite, FS_Subset
  <1> QED BY <1>1 DEF IsRows

LEMMA RenumberedFacts ==
    ASSUME NEW R, IsRows(R), NEW S
    PROVE  /\ IsRows(T!Renumbered(R, S)) /\ DOMAIN T!Renumbered(R, S) = DOMAIN R
           /\ \A i \in DOMAIN R :
                 /\ T!Renumbered(R, S)[i].at = R[i].at
                 /\ T!Renumbered(R, S)[i].key = R[i].key
                 /\ R[i].at \in S => T!Renumbered(R, S)[i].order = T!Place(R, i)
                 /\ R[i].at \notin S => T!Renumbered(R, S)[i] = R[i]
           /\ \A i, j \in DOMAIN R : R[i].at = R[j].at =>
                 (T!Before(R, i, j) <=> T!Before(T!Renumbered(R, S), i, j))
  <1> DEFINE Q == T!Renumbered(R, S)
             C == [i \in DOMAIN R |-> [R[i] EXCEPT !.order = T!Place(R, i)]]
  <1>1. \A i \in DOMAIN R :
           C[i] \in NumberedRow /\ C[i].order = T!Place(R, i) /\ C[i].at = R[i].at
           /\ C[i].key = R[i].key
    <2> TAKE i \in DOMAIN R
    <2>1. R[i] \in NumberedRow /\ T!Place(R, i) \in Nat
      BY RowFacts, PlaceInRange
    <2>2. C[i] = [R[i] EXCEPT !.order = T!Place(R, i)]
      OBVIOUS
    <2> HIDE DEF C
    <2> QED BY <2>1, <2>2 DEF NumberedRow
  <1>2. \A i \in DOMAIN R : Q[i] = IF R[i].at \in S THEN C[i] ELSE R[i]
    BY DEF T!Renumbered
  <1>3. DOMAIN Q = DOMAIN R /\ Q = [i \in DOMAIN R |-> IF R[i].at \in S THEN C[i] ELSE R[i]]
    BY DEF T!Renumbered
  <1> HIDE DEF Q, C
  <1>4. \A i \in DOMAIN R : Q[i] \in NumberedRow
    BY <1>1, <1>2, RowFacts
  <1>5. IsRows(Q)
    BY <1>3, <1>4 DEF IsRows
  <1>6. \A i \in DOMAIN R :
           /\ Q[i].at = R[i].at /\ Q[i].key = R[i].key
           /\ R[i].at \in S => Q[i].order = T!Place(R, i)
           /\ R[i].at \notin S => Q[i] = R[i]
    BY <1>1, <1>2
  <1>7. \A i, j \in DOMAIN R : R[i].at = R[j].at /\ T!Before(R, i, j) => T!Before(Q, i, j)
    <2> TAKE i, j \in DOMAIN R
    <2> HAVE R[i].at = R[j].at /\ T!Before(R, i, j)
    <2>1. CASE R[i].at \in S
      <3>1. T!Place(R, i) < T!Place(R, j)
        BY PlaceIsMonotone
      <3>2. Q[i].order = T!Place(R, i) /\ Q[j].order = T!Place(R, j)
        BY <2>1, <1>6
      <3> QED BY <3>1, <3>2 DEF T!Before
    <2>2. CASE R[i].at \notin S
      <3>1. Q[i] = R[i] /\ Q[j] = R[j]
        BY <2>2, <1>6
      <3> QED BY <3>1 DEF T!Before
    <2> QED BY <2>1, <2>2
  <1>8. \A i, j \in DOMAIN R : R[i].at = R[j].at => (T!Before(R, i, j) <=> T!Before(Q, i, j))
    <2> TAKE i, j \in DOMAIN R
    <2> HAVE R[i].at = R[j].at
    <2>1. T!Before(R, i, j) \/ i = j \/ T!Before(R, j, i)
      BY BeforeIsStrict
    <2>2. ~ (T!Before(Q, i, j) /\ T!Before(Q, j, i)) /\ ~ T!Before(Q, i, i)
      BY <1>3, <1>5, BeforeIsStrict
    <2> QED BY <2>1, <2>2, <1>7
  <1> QED BY <1>3, <1>5, <1>6, <1>8 DEF Q

\* Numbering the rows anew leaves their places.
LEMMA RenumberedPlaces ==
    ASSUME NEW R, IsRows(R), NEW S, NEW i \in DOMAIN R
    PROVE  T!Place(T!Renumbered(R, S), i) = T!Place(R, i)
  <1> DEFINE Q == T!Renumbered(R, S)
  <1>1. /\ IsRows(Q) /\ DOMAIN Q = DOMAIN R
        /\ \A j \in DOMAIN R : Q[j].at = R[j].at
        /\ \A j, k \in DOMAIN R : R[j].at = R[k].at => (T!Before(R, j, k) <=> T!Before(Q, j, k))
    BY RenumberedFacts
  <1> HIDE DEF Q
  <1>2. T!OfTemplate(Q, Q[i].at) = T!OfTemplate(R, R[i].at)
    BY <1>1 DEF T!OfTemplate
  <1>3. \A j \in T!OfTemplate(R, R[i].at) : T!Before(R, j, i) <=> T!Before(Q, j, i)
    BY <1>1 DEF T!OfTemplate
  <1>4. {j \in T!OfTemplate(Q, Q[i].at) : T!Before(Q, j, i)}
           = {j \in T!OfTemplate(R, R[i].at) : T!Before(R, j, i)}
    BY <1>2, <1>3
  <1> QED BY <1>4 DEF T!Place, Q

LEMMA ShiftedFacts ==
    ASSUME NEW R, IsRows(R), NEW t, NEW p \in Nat
    PROVE  /\ IsRows(T!Shifted(R, t, p)) /\ DOMAIN T!Shifted(R, t, p) = DOMAIN R
           /\ \A i \in DOMAIN R :
                 /\ T!Shifted(R, t, p)[i].at = R[i].at
                 /\ T!Shifted(R, t, p)[i].key = R[i].key
                 /\ R[i].at # t \/ T!AtEnd(R, t, p) \/ R[i].order < p
                       => T!Shifted(R, t, p)[i] = R[i]
                 /\ ~ (R[i].at # t \/ T!AtEnd(R, t, p) \/ R[i].order < p)
                       => T!Shifted(R, t, p)[i].order = R[i].order + 1
           /\ \A i, j \in DOMAIN R : R[i].at = R[j].at =>
                 (T!Before(R, i, j) <=> T!Before(T!Shifted(R, t, p), i, j))
  <1> DEFINE Q == T!Shifted(R, t, p)
             C == [i \in DOMAIN R |-> [R[i] EXCEPT !.order = @ + 1]]
             Stays(i) == R[i].at # t \/ T!AtEnd(R, t, p) \/ R[i].order < p
  <1>1. \A i \in DOMAIN R :
           C[i] \in NumberedRow /\ C[i].order = R[i].order + 1 /\ C[i].at = R[i].at
           /\ C[i].key = R[i].key
    <2> TAKE i \in DOMAIN R
    <2>1. R[i] \in NumberedRow /\ R[i].order + 1 \in Nat
      BY RowFacts
    <2>2. C[i] = [R[i] EXCEPT !.order = @ + 1]
      OBVIOUS
    <2> HIDE DEF C
    <2> QED BY <2>1, <2>2 DEF NumberedRow
  <1>2. \A i \in DOMAIN R : R[i].order \in Nat /\ R[i] \in NumberedRow
    BY RowFacts
  <1>3. DOMAIN Q = DOMAIN R /\ \A i \in DOMAIN R : Q[i] = IF Stays(i) THEN R[i] ELSE C[i]
    <2>1. CASE T!AtEnd(R, t, p)
      BY <2>1 DEF T!Shifted
    <2>2. CASE ~ T!AtEnd(R, t, p)
      <3>1. Q = [i \in DOMAIN R |->
                    IF R[i].at = t /\ R[i].order >= p THEN [R[i] EXCEPT !.order = @ + 1] ELSE R[i]]
        BY <2>2 DEF T!Shifted
      <3>2. \A i \in DOMAIN R : (R[i].at = t /\ R[i].order >= p) <=> ~ Stays(i)
        BY <2>2, <1>2
      <3> QED BY <3>1, <3>2
    <2> QED BY <2>1, <2>2
  <1>4. Q \in [DOMAIN R -> NumberedRow]
    <2>1. \A i \in DOMAIN R : Q[i] \in NumberedRow
      BY <1>1, <1>2, <1>3
    <2>2. CASE T!AtEnd(R, t, p)
      BY <2>2 DEF T!Shifted, IsRows
    <2>3. CASE ~ T!AtEnd(R, t, p)
      <3>1. Q = [i \in DOMAIN R |->
                    IF R[i].at = t /\ R[i].order >= p THEN [R[i] EXCEPT !.order = @ + 1] ELSE R[i]]
        BY <2>3 DEF T!Shifted
      <3> HIDE DEF Q
      <3>2. Q = [i \in DOMAIN R |-> Q[i]]
        BY <3>1
      <3> QED BY <2>1, <3>2
    <2> QED BY <2>2, <2>3
  <1> HIDE DEF Q, C
  <1>5. IsRows(Q)
    BY <1>3, <1>4 DEF IsRows
  <1>6. \A i \in DOMAIN R :
           /\ Q[i].at = R[i].at /\ Q[i].key = R[i].key
           /\ Stays(i) => Q[i] = R[i]
           /\ ~ Stays(i) => Q[i].order = R[i].order + 1
    BY <1>1, <1>3
  <1>7. \A i, j \in DOMAIN R : R[i].at = R[j].at /\ T!Before(R, i, j) => T!Before(Q, i, j)
    <2> TAKE i, j \in DOMAIN R
    <2> HAVE R[i].at = R[j].at /\ T!Before(R, i, j)
    <2>1. /\ R[i].order \in Nat /\ R[j].order \in Nat /\ i \in Nat /\ j \in Nat
          /\ R[i].order < R[j].order \/ (R[i].order = R[j].order /\ i < j)
      BY RowFacts DEF T!Before
    <2>2. CASE Stays(i) /\ Stays(j)
      BY <2>1, <2>2, <1>6 DEF T!Before
    <2>3. CASE Stays(i) /\ ~ Stays(j)
      BY <2>1, <2>3, <1>6 DEF T!Before
    <2>4. CASE ~ Stays(i)
      <3>1. ~ Stays(j)
        BY <2>1, <2>4
      <3>2. Q[i].order = R[i].order + 1 /\ Q[j].order = R[j].order + 1
        BY <2>4, <3>1, <1>6
      <3> QED BY <2>1, <3>2 DEF T!Before
    <2> QED BY <2>2, <2>3, <2>4
  <1>8. \A i, j \in DOMAIN R : R[i].at = R[j].at => (T!Before(R, i, j) <=> T!Before(Q, i, j))
    <2> TAKE i, j \in DOMAIN R
    <2> HAVE R[i].at = R[j].at
    <2>1. T!Before(R, i, j) \/ i = j \/ T!Before(R, j, i)
      BY BeforeIsStrict
    <2>2. ~ (T!Before(Q, i, j) /\ T!Before(Q, j, i)) /\ ~ T!Before(Q, i, i)
      BY <1>3, <1>5, BeforeIsStrict
    <2> QED BY <2>1, <2>2, <1>7
  <1> QED BY <1>3, <1>5, <1>6, <1>8 DEF Q

LEMMA WithoutFacts ==
    ASSUME NEW R, IsRows(R), NEW gone
    PROVE  /\ IsRows(T!Without(R, gone)) /\ DOMAIN T!Without(R, gone) = DOMAIN R \ gone
           /\ \A i \in DOMAIN R \ gone : T!Without(R, gone)[i] = R[i]
  <1> DEFINE Q == T!Without(R, gone)
  <1>1. Q = [i \in DOMAIN R \ gone |-> R[i]]
    BY DEF T!Without, T!Restrict
  <1> HIDE DEF Q
  <1>2. DOMAIN Q = DOMAIN R \ gone /\ \A i \in DOMAIN R \ gone : Q[i] = R[i]
    BY <1>1
  <1>3. \A i \in DOMAIN R \ gone : R[i] \in NumberedRow
    BY RowFacts
  <1>4. Q \in [DOMAIN R \ gone -> NumberedRow]
    BY <1>1, <1>3
  <1>5. IsFiniteSet(DOMAIN R) /\ DOMAIN R \subseteq Nat
    BY DEF IsRows
  <1>6. IsFiniteSet(DOMAIN R \ gone)
    BY <1>5, FS_Subset
  <1>7. IsRows(Q)
    BY <1>2, <1>4, <1>5, <1>6 DEF IsRows
  <1> QED BY <1>2, <1>7 DEF Q

LEMMA InsertedFacts ==
    ASSUME NEW R, DOMAIN R \subseteq T!Ids, R \in [DOMAIN R -> NumberedRow],
           NEW news \in SUBSET NumberedRow, NEW Q \in T!Inserted(R, news)
    PROVE  /\ DOMAIN R \subseteq DOMAIN Q /\ DOMAIN Q \subseteq T!Ids
           /\ Q \in [DOMAIN Q -> NumberedRow] /\ IsRows(Q)
           /\ \A i \in DOMAIN R : Q[i] = R[i]
           /\ \A i \in DOMAIN Q \ DOMAIN R : Q[i] \in news
           /\ \A n \in news : \E i \in DOMAIN Q \ DOMAIN R : Q[i] = n
           /\ \A i, j \in DOMAIN Q \ DOMAIN R : Q[i] = Q[j] => i = j
  <1>0. PICK ids \in SUBSET (T!Ids \ DOMAIN R) : \E new \in T!Bijection(ids, news) :
           Q = [i \in DOMAIN R \cup DOMAIN new |-> IF i \in DOMAIN R THEN R[i] ELSE new[i]]
    BY DEF T!Inserted
  <1>1. PICK new \in T!Bijection(ids, news) :
           Q = [i \in DOMAIN R \cup DOMAIN new |-> IF i \in DOMAIN R THEN R[i] ELSE new[i]]
    BY <1>0
  <1>2. /\ new \in [ids -> news] /\ DOMAIN new = ids
        /\ \A n \in news : \E i \in ids : new[i] = n
        /\ \A i, j \in ids : new[i] = new[j] => i = j
    BY DEF T!Bijection, T!Injection, T!Surjection, T!IsInjective
  <1>3. /\ DOMAIN Q = DOMAIN R \cup ids
        /\ \A i \in DOMAIN R : Q[i] = R[i]
        /\ \A i \in ids : Q[i] = new[i]
    BY <1>1, <1>2
  <1>4. DOMAIN Q \ DOMAIN R = ids
    BY <1>3
  <1>5. \A i \in DOMAIN Q : Q[i] \in NumberedRow
    BY <1>2, <1>3
  <1>6. Q \in [DOMAIN Q -> NumberedRow]
    <2>1. Q = [i \in DOMAIN Q |-> Q[i]]
      BY <1>1
    <2> QED BY <2>1, <1>5
  <1>7. DOMAIN Q \subseteq T!Ids
    BY <1>3
  <1>8. IsRows(Q)
    BY <1>6, <1>7, RowsOfIds
  <1> QED BY <1>2, <1>3, <1>4, <1>6, <1>7, <1>8

-----------------------------------------------------------------------------
(* Two sets of rows that differ in one row, and perhaps in the numbers *)

SameBut(R, Q, i) ==
    /\ DOMAIN Q \ {i} = DOMAIN R \ {i}
    /\ \A j \in DOMAIN R \ {i} : Q[j].at = R[j].at /\ Q[j].key = R[j].key
    /\ \A j, k \in DOMAIN R \ {i} :
          R[j].at = R[k].at => (T!Before(R, j, k) <=> T!Before(Q, j, k))

LEMMA SameButChain ==
    ASSUME NEW R, NEW Q, NEW W, NEW i, SameBut(R, Q, i), SameBut(Q, W, i)
    PROVE  SameBut(R, W, i)
  BY DEF SameBut

LEMMA SameButBack ==
    ASSUME NEW R, NEW Q, NEW i, SameBut(R, Q, i)
    PROVE  SameBut(Q, R, i)
  BY DEF SameBut

LEMMA SameButRenumbered ==
    ASSUME NEW R, IsRows(R), NEW S, NEW i
    PROVE  SameBut(R, T!Renumbered(R, S), i)
  <1> DEFINE Q == T!Renumbered(R, S)
  <1>1. /\ DOMAIN Q = DOMAIN R
        /\ \A j \in DOMAIN R : Q[j].at = R[j].at /\ Q[j].key = R[j].key
        /\ \A j, k \in DOMAIN R : R[j].at = R[k].at => (T!Before(R, j, k) <=> T!Before(Q, j, k))
    BY RenumberedFacts
  <1> HIDE DEF Q
  <1>2. SameBut(R, Q, i)
    BY <1>1 DEF SameBut
  <1> QED BY <1>2 DEF Q

LEMMA SameButShifted ==
    ASSUME NEW R, IsRows(R), NEW t, NEW p \in Nat, NEW i
    PROVE  SameBut(R, T!Shifted(R, t, p), i)
  <1> DEFINE Q == T!Shifted(R, t, p)
  <1>1. /\ DOMAIN Q = DOMAIN R
        /\ \A j \in DOMAIN R : Q[j].at = R[j].at /\ Q[j].key = R[j].key
        /\ \A j, k \in DOMAIN R : R[j].at = R[k].at => (T!Before(R, j, k) <=> T!Before(Q, j, k))
    BY ShiftedFacts
  <1> HIDE DEF Q
  <1>2. SameBut(R, Q, i)
    BY <1>1 DEF SameBut
  <1> QED BY <1>2 DEF Q

\* Rows that stay as they are.
LEMMA SameButEqual ==
    ASSUME NEW R, NEW Q, NEW i, DOMAIN Q \ {i} = DOMAIN R \ {i},
           \A j \in DOMAIN R \ {i} : Q[j] = R[j]
    PROVE  SameBut(R, Q, i)
  BY DEF SameBut, T!Before

LEMMA SameButOfTemplate ==
    ASSUME NEW R, NEW Q, NEW i, SameBut(R, Q, i), NEW t
    PROVE  /\ T!OfTemplate(Q, t) \ {i} = T!OfTemplate(R, t) \ {i}
           /\ \A j \in T!OfTemplate(R, t) \ {i} : Q[j].key = R[j].key
           /\ \A j, k \in T!OfTemplate(R, t) \ {i} : T!Before(R, j, k) <=> T!Before(Q, j, k)
  <1>1. \A j \in DOMAIN R \ {i} : (Q[j].at = t <=> R[j].at = t) /\ Q[j].key = R[j].key
    BY DEF SameBut
  <1>2. T!OfTemplate(Q, t) \ {i} = T!OfTemplate(R, t) \ {i}
    BY <1>1 DEF SameBut, T!OfTemplate
  <1>3. \A j, k \in T!OfTemplate(R, t) \ {i} : T!Before(R, j, k) <=> T!Before(Q, j, k)
    BY DEF SameBut, T!OfTemplate
  <1> QED BY <1>1, <1>2, <1>3 DEF T!OfTemplate

LEMMA ListStays ==
    ASSUME NEW R, IsRows(R), NEW Q, IsRows(Q), NEW i, SameBut(R, Q, i), NEW t,
           i \notin T!OfTemplate(R, t), i \notin T!OfTemplate(Q, t)
    PROVE  ListIn(Q, t) = ListIn(R, t)
  BY SameButOfTemplate, SameList

LEMMA ListWithout ==
    ASSUME NEW R, IsRows(R), NEW Q, IsRows(Q), NEW i, SameBut(R, Q, i), NEW t,
           i \in T!OfTemplate(R, t), i \notin T!OfTemplate(Q, t)
    PROVE  /\ T!Place(R, i) \in 1 .. Len(ListIn(R, t))
           /\ ListIn(R, t)[T!Place(R, i)] = Entry(R, i)
           /\ Len(ListIn(R, t)) = Len(ListIn(Q, t)) + 1
           /\ ListIn(Q, t) = T!RemoveAt(ListIn(R, t), T!Place(R, i))
           /\ ListIn(R, t) = T!InsertAt(ListIn(Q, t), T!Place(R, i), Entry(R, i))
  <1>1. /\ T!OfTemplate(Q, t) = T!OfTemplate(R, t) \ {i}
        /\ \A j \in T!OfTemplate(Q, t) : Q[j].key = R[j].key
        /\ \A j, k \in T!OfTemplate(Q, t) : T!Before(R, j, k) => T!Before(Q, j, k)
    BY SameButOfTemplate
  <1> QED BY <1>1, OneEntryMore

LEMMA ListMoved ==
    ASSUME NEW R, IsRows(R), NEW Q, IsRows(Q), NEW i, SameBut(R, Q, i), NEW t,
           i \in T!OfTemplate(R, t), i \in T!OfTemplate(Q, t), Q[i].key = R[i].key
    PROVE  /\ Len(ListIn(Q, t)) = Len(ListIn(R, t))
           /\ T!Place(R, i) \in DOMAIN ListIn(R, t)
           /\ T!Place(Q, i) \in DOMAIN ListIn(R, t)
           /\ ListIn(Q, t) = T!InsertAt(T!RemoveAt(ListIn(R, t), T!Place(R, i)),
                                        T!Place(Q, i), ListIn(R, t)[T!Place(R, i)])
  <1>1. /\ T!OfTemplate(Q, t) = T!OfTemplate(R, t)
        /\ \A j \in T!OfTemplate(R, t) : Q[j].key = R[j].key
        /\ \A j, k \in T!OfTemplate(R, t) \ {i} : T!Before(R, j, k) <=> T!Before(Q, j, k)
    BY SameButOfTemplate
  <1> QED BY <1>1, OneRowMoved

-----------------------------------------------------------------------------
(* The numbers and the keys of the rows of a template *)

NumbersRight(R, t) ==
    /\ \A i \in T!OfTemplate(R, t) :
          R[i].order \in 1 .. NTasks + Cardinality(T!OfTemplate(R, t))
    /\ \A i, j \in T!OfTemplate(R, t) : i # j => R[i].order # R[j].order
KeysApart(R, t) ==
    \A i, j \in T!OfTemplate(R, t) : i # j /\ R[i].key = R[j].key => R[i].key = NoKey
SoundAt(R, t) == NumbersRight(R, t) /\ KeysApart(R, t)

LEMMA SoundStays ==
    ASSUME NEW R, NEW Q, NEW t, SoundAt(R, t),
           T!OfTemplate(Q, t) = T!OfTemplate(R, t),
           \A i \in T!OfTemplate(R, t) : Q[i] = R[i]
    PROVE  SoundAt(Q, t)
  BY DEF SoundAt, NumbersRight, KeysApart

LEMMA SoundRenumbered ==
    ASSUME NEW R, IsRows(R), NEW S, NEW t,
           IF t \in S THEN KeysApart(R, t) ELSE SoundAt(R, t)
    PROVE  SoundAt(T!Renumbered(R, S), t)
  <1> DEFINE Q == T!Renumbered(R, S)
             O == T!OfTemplate(R, t)
  <1>1. /\ IsRows(Q) /\ DOMAIN Q = DOMAIN R
        /\ \A i \in DOMAIN R :
              /\ Q[i].at = R[i].at /\ Q[i].key = R[i].key
              /\ R[i].at \in S => Q[i].order = T!Place(R, i)
              /\ R[i].at \notin S => Q[i] = R[i]
    BY RenumberedFacts
  <1> HIDE DEF Q
  <1>2. T!OfTemplate(Q, t) = O /\ \A i \in O : i \in DOMAIN R /\ R[i].at = t
    BY <1>1 DEF T!OfTemplate
  <1>3. CASE t \notin S
    BY <1>1, <1>2, <1>3, SoundStays DEF Q
  <1>4. CASE t \in S
    <2>1. KeysApart(Q, t)
      BY <1>1, <1>2, <1>4 DEF KeysApart
    <2>2. Cardinality(O) \in Nat /\ NTasks \in Nat
      BY OfTemplateFinite, RoomAssumption
    <2>3. \A i \in O : Q[i].order = T!Place(R, i) /\ T!Place(R, i) \in 1 .. Cardinality(O)
      BY <1>1, <1>2, <1>4, PlaceInRange
    <2>4. \A i \in O : Q[i].order \in 1 .. NTasks + Cardinality(O)
      BY <2>2, <2>3
    <2>5. \A i, j \in O : i # j => Q[i].order # Q[j].order
      BY <1>2, <2>3, PlaceIsInjective
    <2>6. NumbersRight(Q, t)
      BY <1>2, <2>4, <2>5 DEF NumbersRight
    <2> QED BY <2>1, <2>6 DEF SoundAt, Q
  <1> QED BY <1>3, <1>4

LEMMA MaxOrderFacts ==
    ASSUME NEW R, IsRows(R), NEW t
    PROVE  /\ T!MaxOrder(R, t) \in Nat
           /\ \A i \in T!OfTemplate(R, t) : R[i].order <= T!MaxOrder(R, t)
           /\ T!OfTemplate(R, t) # {} =>
                 \E i \in T!OfTemplate(R, t) : T!MaxOrder(R, t) = R[i].order
           /\ T!OfTemplate(R, t) = {} => T!MaxOrder(R, t) = 0
  <1> DEFINE O == T!OfTemplate(R, t)
             M == {0} \cup {R[i].order : i \in O}
             s == T!Ordered(R, t)
  <1>1. \A i \in O : i \in DOMAIN R /\ R[i].order \in Nat
    BY RowFacts DEF T!OfTemplate
  <1>2. InOrder(R, t, s)
    BY OrderedInOrder
  <1>3. T!MaxOrder(R, t) = CHOOSE x \in M : \A y \in M : x >= y
    BY DEF T!MaxOrder, T!Max
  <1> HIDE DEF s, O
  <1>4. /\ s \in Seq(O) /\ Len(s) \in Nat /\ \A n \in 1 .. Len(s) : s[n] \in O
        /\ \A i \in O : \E n \in 1 .. Len(s) : s[n] = i
        /\ \A m, n \in 1 .. Len(s) : m < n => T!Before(R, s[m], s[n])
    BY <1>2 DEF InOrder, O
  <1>5. \E x \in M : \A y \in M : x >= y
    <2>1. CASE O = {}
      BY <2>1
    <2>2. CASE O # {}
      <3>1. Len(s) \in 1 .. Len(s)
        BY <2>2, <1>4
      <3>2. s[Len(s)] \in O
        BY <3>1, <1>4
      <3>3. \A i \in O : R[i].order <= R[s[Len(s)]].order
        <4> TAKE i \in O
        <4>1. PICK n \in 1 .. Len(s) : s[n] = i
          BY <1>4
        <4>2. n = Len(s) \/ n < Len(s)
          BY <1>4
        <4>3. n < Len(s) => T!Before(R, i, s[Len(s)])
          BY <3>1, <4>1, <1>4
        <4>4. R[i].order \in Nat /\ R[s[Len(s)]].order \in Nat
          BY <3>2, <1>1
        <4> QED BY <4>1, <4>2, <4>3, <4>4 DEF T!Before
      <3> DEFINE x == R[s[Len(s)]].order
      <3>4. x \in M /\ x \in Nat
        BY <3>2, <1>1
      <3> HIDE DEF x
      <3>5. \A i \in O : R[i].order <= x
        BY <3>3 DEF x
      <3>6. \A y \in M : x >= y
        BY <3>4, <3>5, <1>1
      <3> QED BY <3>4, <3>6
    <2> QED BY <2>1, <2>2
  <1>6. T!MaxOrder(R, t) \in M /\ \A y \in M : T!MaxOrder(R, t) >= y
    BY <1>3, <1>5
  <1>7. M \subseteq Nat
    BY <1>1
  <1>8. T!MaxOrder(R, t) \in Nat /\ \A i \in O : R[i].order <= T!MaxOrder(R, t)
    BY <1>1, <1>6, <1>7
  <1>9. O = {} => T!MaxOrder(R, t) = 0
    BY <1>6
  <1>10. ASSUME O # {} PROVE \E i \in O : T!MaxOrder(R, t) = R[i].order
    <2>1. CASE T!MaxOrder(R, t) = 0
      BY <1>10, <2>1, <1>1, <1>8
    <2>2. CASE T!MaxOrder(R, t) # 0
      BY <2>2, <1>6
    <2> QED BY <2>1, <2>2
  <1> QED BY <1>8, <1>9, <1>10 DEF O

-----------------------------------------------------------------------------
(* The default tasks *)

DefaultKeys(t) == {Defaults[t][n] : n \in DOMAIN Defaults[t]}

LEMMA DefaultsFacts ==
    ASSUME NEW t \in Templates
    PROVE  /\ Defaults[t] \in Seq(DefaultKeys(t))
           /\ DOMAIN Defaults[t] = 1 .. Len(Defaults[t]) /\ Len(Defaults[t]) \in Nat
           /\ DOMAIN Defaults[t] \subseteq 1 .. NTasks
           /\ \A m, n \in DOMAIN Defaults[t] : Defaults[t][m] = Defaults[t][n] => m = n
           /\ \A n \in DOMAIN Defaults[t] : Defaults[t][n] \in T!Catalog
           /\ t \in T!Recommended <=> Defaults[t] # <<>>
  <1>1. DOMAIN Defaults[t] \subseteq 1 .. NTasks
    BY RoomAssumption
  <1>2. /\ Defaults[t] \in Seq(DefaultKeys(t))
        /\ \A m, n \in DOMAIN Defaults[t] : Defaults[t][m] = Defaults[t][n] => m = n
    BY DefaultsAssumption DEF DefaultKeys
  <1>3. DOMAIN Defaults[t] = 1 .. Len(Defaults[t]) /\ Len(Defaults[t]) \in Nat
    BY <1>2
  <1>4. t \in T!Recommended <=> Defaults[t] # <<>>
    BY DEF T!Recommended
  <1>5. ASSUME NEW n \in DOMAIN Defaults[t] PROVE Defaults[t][n] \in T!Catalog
    <2>1. Defaults[t] # <<>>
      BY <1>5
    <2>2. t \in T!Recommended /\ Defaults[t][n] \in T!ToSet(Defaults[t])
      BY <2>1, <1>4 DEF T!ToSet
    <2> QED BY <2>2 DEF T!Catalog
  <1> QED BY <1>1, <1>2, <1>3, <1>4, <1>5

\* New rows that are default tasks.
AreDefaults(news, E) ==
    \A x \in news :
        /\ x.at \in E /\ x.order \in DOMAIN Defaults[x.at] /\ x.key = Defaults[x.at][x.order]
        /\ x = [at |-> x.at, order |-> x.order, key |-> x.key]

LEMMA DefaultTasksAre ==
    ASSUME NEW t \in Templates, NEW present
    PROVE  /\ AreDefaults(T!DefaultTasks(t, present), {t})
           /\ \A n \in DOMAIN Defaults[t] : Defaults[t][n] \notin present =>
                 [at |-> t, order |-> n, key |-> Defaults[t][n]] \in T!DefaultTasks(t, present)
  BY DEF T!DefaultTasks, AreDefaults

LEMMA DefaultRows ==
    ASSUME NEW news, NEW E \in SUBSET Templates, AreDefaults(news, E)
    PROVE  news \in SUBSET NumberedRow
  <1> SUFFICES ASSUME NEW x \in news PROVE x \in NumberedRow
    OBVIOUS
  <1>1. /\ x.at \in Templates /\ x.order \in DOMAIN Defaults[x.at]
        /\ x.key = Defaults[x.at][x.order]
        /\ x = [at |-> x.at, order |-> x.order, key |-> x.key]
    BY DEF AreDefaults
  <1>2. x.order \in Nat /\ x.key \in T!Catalog
    BY <1>1, DefaultsFacts
  <1>3. [at |-> x.at, order |-> x.order, key |-> x.key] \in NumberedRow
    BY <1>1, <1>2 DEF NumberedRow, Keys
  <1> QED BY <1>1, <1>3

\* The default tasks of templates that have no rows are sound, and nothing else changes.
LEMMA DefaultsInserted ==
    ASSUME NEW R, DOMAIN R \subseteq T!Ids, R \in [DOMAIN R -> NumberedRow],
           NEW news, NEW E \in SUBSET Templates, AreDefaults(news, E),
           \A t \in E : T!OfTemplate(R, t) = {},
           NEW Q \in T!Inserted(R, news)
    PROVE  /\ \A t \in E : SoundAt(Q, t)
           /\ \A t \in E : \A i \in T!OfTemplate(Q, t) : Q[i] \in news
           /\ \A x \in news : \E i \in T!OfTemplate(Q, x.at) : Q[i] = x
           /\ \A t \in Templates \ E : T!OfTemplate(Q, t) = T!OfTemplate(R, t)
           /\ \A i \in DOMAIN R : Q[i] = R[i]
           /\ DOMAIN Q \subseteq T!Ids /\ Q \in [DOMAIN Q -> NumberedRow]
           /\ \A i \in DOMAIN Q : i \in DOMAIN R \/ Q[i].at \in E
  <1>1. news \in SUBSET NumberedRow
    BY DefaultRows
  <1>2. /\ DOMAIN R \subseteq DOMAIN Q /\ DOMAIN Q \subseteq T!Ids
        /\ Q \in [DOMAIN Q -> NumberedRow] /\ IsRows(Q)
        /\ \A i \in DOMAIN R : Q[i] = R[i]
        /\ \A i \in DOMAIN Q \ DOMAIN R : Q[i] \in news
        /\ \A n \in news : \E i \in DOMAIN Q \ DOMAIN R : Q[i] = n
        /\ \A i, j \in DOMAIN Q \ DOMAIN R : Q[i] = Q[j] => i = j
    BY <1>1, InsertedFacts
  <1>3. \A x \in news :
           /\ x.at \in E /\ x.at \in Templates
           /\ x.order \in DOMAIN Defaults[x.at] /\ x.key = Defaults[x.at][x.order]
           /\ x = [at |-> x.at, order |-> x.order, key |-> x.key]
    BY DEF AreDefaults
  <1>4. \A i \in DOMAIN Q : i \in DOMAIN R \/ Q[i].at \in E
    BY <1>2, <1>3
  <1>5. ASSUME NEW t \in Templates \ E PROVE T!OfTemplate(Q, t) = T!OfTemplate(R, t)
    BY <1>2, <1>4 DEF T!OfTemplate
  <1>6. ASSUME NEW t \in E, NEW i \in T!OfTemplate(Q, t)
        PROVE  i \in DOMAIN Q \ DOMAIN R /\ Q[i] \in news /\ Q[i].at = t
    BY <1>2, <1>6 DEF T!OfTemplate
  <1>7. ASSUME NEW x \in news PROVE \E i \in T!OfTemplate(Q, x.at) : Q[i] = x
    <2>1. PICK i \in DOMAIN Q \ DOMAIN R : Q[i] = x
      BY <1>2
    <2>2. i \in T!OfTemplate(Q, x.at)
      BY <2>1 DEF T!OfTemplate
    <2> QED BY <2>1, <2>2
  <1>8. ASSUME NEW t \in E PROVE SoundAt(Q, t)
    <2> DEFINE O == T!OfTemplate(Q, t)
    <2>1. Cardinality(O) \in Nat /\ NTasks \in Nat
      BY <1>2, OfTemplateFinite, RoomAssumption
    <2>2. /\ DOMAIN Defaults[t] \subseteq 1 .. NTasks
          /\ \A m, n \in DOMAIN Defaults[t] : Defaults[t][m] = Defaults[t][n] => m = n
      BY DefaultsFacts
    <2>3. \A i \in O : /\ Q[i].order \in DOMAIN Defaults[t] /\ Q[i].key = Defaults[t][Q[i].order]
                       /\ Q[i] = [at |-> t, order |-> Q[i].order, key |-> Q[i].key]
      BY <1>3, <1>6
    <2> HIDE DEF O
    <2>4. \A i \in O : Q[i].order \in 1 .. NTasks + Cardinality(O)
      <3> TAKE i \in O
      <3>1. Q[i].order \in 1 .. NTasks
        BY <2>2, <2>3
      <3> QED BY <2>1, <3>1
    <2>5. \A i, j \in O : Q[i].order = Q[j].order => i = j
      <3> TAKE i, j \in O
      <3> HAVE Q[i].order = Q[j].order
      <3>1. Q[i] = Q[j]
        BY <2>3
      <3>2. i \in DOMAIN Q \ DOMAIN R /\ j \in DOMAIN Q \ DOMAIN R
        BY <1>6 DEF O
      <3> QED BY <3>1, <3>2, <1>2
    <2>6. \A i, j \in O : Q[i].key = Q[j].key => i = j
      <3> TAKE i, j \in O
      <3> HAVE Q[i].key = Q[j].key
      <3>1. /\ Q[i].order \in DOMAIN Defaults[t] /\ Q[j].order \in DOMAIN Defaults[t]
            /\ Defaults[t][Q[i].order] = Defaults[t][Q[j].order]
        BY <2>3
      <3>2. Q[i].order = Q[j].order
        BY <3>1, <2>2
      <3> QED BY <3>2, <2>5
    <2> QED BY <2>4, <2>5, <2>6 DEF SoundAt, NumbersRight, KeysApart, O
  <1> QED BY <1>2, <1>4, <1>5, <1>6, <1>7, <1>8

-----------------------------------------------------------------------------
(* The rows keep their order, their keys and their bounds *)

RowsInv(R, st) ==
    /\ DOMAIN R \subseteq T!Ids /\ R \in [DOMAIN R -> NumberedRow]
    /\ \A i \in DOMAIN R : st[R[i].at] = "live"
    /\ \A t \in Templates : SoundAt(R, t)

LEMMA RowsInvRows == ASSUME NEW R, NEW st, RowsInv(R, st) PROVE IsRows(R)
  BY RowsOfIds DEF RowsInv

LEMMA NothingToDedupe ==
    ASSUME NEW R, NEW st, RowsInv(R, st), NEW S
    PROVE  T!Deduped(R, S) = R
  <1> DEFINE later == {i \in DOMAIN R :
                    /\ R[i].at \in S /\ R[i].key # NoKey
                    /\ \E j \in T!OfTemplate(R, R[i].at) :
                          R[j].key = R[i].key /\ T!Before(R, j, i)}
             D == DOMAIN R
  <1>1. IsRows(R)
    BY RowsInvRows
  <1>2. later = {}
    <2> SUFFICES ASSUME NEW i \in later PROVE FALSE
      OBVIOUS
    <2>1. /\ i \in DOMAIN R /\ R[i].key # NoKey
          /\ \E j \in T!OfTemplate(R, R[i].at) : R[j].key = R[i].key /\ T!Before(R, j, i)
      OBVIOUS
    <2>2. PICK j \in T!OfTemplate(R, R[i].at) : R[j].key = R[i].key /\ T!Before(R, j, i)
      BY <2>1
    <2>3. R[i].at \in Templates /\ i \in T!OfTemplate(R, R[i].at)
      BY <1>1, <2>1, RowFacts DEF T!OfTemplate
    <2>4. KeysApart(R, R[i].at)
      BY <2>3 DEF RowsInv, SoundAt
    <2>5. i # j
      BY <1>1, <2>1, <2>2, BeforeIsStrict
    <2> QED BY <2>1, <2>2, <2>3, <2>4, <2>5 DEF KeysApart
  <1>3. T!Deduped(R, S) = T!Renumbered(T!Without(R, later), {R[i].at : i \in later})
    BY DEF T!Deduped
  <1> HIDE DEF later
  <1>4. {R[i].at : i \in later} = {} /\ D \ later = D
    BY <1>2
  <1>5. T!Without(R, later) = R
    <2>1. R = [i \in D |-> R[i]]
      BY DEF RowsInv
    <2>2. T!Without(R, later) = [i \in D |-> R[i]]
      BY <1>4 DEF T!Without, T!Restrict
    <2> QED BY <2>1, <2>2
  <1>6. T!Renumbered(R, {}) = R
    <2>1. R = [i \in D |-> R[i]]
      BY DEF RowsInv
    <2>2. T!Renumbered(R, {}) = [i \in D |-> R[i]]
      BY DEF T!Renumbered
    <2> QED BY <2>1, <2>2
  <1> QED BY <1>3, <1>4, <1>5, <1>6

LEMMA OneInserted ==
    ASSUME NEW R, DOMAIN R \subseteq T!Ids, R \in [DOMAIN R -> NumberedRow],
           NEW new \in NumberedRow, NEW Q \in T!Inserted(R, {new})
    PROVE  \E i \in T!Ids \ DOMAIN R :
              /\ DOMAIN Q = DOMAIN R \cup {i} /\ Q[i] = new
              /\ \A j \in DOMAIN R : Q[j] = R[j]
              /\ Q \in [DOMAIN Q -> NumberedRow] /\ IsRows(Q)
              /\ SameBut(R, Q, i)
  <1>1. /\ DOMAIN R \subseteq DOMAIN Q /\ DOMAIN Q \subseteq T!Ids
        /\ Q \in [DOMAIN Q -> NumberedRow] /\ IsRows(Q)
        /\ \A i \in DOMAIN R : Q[i] = R[i]
        /\ \A i \in DOMAIN Q \ DOMAIN R : Q[i] = new
        /\ \E i \in DOMAIN Q \ DOMAIN R : Q[i] = new
        /\ \A i, j \in DOMAIN Q \ DOMAIN R : Q[i] = Q[j] => i = j
    <2>1. {new} \in SUBSET NumberedRow
      OBVIOUS
    <2> QED BY <2>1, InsertedFacts
  <1>2. PICK i \in DOMAIN Q \ DOMAIN R : Q[i] = new
    BY <1>1
  <1>3. DOMAIN Q = DOMAIN R \cup {i}
    BY <1>1, <1>2
  <1>4. SameBut(R, Q, i)
    BY <1>1, <1>2, <1>3, SameButEqual
  <1> QED BY <1>1, <1>2, <1>3, <1>4

LEMMA PlaceOrder ==
    ASSUME NEW R, IsRows(R), NEW i \in DOMAIN R, NEW j \in DOMAIN R, R[i].at = R[j].at
    PROVE  T!Before(R, i, j) <=> T!Place(R, i) < T!Place(R, j)
  <1>1. T!Place(R, i) \in Nat /\ T!Place(R, j) \in Nat
    BY PlaceInRange
  <1>2. T!Before(R, i, j) => T!Place(R, i) < T!Place(R, j)
    BY PlaceIsMonotone
  <1>3. T!Before(R, j, i) => T!Place(R, j) < T!Place(R, i)
    BY PlaceIsMonotone
  <1>4. T!Before(R, i, j) \/ i = j \/ T!Before(R, j, i)
    BY BeforeIsStrict
  <1> QED BY <1>1, <1>2, <1>3, <1>4

-----------------------------------------------------------------------------
(* One task more *)

\* A task that is typed in: it is the last one.
LEMMA CreateTaskRows ==
    ASSUME NEW R, NEW st, RowsInv(R, st), NEW t \in Templates, st[t] = "live",
           NEW Q \in T!Inserted(R, {[at |-> t, order |-> T!MaxOrder(R, t) + 1, key |-> NoKey]})
    PROVE  /\ RowsInv(Q, st)
           /\ \E i \in T!Ids \ DOMAIN R :
                 /\ DOMAIN Q = DOMAIN R \cup {i} /\ Q[i].at = t /\ Q[i].key = NoKey
                 /\ SameBut(R, Q, i)
  <1> DEFINE new == [at |-> t, order |-> T!MaxOrder(R, t) + 1, key |-> NoKey]
             O == T!OfTemplate(R, t)
             P == T!OfTemplate(Q, t)
  <1>1. IsRows(R) /\ DOMAIN R \subseteq T!Ids /\ R \in [DOMAIN R -> NumberedRow]
    BY RowsInvRows DEF RowsInv
  <1>2. /\ T!MaxOrder(R, t) \in Nat
        /\ \A i \in O : R[i].order <= T!MaxOrder(R, t)
        /\ O # {} => \E i \in O : T!MaxOrder(R, t) = R[i].order
        /\ O = {} => T!MaxOrder(R, t) = 0
    BY <1>1, MaxOrderFacts
  <1>3. new \in NumberedRow
    BY <1>2 DEF NumberedRow, Keys
  <1>4. PICK i \in T!Ids \ DOMAIN R :
           /\ DOMAIN Q = DOMAIN R \cup {i} /\ Q[i] = new
           /\ \A j \in DOMAIN R : Q[j] = R[j]
           /\ Q \in [DOMAIN Q -> NumberedRow] /\ IsRows(Q)
           /\ SameBut(R, Q, i)
    BY <1>1, <1>3, OneInserted
  <1>5. P = O \cup {i} /\ i \notin O
    BY <1>4 DEF T!OfTemplate
  <1>6. ASSUME NEW u \in Templates, u # t PROVE SoundAt(Q, u)
    <2>1. T!OfTemplate(Q, u) = T!OfTemplate(R, u)
      BY <1>4, <1>6 DEF T!OfTemplate
    <2>2. \A j \in T!OfTemplate(R, u) : Q[j] = R[j]
      BY <1>4 DEF T!OfTemplate
    <2>3. SoundAt(R, u)
      BY DEF RowsInv
    <2> QED BY <2>1, <2>2, <2>3, SoundStays
  <1>7. SoundAt(Q, t)
    <2>1. NumbersRight(R, t) /\ KeysApart(R, t)
      BY DEF RowsInv, SoundAt
    <2>2. IsFiniteSet(O) /\ Cardinality(O) \in Nat /\ NTasks \in Nat
      BY <1>1, OfTemplateFinite, RoomAssumption
    <2>3. Cardinality(P) = Cardinality(O) + 1
      BY <1>5, <2>2, FS_AddElement
    <2>4. \A j \in O : Q[j] = R[j] /\ R[j].order \in 1 .. NTasks + Cardinality(O)
      BY <2>1, <1>4 DEF NumbersRight, T!OfTemplate
    <2>5. Q[i].order = T!MaxOrder(R, t) + 1 /\ Q[i].key = NoKey
      BY <1>4
    <2>6. T!MaxOrder(R, t) <= NTasks + Cardinality(O)
      BY <1>2, <2>2, <2>4
    <2> HIDE DEF new, O, P
    <2>7. \A j \in P : Q[j].order \in 1 .. NTasks + Cardinality(P)
      BY <1>2, <1>5, <2>2, <2>3, <2>4, <2>5, <2>6
    <2>8. \A j \in O : Q[j].order < Q[i].order
      BY <1>2, <2>2, <2>4, <2>5
    <2>9. \A j, k \in O : j # k => R[j].order # R[k].order
      BY <2>1 DEF NumbersRight, O
    <2>10. \A j, k \in P : j # k => Q[j].order # Q[k].order
      <3>1. \A j \in P : Q[j].order \in Nat
        BY <2>2, <2>3, <2>7
      <3> QED BY <1>5, <2>4, <2>8, <2>9, <3>1
    <2>11. \A j, k \in P : j # k /\ Q[j].key = Q[k].key => Q[j].key = NoKey
      BY <1>5, <2>1, <2>4, <2>5 DEF KeysApart, O
    <2> QED BY <2>7, <2>10, <2>11 DEF SoundAt, NumbersRight, KeysApart, P
  <1>8. DOMAIN Q \subseteq T!Ids
    BY <1>1, <1>4
  <1>9. \A j \in DOMAIN Q : st[Q[j].at] = "live"
    BY <1>4 DEF RowsInv
  <1>10. RowsInv(Q, st)
    BY <1>4, <1>6, <1>7, <1>8, <1>9 DEF RowsInv
  <1> QED BY <1>4, <1>10

LEMMA OrderForFacts ==
    ASSUME NEW R, IsRows(R), NEW t, NEW p \in Nat
    PROVE  T!OrderFor(R, t, p) \in Nat
  BY MaxOrderFacts DEF T!OrderFor

\* The rows before a task that is put at position p, if the numbers have no gap, are those
\* with a lower number.
LEMMA PutInPlace ==
    ASSUME NEW R, IsRows(R), NEW Q, IsRows(Q), NEW t, NEW i,
           NEW p \in 1 .. Cardinality(T!OfTemplate(R, t)) + 1,
           {R[j].order : j \in T!OfTemplate(R, t)} = 1 .. Cardinality(T!OfTemplate(R, t)),
           \A j, k \in T!OfTemplate(R, t) : j # k => R[j].order # R[k].order,
           i \notin T!OfTemplate(R, t), T!OfTemplate(Q, t) = T!OfTemplate(R, t) \cup {i},
           Q[i].order = p,
           \A j \in T!OfTemplate(R, t) :
              IF R[j].order < p THEN Q[j].order = R[j].order ELSE Q[j].order = R[j].order + 1
    PROVE  T!Place(Q, i) = p
  <1> DEFINE O == T!OfTemplate(R, t)
             N == Cardinality(O)
             B == {j \in T!OfTemplate(Q, t) : T!Before(Q, j, i)}
             f == [j \in B |-> R[j].order]
  <1>1. N \in Nat /\ \A j \in O : R[j].order \in Nat
    <2>1. N \in Nat /\ O \subseteq DOMAIN R
      BY OfTemplateFinite
    <2> HIDE DEF N, O
    <2> QED BY <2>1, RowFacts
  <1>2. p \in Nat /\ 1 <= p /\ p <= N + 1
    BY <1>1
  <1>3. Q[i].at = t /\ i \in DOMAIN Q
    BY DEF T!OfTemplate
  <1>4. B = {j \in O : R[j].order < p}
    <2>1. ~ T!Before(Q, i, i)
      BY <1>3, BeforeIsStrict
    <2>2. ASSUME NEW j \in O PROVE T!Before(Q, j, i) <=> R[j].order < p
      <3>1. CASE R[j].order < p
        BY <2>2, <3>1, <1>1, <1>2 DEF T!Before
      <3>2. CASE ~ (R[j].order < p)
        <4>1. Q[j].order = R[j].order + 1 /\ R[j].order \in Nat
          BY <2>2, <3>2, <1>1
        <4>2. Q[j].order > p
          BY <4>1, <3>2, <1>2
        <4>3. ~ T!Before(Q, j, i)
          BY <4>1, <4>2, <1>2 DEF T!Before
        <4> QED BY <3>2, <4>3
      <3> QED BY <3>1, <3>2
    <2> QED BY <2>1, <2>2
  <1>5. \A j \in B : R[j].order \in 1 .. p - 1
    <2> TAKE j \in B
    <2>1. R[j].order \in 1 .. N /\ R[j].order < p
      BY <1>4
    <2> QED BY <2>1, <1>1, <1>2
  <1>6. \A n \in 1 .. p - 1 : \E j \in B : R[j].order = n
    <2> TAKE n \in 1 .. p - 1
    <2>1. n \in 1 .. N /\ n < p
      BY <1>1, <1>2
    <2>2. PICK j \in O : R[j].order = n
      BY <2>1
    <2> QED BY <2>1, <2>2, <1>4
  <1>7. \A j, k \in B : R[j].order = R[k].order => j = k
    BY <1>4
  <1>8. f \in [B -> 1 .. p - 1] /\ \A j \in B : f[j] = R[j].order
    BY <1>5
  <1>9. IsFiniteSet(B) /\ Cardinality(1 .. p - 1) = p - 1
    <2>1. IsFiniteSet(O)
      BY OfTemplateFinite
    <2>2. IsFiniteSet(B)
      BY <1>4, <2>1, FS_Subset
    <2>3. 1 \in Int /\ p - 1 \in Int
      BY <1>2
    <2>4. Cardinality(1 .. p - 1) = IF 1 > p - 1 THEN 0 ELSE p - 1 - 1 + 1
      BY <2>3, FS_Interval
    <2> QED BY <2>2, <2>4, <1>2
  <1>10. T!Place(Q, i) = 1 + Cardinality(B)
    BY <1>3, SameCardinality DEF T!Place
  <1> HIDE DEF f, B, N, O
  <1>11. f \in Bijection(B, 1 .. p - 1)
    BY <1>6, <1>7, <1>8 DEF Bijection, Injection, Surjection, IsInjective
  <1>12. Cardinality(B) = p - 1
    BY <1>9, <1>11, FS_Bijection DEF ExistsBijection
  <1> QED BY <1>2, <1>10, <1>12

\* A task that is placed: the rows behind the position make room, and all are numbered anew.
Placed(R, t, p, k) == [at |-> t, order |-> T!OrderFor(R, t, p), key |-> k]

\* NumberedRow i is the new row of Q, at its place if the numbers of R had no gap.
IsPlaced(R, Q, t, p, k, i) ==
    /\ DOMAIN Q = DOMAIN R \cup {i} /\ Q[i].at = t /\ Q[i].key = k /\ SameBut(R, Q, i)
    /\ T!Numbered(t) /\ R = tasks
          /\ p \in 1 .. Cardinality(T!OfTemplate(R, t)) + 1 => T!Place(Q, i) = p

LEMMA PlaceTaskRows ==
    ASSUME NEW R, NEW st, RowsInv(R, st), NEW t \in Templates, st[t] = "live",
           NEW k \in Keys, NEW p \in Nat,
           \A j \in DOMAIN R : k # NoKey => R[j].key # k,
           NEW W \in T!Inserted(T!Shifted(R, t, p), {Placed(R, t, p, k)}),
           NEW Q, Q = T!Renumbered(W, {t})
    PROVE  /\ RowsInv(Q, st)
           /\ \E i \in T!Ids \ DOMAIN R : IsPlaced(R, Q, t, p, k, i)
  <1> DEFINE new == Placed(R, t, p, k)
             X == T!Shifted(R, t, p)
             O == T!OfTemplate(R, t)
  <1>1. IsRows(R) /\ DOMAIN R \subseteq T!Ids /\ R \in [DOMAIN R -> NumberedRow]
    BY RowsInvRows DEF RowsInv
  <1>2. /\ IsRows(X) /\ DOMAIN X = DOMAIN R
        /\ \A i \in DOMAIN R :
              /\ X[i].at = R[i].at /\ X[i].key = R[i].key
              /\ R[i].at # t \/ T!AtEnd(R, t, p) \/ R[i].order < p => X[i] = R[i]
              /\ ~ (R[i].at # t \/ T!AtEnd(R, t, p) \/ R[i].order < p)
                    => X[i].order = R[i].order + 1
    BY <1>1, ShiftedFacts
  <1>3. DOMAIN X \subseteq T!Ids /\ X \in [DOMAIN X -> NumberedRow]
    BY <1>1, <1>2 DEF IsRows
  <1>4. new \in NumberedRow
    BY <1>1, OrderForFacts DEF NumberedRow, Placed
  <1>0. new.at = t /\ new.order = T!OrderFor(R, t, p) /\ new.key = k
    BY DEF Placed
  <1> HIDE DEF X, O, new
  <1>5. PICK i \in T!Ids \ DOMAIN X :
           /\ DOMAIN W = DOMAIN X \cup {i} /\ W[i] = new
           /\ \A j \in DOMAIN X : W[j] = X[j]
           /\ W \in [DOMAIN W -> NumberedRow] /\ IsRows(W)
           /\ SameBut(X, W, i)
    BY <1>3, <1>4, OneInserted DEF X, new
  <1>6. /\ IsRows(Q) /\ DOMAIN Q = DOMAIN W
        /\ \A j \in DOMAIN W : Q[j].at = W[j].at /\ Q[j].key = W[j].key
    BY <1>5, RenumberedFacts
  <1>7. SameBut(R, Q, i)
    <2>1. SameBut(R, X, i)
      BY <1>1, SameButShifted DEF X
    <2>2. SameBut(W, Q, i)
      BY <1>5, SameButRenumbered
    <2> QED BY <2>1, <2>2, <1>5, SameButChain
  <1>8. ASSUME NEW u \in Templates, u # t PROVE SoundAt(Q, u)
    <2>1. T!OfTemplate(W, u) = T!OfTemplate(R, u)
      BY <1>0, <1>2, <1>5, <1>8 DEF T!OfTemplate
    <2>2. \A j \in T!OfTemplate(R, u) : W[j] = R[j]
      BY <1>0, <1>2, <1>5, <1>8 DEF T!OfTemplate
    <2>3. SoundAt(R, u)
      BY DEF RowsInv
    <2>4. SoundAt(W, u)
      BY <2>1, <2>2, <2>3, SoundStays
    <2> QED BY <2>4, <1>5, <1>8, SoundRenumbered
  <1>9. SoundAt(Q, t)
    <2>1. KeysApart(R, t)
      BY DEF RowsInv, SoundAt
    <2>2. T!OfTemplate(W, t) = O \cup {i}
      BY <1>0, <1>2, <1>5 DEF T!OfTemplate, O
    <2>3. /\ \A j \in O : j \in DOMAIN R /\ W[j].key = R[j].key
          /\ W[i].key = k
      BY <1>0, <1>2, <1>5 DEF T!OfTemplate, O
    <2>4. KeysApart(W, t)
      BY <2>1, <2>2, <2>3 DEF KeysApart, O
    <2> QED BY <2>4, <1>5, SoundRenumbered
  <1>10. RowsInv(Q, st)
    <2>1. DOMAIN Q \subseteq T!Ids /\ Q \in [DOMAIN Q -> NumberedRow]
      BY <1>3, <1>5, <1>6 DEF IsRows
    <2>2. \A j \in DOMAIN R : st[R[j].at] = "live"
      BY DEF RowsInv
    <2>3. W[i].at = t
      BY <1>0, <1>5
    <2> HIDE DEF new
    <2>4. ASSUME NEW j \in DOMAIN Q PROVE st[Q[j].at] = "live"
      <3>1. (j \in DOMAIN R \/ j = i) /\ Q[j].at = W[j].at
        BY <1>2, <1>5, <1>6
      <3>2. j \in DOMAIN R => W[j].at = R[j].at
        BY <1>2, <1>5
      <3> QED BY <3>1, <3>2, <2>2, <2>3
    <2> QED BY <2>1, <2>4, <1>8, <1>9 DEF RowsInv
  <1>11. ASSUME T!Numbered(t), R = tasks, p \in 1 .. Cardinality(O) + 1
         PROVE  T!Place(Q, i) = p
    <2>1. {R[j].order : j \in O} = 1 .. Cardinality(O)
      BY <1>11, SameCardinality DEF T!Numbered, O
    <2>2. NumbersRight(R, t)
      BY DEF RowsInv, SoundAt
    <2>3. Cardinality(O) \in Nat
      BY <1>1, OfTemplateFinite DEF O
    <2>4. ~ T!AtEnd(R, t, p)
      BY <1>11, <2>3, SameCardinality DEF T!AtEnd, O
    <2>5. W[i].order = p
      BY <2>4, <1>0, <1>5 DEF T!OrderFor
    <2>6. i \notin O /\ T!OfTemplate(W, t) = O \cup {i}
      BY <1>0, <1>2, <1>5 DEF T!OfTemplate, O
    <2>7. \A j \in O :
             IF R[j].order < p THEN W[j].order = R[j].order ELSE W[j].order = R[j].order + 1
      BY <2>4, <1>0, <1>2, <1>5 DEF T!OfTemplate, O
    <2>8. \A j, l \in O : j # l => R[j].order # R[l].order
      BY <2>2 DEF NumbersRight, O
    <2>9. T!Place(W, i) = p
      BY <1>1, <1>5, <1>11, <2>1, <2>5, <2>6, <2>7, <2>8, PutInPlace DEF O
    <2> QED BY <2>9, <1>5, RenumberedPlaces
  <1>12. DOMAIN Q = DOMAIN R \cup {i} /\ Q[i].at = t /\ Q[i].key = k /\ i \in T!Ids \ DOMAIN R
    <2>1. W[i].at = t /\ W[i].key = k
      BY <1>0, <1>5
    <2> HIDE DEF new
    <2> QED BY <2>1, <1>2, <1>5, <1>6
  <1> QED BY <1>7, <1>10, <1>11, <1>12 DEF O, IsPlaced

-----------------------------------------------------------------------------
(* Tasks less *)

\* The templates that lose tasks are numbered anew.
LEMMA DroppedRows ==
    ASSUME NEW R, NEW st, RowsInv(R, st), NEW gone \in SUBSET DOMAIN R,
           NEW Q, Q = T!Renumbered(T!Without(R, gone), {R[i].at : i \in gone})
    PROVE  /\ RowsInv(Q, st) /\ DOMAIN Q = DOMAIN R \ gone
           /\ \A i \in gone : gone = {i} => SameBut(R, Q, i)
           /\ gone = {} => \A i \in T!Ids \ DOMAIN R : SameBut(R, Q, i)
  <1> DEFINE W == T!Without(R, gone)
             S == {R[i].at : i \in gone}
  <1>1. IsRows(R) /\ DOMAIN R \subseteq T!Ids
    BY RowsInvRows DEF RowsInv
  <1>2. IsRows(W) /\ DOMAIN W = DOMAIN R \ gone /\ \A i \in DOMAIN R \ gone : W[i] = R[i]
    BY <1>1, WithoutFacts
  <1> HIDE DEF W, S
  <1>3. Q = T!Renumbered(W, S)
    BY DEF W, S
  <1>4. /\ IsRows(Q) /\ DOMAIN Q = DOMAIN W
        /\ \A j \in DOMAIN W : Q[j].at = W[j].at /\ Q[j].key = W[j].key
    <2> DEFINE V == T!Renumbered(W, S)
    <2>1. /\ IsRows(V) /\ DOMAIN V = DOMAIN W
          /\ \A j \in DOMAIN W : V[j].at = W[j].at /\ V[j].key = W[j].key
      BY <1>2, RenumberedFacts
    <2> HIDE DEF V
    <2> QED BY <1>3, <2>1 DEF V
  <1>5. ASSUME NEW t \in Templates PROVE SoundAt(Q, t)
    <2>1. SoundAt(R, t)
      BY DEF RowsInv
    <2>2. KeysApart(W, t)
      BY <2>1, <1>2 DEF SoundAt, KeysApart, T!OfTemplate
    <2>3. CASE t \notin S
      <3>1. T!OfTemplate(W, t) = T!OfTemplate(R, t)
        BY <2>3, <1>2 DEF T!OfTemplate, S
      <3>2. \A j \in T!OfTemplate(R, t) : W[j] = R[j]
        BY <3>1, <1>2 DEF T!OfTemplate
      <3>3. SoundAt(W, t)
        BY <2>1, <3>1, <3>2, SoundStays
      <3> QED BY <2>3, <3>3, <1>2, <1>3, SoundRenumbered
    <2> QED BY <2>2, <2>3, <1>2, <1>3, SoundRenumbered
  <1>6. RowsInv(Q, st)
    <2>1. DOMAIN Q \subseteq T!Ids /\ Q \in [DOMAIN Q -> NumberedRow]
      BY <1>1, <1>2, <1>4 DEF IsRows
    <2>2. \A j \in DOMAIN Q : st[Q[j].at] = "live"
      BY <1>2, <1>4 DEF RowsInv
    <2> QED BY <2>1, <2>2, <1>5 DEF RowsInv
  <1>7. ASSUME NEW i, gone \subseteq {i}, i \in gone \/ i \notin DOMAIN R PROVE SameBut(R, Q, i)
    <2>1. DOMAIN W \ {i} = DOMAIN R \ {i} /\ \A j \in DOMAIN R \ {i} : W[j] = R[j]
      BY <1>2, <1>7
    <2>2. SameBut(R, W, i)
      BY <2>1, SameButEqual
    <2>3. SameBut(W, Q, i)
      BY <1>2, <1>3, SameButRenumbered
    <2> QED BY <2>2, <2>3, SameButChain
  <1> QED BY <1>2, <1>4, <1>6, <1>7

-----------------------------------------------------------------------------
(* A task on another template *)

\* The row i is moved to template t, and the rows behind the position make room.
Relocated(R, i, t, p) ==
    [T!Shifted(R, t, p) EXCEPT ![i] = [@ EXCEPT !.at = t, !.order = T!OrderFor(R, t, p)]]

LEMMA TransferRows ==
    ASSUME NEW R, NEW st, RowsInv(R, st), NEW i \in DOMAIN R, NEW t \in Templates,
           st[t] = "live", R[i].at # t, NEW p \in Nat,
           R[i].key # NoKey => \A j \in DOMAIN R \ {i} : R[j].key # R[i].key,
           NEW Q, Q = T!Renumbered(Relocated(R, i, t, p), {R[i].at, t})
    PROVE  /\ RowsInv(Q, st) /\ DOMAIN Q = DOMAIN R
           /\ Q[i].at = t /\ Q[i].key = R[i].key /\ SameBut(R, Q, i)
           /\ T!Numbered(t) /\ R = tasks
                 /\ p \in 1 .. Cardinality(T!OfTemplate(R, t)) + 1 => T!Place(Q, i) = p
  <1> DEFINE X == T!Shifted(R, t, p)
             O == T!OfTemplate(R, t)
             W == Relocated(R, i, t, p)
             S == {R[i].at, t}
             new == [X[i] EXCEPT !.at = t, !.order = T!OrderFor(R, t, p)]
  <1>1. IsRows(R) /\ DOMAIN R \subseteq T!Ids /\ R \in [DOMAIN R -> NumberedRow]
    BY RowsInvRows DEF RowsInv
  <1>2. /\ IsRows(X) /\ DOMAIN X = DOMAIN R
        /\ \A j \in DOMAIN R :
              /\ X[j].at = R[j].at /\ X[j].key = R[j].key
              /\ R[j].at # t \/ T!AtEnd(R, t, p) \/ R[j].order < p => X[j] = R[j]
              /\ ~ (R[j].at # t \/ T!AtEnd(R, t, p) \/ R[j].order < p)
                    => X[j].order = R[j].order + 1
    BY <1>1, ShiftedFacts
  <1>0. W = [X EXCEPT ![i] = new]
    BY DEF Relocated
  <1> HIDE DEF W, S
  <1>3. X \in [DOMAIN R -> NumberedRow] /\ X[i] \in NumberedRow /\ W = [X EXCEPT ![i] = new]
    BY <1>0, <1>2 DEF IsRows
  <1>4. T!OrderFor(R, t, p) \in Nat
    BY <1>1, OrderForFacts
  <1> HIDE DEF X, O
  <1>5. /\ new \in NumberedRow /\ new.at = t /\ new.order = T!OrderFor(R, t, p)
        /\ new.key = X[i].key
    BY <1>3, <1>4 DEF NumberedRow
  <1> HIDE DEF new
  <1>6. /\ W \in [DOMAIN R -> NumberedRow] /\ DOMAIN W = DOMAIN R
        /\ W[i] = new /\ \A j \in DOMAIN R \ {i} : W[j] = X[j]
    BY <1>2, <1>3, <1>5
  <1>7. IsRows(W) /\ W \in [DOMAIN W -> NumberedRow]
    BY <1>1, <1>6 DEF IsRows
  <1>8. /\ IsRows(Q) /\ DOMAIN Q = DOMAIN W
        /\ \A j \in DOMAIN W : Q[j].at = W[j].at /\ Q[j].key = W[j].key
    <2> DEFINE V == T!Renumbered(W, S)
    <2>1. /\ IsRows(V) /\ DOMAIN V = DOMAIN W
          /\ \A j \in DOMAIN W : V[j].at = W[j].at /\ V[j].key = W[j].key
      BY <1>7, RenumberedFacts
    <2> HIDE DEF V
    <2> QED BY <2>1 DEF V, W, S
  <1>9. SameBut(R, Q, i)
    <2>1. SameBut(R, X, i)
      BY <1>1, SameButShifted DEF X
    <2>2. SameBut(X, W, i)
      BY <1>2, <1>6, SameButEqual
    <2>3. SameBut(W, Q, i)
      BY <1>7, SameButRenumbered DEF W
    <2> QED BY <2>1, <2>2, <2>3, SameButChain
  <1>10. /\ \A j \in DOMAIN R \ {i} : W[j].at = R[j].at /\ W[j].key = R[j].key
         /\ W[i].at = t /\ W[i].key = R[i].key
    BY <1>2, <1>5, <1>6
  <1>11. T!OfTemplate(W, t) = O \cup {i} /\ i \notin O
    BY <1>6, <1>10 DEF T!OfTemplate, O
  <1>12. ASSUME NEW u \in Templates PROVE SoundAt(Q, u)
    <2>1. SoundAt(R, u)
      BY DEF RowsInv
    <2>2. CASE u = t
      <3>1. KeysApart(W, u)
        <4> SUFFICES ASSUME NEW j \in T!OfTemplate(W, u), NEW k \in T!OfTemplate(W, u),
                            j # k, W[j].key = W[k].key
                     PROVE  W[j].key = NoKey
          BY DEF KeysApart
        <4>1. j \in O \cup {i} /\ k \in O \cup {i} /\ O \subseteq DOMAIN R
          BY <2>2, <1>11 DEF O, T!OfTemplate
        <4>2. W[j].key = R[j].key /\ W[k].key = R[k].key
          BY <4>1, <1>10
        <4>3. CASE j = i \/ k = i
          BY <4>1, <4>2, <4>3
        <4>4. CASE j # i /\ k # i
          BY <2>1, <2>2, <4>1, <4>2, <4>4 DEF SoundAt, KeysApart, O
        <4> QED BY <4>3, <4>4
      <3> QED BY <2>2, <3>1, <1>7, SoundRenumbered DEF W, S
    <2>3. CASE u = R[i].at
      <3>1. T!OfTemplate(W, u) \subseteq T!OfTemplate(R, u) \ {i}
        BY <2>3, <1>6, <1>10 DEF T!OfTemplate
      <3>2. \A j \in T!OfTemplate(W, u) : j \in DOMAIN R \ {i}
        BY <3>1 DEF T!OfTemplate
      <3>3. KeysApart(R, u)
        BY <2>1 DEF SoundAt
      <3>4. KeysApart(W, u)
        BY <3>1, <3>2, <3>3, <1>10 DEF KeysApart
      <3> QED BY <2>3, <3>4, <1>7, SoundRenumbered DEF W, S
    <2>4. CASE u # t /\ u # R[i].at
      <3>1. T!OfTemplate(W, u) = T!OfTemplate(R, u)
        BY <2>4, <1>6, <1>10 DEF T!OfTemplate
      <3>2. \A j \in T!OfTemplate(R, u) : W[j] = R[j]
        BY <2>4, <1>2, <1>6 DEF T!OfTemplate
      <3>3. SoundAt(W, u)
        BY <2>1, <3>1, <3>2, SoundStays
      <3> QED BY <2>4, <3>3, <1>7, SoundRenumbered DEF W, S
    <2> QED BY <2>2, <2>3, <2>4
  <1>13. RowsInv(Q, st)
    <2>1. DOMAIN Q \subseteq T!Ids /\ Q \in [DOMAIN Q -> NumberedRow]
      BY <1>1, <1>6, <1>8 DEF IsRows
    <2>2. \A j \in DOMAIN R : st[R[j].at] = "live"
      BY DEF RowsInv
    <2>3. ASSUME NEW j \in DOMAIN Q PROVE st[Q[j].at] = "live"
      <3>1. j \in DOMAIN R /\ Q[j].at = W[j].at
        BY <1>6, <1>8
      <3>2. CASE j = i
        BY <3>1, <3>2, <1>10
      <3>3. CASE j # i
        BY <3>1, <3>3, <2>2, <1>10
      <3> QED BY <3>2, <3>3
    <2> QED BY <2>1, <2>3, <1>12 DEF RowsInv
  <1>14. ASSUME T!Numbered(t), R = tasks, p \in 1 .. Cardinality(O) + 1
         PROVE  T!Place(Q, i) = p
    <2>1. {R[j].order : j \in O} = 1 .. Cardinality(O)
      BY <1>14, SameCardinality DEF T!Numbered, O
    <2>2. NumbersRight(R, t)
      BY DEF RowsInv, SoundAt
    <2>3. Cardinality(O) \in Nat
      BY <1>1, OfTemplateFinite DEF O
    <2>4. ~ T!AtEnd(R, t, p)
      BY <1>14, <2>3, SameCardinality DEF T!AtEnd, O
    <2>5. W[i].order = p
      BY <2>4, <1>5, <1>6 DEF T!OrderFor
    <2>6. \A j \in O :
             IF R[j].order < p THEN W[j].order = R[j].order ELSE W[j].order = R[j].order + 1
      BY <2>4, <1>2, <1>6 DEF T!OfTemplate, O
    <2>7. \A j, l \in O : j # l => R[j].order # R[l].order
      BY <2>2 DEF NumbersRight, O
    <2>8. T!Place(W, i) = p
      BY <1>1, <1>7, <1>11, <1>14, <2>1, <2>5, <2>6, <2>7, PutInPlace DEF O
    <2> QED BY <2>8, <1>6, <1>7, RenumberedPlaces DEF W
  <1>15. DOMAIN Q = DOMAIN R /\ Q[i].at = t /\ Q[i].key = R[i].key
    BY <1>6, <1>8, <1>10
  <1> QED BY <1>9, <1>13, <1>14, <1>15 DEF O

-----------------------------------------------------------------------------
(* A task at another place of its template *)

\* Up or down: two neighbours exchange their numbers.
Exchanged(R, i, j) == [R EXCEPT ![i].order = R[j].order, ![j].order = R[i].order]

LEMMA MoveTaskRows ==
    ASSUME NEW R, NEW st, RowsInv(R, st), NEW i \in DOMAIN R, NEW j \in DOMAIN R,
           R[i].at = R[j].at,
           T!Place(R, j) = T!Place(R, i) + 1 \/ T!Place(R, j) = T!Place(R, i) - 1,
           NEW Q, Q = Exchanged(R, i, j)
    PROVE  /\ RowsInv(Q, st) /\ DOMAIN Q = DOMAIN R
           /\ Q[i].at = R[i].at /\ Q[i].key = R[i].key /\ SameBut(R, Q, i)
  <1> DEFINE a == [R[i] EXCEPT !.order = R[j].order]
             b == [R[j] EXCEPT !.order = R[i].order]
  <1>1. IsRows(R) /\ DOMAIN R \subseteq T!Ids /\ R \in [DOMAIN R -> NumberedRow]
    BY RowsInvRows DEF RowsInv
  <1>2. i # j
    <2>1. T!Place(R, i) \in Nat
      BY <1>1, PlaceInRange
    <2> QED BY <2>1
  <1>3. R[i] \in NumberedRow /\ R[j] \in NumberedRow /\ R[i].order \in Nat /\ R[j].order \in Nat
    BY <1>1, RowFacts
  <1>4. Q = [[R EXCEPT ![i] = a] EXCEPT ![j] = b]
    BY <1>1, <1>2 DEF Exchanged
  <1>5. /\ a \in NumberedRow /\ a.at = R[i].at /\ a.key = R[i].key /\ a.order = R[j].order
        /\ b \in NumberedRow /\ b.at = R[j].at /\ b.key = R[j].key /\ b.order = R[i].order
    BY <1>3 DEF NumberedRow
  <1> HIDE DEF a, b
  <1>6. /\ DOMAIN Q = DOMAIN R /\ Q \in [DOMAIN R -> NumberedRow]
        /\ Q[i] = a /\ Q[j] = b /\ \A k \in DOMAIN R \ {i, j} : Q[k] = R[k]
    BY <1>1, <1>2, <1>4, <1>5
  <1>7. \A k \in DOMAIN R : Q[k].at = R[k].at /\ Q[k].key = R[k].key
    BY <1>5, <1>6
  <1>8. /\ Q[i].order = R[j].order /\ Q[j].order = R[i].order
        /\ \A k \in DOMAIN R \ {i, j} : Q[k].order = R[k].order
    BY <1>5, <1>6
  <1>9. IsRows(Q)
    BY <1>1, <1>6 DEF IsRows
  <1>10. ASSUME NEW u \in Templates PROVE SoundAt(Q, u)
    <2> DEFINE O == T!OfTemplate(R, u)
    <2>1. T!OfTemplate(Q, u) = O /\ \A k \in O : k \in DOMAIN R /\ R[k].at = u
      BY <1>6, <1>7 DEF T!OfTemplate
    <2>2. NumbersRight(R, u) /\ KeysApart(R, u)
      BY DEF RowsInv, SoundAt
    <2>3. KeysApart(Q, u)
      BY <2>1, <2>2, <1>7 DEF KeysApart
    <2>4. \A k \in O : \E l \in O : Q[k].order = R[l].order
      <3> TAKE k \in O
      <3>1. CASE k = i
        <4>1. j \in O
          BY <2>1, <3>1 DEF T!OfTemplate
        <4> QED BY <3>1, <4>1, <1>8
      <3>2. CASE k = j
        <4>1. i \in O
          BY <2>1, <3>2 DEF T!OfTemplate
        <4> QED BY <3>2, <4>1, <1>8
      <3>3. CASE k \notin {i, j}
        BY <2>1, <3>3, <1>8
      <3> QED BY <3>1, <3>2, <3>3
    <2>5. \A k \in O : Q[k].order \in 1 .. NTasks + Cardinality(O)
      BY <2>2, <2>4 DEF NumbersRight
    <2>6. \A k, l \in O : k # l => R[k].order # R[l].order
      BY <2>2 DEF NumbersRight
    <2>7. (i \in O <=> u = R[i].at) /\ (j \in O <=> u = R[i].at)
      BY DEF T!OfTemplate
    <2>8. \A k, l \in O : k # l => Q[k].order # Q[l].order
      <3> HIDE DEF O
      <3> TAKE k, l \in O
      <3> HAVE k # l
      <3>1. CASE k = i \/ k = j \/ l = i \/ l = j
        <4>1. i \in O /\ j \in O
          BY <3>1, <2>7
        <4> QED BY <4>1, <3>1, <2>1, <2>6, <1>2, <1>8
      <3>2. CASE k \notin {i, j} /\ l \notin {i, j}
        BY <3>2, <2>1, <2>6, <1>8
      <3> QED BY <3>1, <3>2
    <2>9. NumbersRight(Q, u)
      BY <2>1, <2>5, <2>8 DEF NumbersRight
    <2> QED BY <2>3, <2>9 DEF SoundAt
  <1>11. RowsInv(Q, st)
    <2>1. \A k \in DOMAIN Q : st[Q[k].at] = "live"
      BY <1>6, <1>7 DEF RowsInv
    <2> QED BY <2>1, <1>1, <1>6, <1>10 DEF RowsInv
  <1>12. ASSUME NEW k \in DOMAIN R, R[k].at = R[i].at, k # i, k # j
         PROVE  /\ T!Before(R, j, k) <=> T!Before(Q, j, k)
                /\ T!Before(R, k, j) <=> T!Before(Q, k, j)
    <2>1. T!Place(R, i) \in Nat /\ T!Place(R, j) \in Nat /\ T!Place(R, k) \in Nat
      BY <1>1, PlaceInRange
    <2>2. T!Place(R, k) # T!Place(R, i) /\ T!Place(R, k) # T!Place(R, j)
      BY <1>1, <1>12, PlaceIsInjective
    <2>3. /\ T!Place(R, j) < T!Place(R, k) <=> T!Place(R, i) < T!Place(R, k)
          /\ T!Place(R, k) < T!Place(R, j) <=> T!Place(R, k) < T!Place(R, i)
      BY <2>1, <2>2
    <2>4. /\ T!Before(R, j, k) <=> T!Place(R, j) < T!Place(R, k)
          /\ T!Before(R, i, k) <=> T!Place(R, i) < T!Place(R, k)
          /\ T!Before(R, k, j) <=> T!Place(R, k) < T!Place(R, j)
          /\ T!Before(R, k, i) <=> T!Place(R, k) < T!Place(R, i)
      BY <1>1, <1>12, PlaceOrder
    <2>5. R[k].order # R[i].order /\ R[k].order # R[j].order
      <3>1. R[i].at \in Templates /\ i \in T!OfTemplate(R, R[i].at)
             /\ j \in T!OfTemplate(R, R[i].at) /\ k \in T!OfTemplate(R, R[i].at)
        BY <1>1, <1>12, RowFacts DEF T!OfTemplate
      <3>2. NumbersRight(R, R[i].at)
        BY <3>1 DEF RowsInv, SoundAt
      <3> QED BY <3>1, <3>2, <1>12 DEF NumbersRight
    <2>6. Q[k].order = R[k].order /\ Q[j].order = R[i].order /\ R[k].order \in Nat
      BY <1>1, <1>8, <1>12, RowFacts
    <2> HIDE DEF a, b
    <2>7. /\ T!Before(R, i, k) <=> R[i].order < R[k].order
          /\ T!Before(R, k, i) <=> R[k].order < R[i].order
      BY <2>5, <2>6, <1>3 DEF T!Before
    <2>8. /\ T!Before(Q, j, k) <=> R[i].order < R[k].order
          /\ T!Before(Q, k, j) <=> R[k].order < R[i].order
      BY <2>5, <2>6, <1>3 DEF T!Before
    <2> QED BY <2>3, <2>4, <2>7, <2>8
  <1>13. SameBut(R, Q, i)
    <2>1. \A k, l \in DOMAIN R \ {i} :
             R[k].at = R[l].at => (T!Before(R, k, l) <=> T!Before(Q, k, l))
      <3> TAKE k, l \in DOMAIN R \ {i}
      <3> HAVE R[k].at = R[l].at
      <3>1. CASE k = l
        <4>1. k \in DOMAIN R /\ k \in DOMAIN Q
          BY <1>6
        <4>2. ~ T!Before(R, k, k)
          BY <4>1, <1>1, BeforeIsStrict
        <4>3. ~ T!Before(Q, k, k)
          BY <4>1, <1>9, BeforeIsStrict
        <4> QED BY <3>1, <4>2, <4>3
      <3>2. CASE k # l /\ (k = j \/ l = j)
        <4>1. R[k].at = R[i].at /\ R[l].at = R[i].at
          BY <3>2
        <4> QED BY <3>2, <4>1, <1>12
      <3>3. CASE k # j /\ l # j
        <4>1. Q[k].order = R[k].order /\ Q[l].order = R[l].order
          BY <3>3, <1>8
        <4> QED BY <4>1 DEF T!Before
      <3> QED BY <3>1, <3>2, <3>3
    <2> QED BY <2>1, <1>6, <1>7 DEF SameBut
  <1> QED BY <1>6, <1>7, <1>11, <1>13

\* To a number: the rows are numbered in the order in which the task has that place.
Rearranged(R, i, p) == T!InsertAt(T!RemoveAt(T!Ordered(R, R[i].at), T!Place(R, i)), p, i)
NumberIn(R, i, p, j) == T!SelectInSeq(Rearranged(R, i, p), LAMBDA l : l = j)
Reordered(R, i, p) ==
    [j \in DOMAIN R |->
        IF R[j].at = R[i].at THEN [R[j] EXCEPT !.order = NumberIn(R, i, p, j)] ELSE R[j]]

LEMMA SetOrderRows ==
    ASSUME NEW R, NEW st, RowsInv(R, st), NEW i \in DOMAIN R,
           NEW p \in 1 .. Len(T!Ordered(R, R[i].at)),
           NEW Q, Q = Reordered(R, i, p)
    PROVE  /\ RowsInv(Q, st) /\ DOMAIN Q = DOMAIN R
           /\ Q[i].at = R[i].at /\ Q[i].key = R[i].key /\ SameBut(R, Q, i)
  <1> DEFINE t == R[i].at
             O == T!OfTemplate(R, t)
             s == T!Ordered(R, t)
             c == T!Place(R, i)
             D == DOMAIN R \ {i}
             W == [j \in D |-> R[j]]
             r == T!RemoveAt(s, c)
             h == [m \in Nat |-> IF m < p THEN m ELSE m + 1]
             moved == Rearranged(R, i, p)
             At == [j \in O |-> NumberIn(R, i, p, j)]
             C == [j \in O |-> [R[j] EXCEPT !.order = At[j]]]
  <1>1. IsRows(R) /\ DOMAIN R \subseteq T!Ids /\ R \in [DOMAIN R -> NumberedRow]
    BY RowsInvRows DEF RowsInv
  <1>2. i \in O /\ t \in Templates /\ O \subseteq DOMAIN R
        /\ \A j \in DOMAIN R : j \in O <=> R[j].at = t
    BY <1>1, RowFacts DEF T!OfTemplate
  <1>3. s \in Seq(O) /\ c \in 1 .. Len(s) /\ Len(s) \in Nat /\ Len(s) = Cardinality(O)
    BY <1>1, <1>2, OrderedInOrder, PlaceInRange DEF InOrder
  <1>4. IsRows(W) /\ (\A j \in D : W[j] = R[j]) /\ DOMAIN W = D
    <2>1. IsFiniteSet(D) /\ D \subseteq Nat
      BY <1>1, FS_Subset DEF IsRows
    <2>2. \A j \in D : R[j] \in NumberedRow
      BY <1>1, RowFacts
    <2> QED BY <2>1, <2>2 DEF IsRows
  <1> HIDE DEF W
  <1>5. T!OfTemplate(W, t) = O \ {i}
    BY <1>4 DEF T!OfTemplate
  <1>6. \A j, k \in O \ {i} : T!Before(R, j, k) <=> T!Before(W, j, k)
    BY <1>2, <1>4 DEF T!Before
  <1>7. r = T!Ordered(W, t)
    BY <1>1, <1>2, <1>4, <1>5, <1>6, OneRowMore
  <1>8. InOrder(W, t, r) /\ \A n \in 1 .. Len(r) : T!Place(W, r[n]) = n
    BY <1>4, <1>7, OrderedInOrder, InOrderIsOrdered
  <1>9. Len(r) = Len(s) - 1
    BY <1>3, RemoveAtFacts
  <1> HIDE DEF r, s, c, O, moved
  <1>10. /\ r \in Seq(O \ {i}) /\ Len(r) \in Nat /\ \A n \in 1 .. Len(r) : r[n] \in O \ {i}
         /\ \A j \in O \ {i} : \E n \in 1 .. Len(r) : r[n] = j
         /\ \A m, n \in 1 .. Len(r) : m < n => T!Before(W, r[m], r[n])
    BY <1>5, <1>8 DEF InOrder
  <1>11. \A m, n \in 1 .. Len(r) : r[m] = r[n] => m = n
    BY <1>8
  <1>12. p \in 1 .. Len(r) + 1 /\ p \in Nat /\ 1 <= p /\ p <= Len(s)
    BY <1>3, <1>9 DEF s, t
  <1>13. /\ moved \in Seq(O) /\ Len(moved) = Len(s)
         /\ \A n \in 1 .. Len(s) :
               moved[n] = IF n < p THEN r[n] ELSE IF n = p THEN i ELSE r[n - 1]
    <2>1. r \in Seq(O)
      <3>1. r \in [1 .. Len(r) -> O]
        BY <1>10
      <3> QED BY <3>1, <1>10
    <2>2. moved = T!InsertAt(r, p, i)
      BY DEF r, s, c, t, moved, Rearranged
    <2>3. Len(r) + 1 = Len(s)
      BY <1>3, <1>9
    <2>4. /\ T!InsertAt(r, p, i) \in Seq(O)
          /\ Len(T!InsertAt(r, p, i)) = Len(r) + 1
          /\ \A n \in 1 .. Len(r) + 1 :
                T!InsertAt(r, p, i)[n] = IF n < p THEN r[n] ELSE IF n = p THEN i ELSE r[n - 1]
      <3>1. r \in Seq(O) /\ i \in O /\ p \in 1 .. Len(r) + 1
        BY <2>1, <1>2, <1>12
      <3> HIDE DEF h, At, C
      <3> QED BY <3>1, InsertAtFacts
    <2> QED BY <2>2, <2>3, <2>4
  <1>14. \A m \in 1 .. Len(r) : h[m] \in 1 .. Len(s) /\ h[m] # p /\ moved[h[m]] = r[m]
    <2> TAKE m \in 1 .. Len(r)
    <2>1. m \in Nat /\ 1 <= m /\ m <= Len(s) - 1
      BY <1>9, <1>10
    <2>2. CASE m < p
      <3>1. h[m] = m /\ m \in 1 .. Len(s)
        BY <2>1, <2>2, <1>3
      <3> QED BY <3>1, <2>1, <2>2, <1>12, <1>13
    <2>3. CASE ~ (m < p)
      <3>1. h[m] = m + 1 /\ m + 1 \in 1 .. Len(s) /\ ~ (m + 1 < p) /\ m + 1 # p /\ m + 1 - 1 = m
        BY <2>1, <2>3, <1>3, <1>12
      <3>2. moved[m + 1] = r[m + 1 - 1]
        BY <3>1, <1>13
      <3> QED BY <3>1, <3>2
    <2> QED BY <2>2, <2>3
  <1>15. moved[p] = i
    <2>1. p \in 1 .. Len(s) /\ ~ (p < p)
      BY <1>3, <1>12
    <2> QED BY <2>1, <1>13
  <1>16. \A n \in 1 .. Len(s) : n = p \/ \E m \in 1 .. Len(r) : n = h[m]
    <2> TAKE n \in 1 .. Len(s)
    <2>1. CASE n < p
      <3>1. n \in 1 .. Len(r) /\ h[n] = n
        BY <2>1, <1>3, <1>9, <1>12
      <3> QED BY <3>1
    <2>2. CASE n > p
      <3>1. n - 1 \in 1 .. Len(r) /\ n - 1 \in Nat /\ ~ (n - 1 < p) /\ n - 1 + 1 = n
        BY <2>2, <1>3, <1>9, <1>12
      <3>2. h[n - 1] = n
        BY <3>1
      <3> QED BY <3>1, <3>2
    <2>3. n < p \/ n = p \/ n > p
      BY <1>3, <1>12
    <2> QED BY <2>1, <2>2, <2>3
  <1>17. \A m, n \in 1 .. Len(r) : m < n <=> h[m] < h[n]
    <2> TAKE m, n \in 1 .. Len(r)
    <2>1. m \in Nat /\ n \in Nat
      BY <1>10
    <2>2. h[m] = (IF m < p THEN m ELSE m + 1) /\ h[n] = IF n < p THEN n ELSE n + 1
      BY <2>1
    <2> HIDE DEF h
    <2> QED BY <2>1, <2>2, <1>12
  <1> HIDE DEF h
  <1>18. \A j \in O, n \in 1 .. Len(s) : moved[n] = j => At[j] = n
    <2> TAKE j \in O, n \in 1 .. Len(s)
    <2> HAVE moved[n] = j
    <2> DEFINE I == {k \in 1 .. Len(moved) : moved[k] = j}
    <2>1. I = {n}
      <3>1. ASSUME NEW k \in 1 .. Len(s), moved[k] = j PROVE k = n
        <4>1. CASE n = p
          <5>1. moved[k] = i
            BY <3>1, <4>1, <1>15
          <5>2. ASSUME NEW m \in 1 .. Len(r), k = h[m] PROVE FALSE
            <6>1. r[m] = i /\ r[m] \in O \ {i}
              BY <5>1, <5>2, <1>10, <1>14
            <6> QED BY <6>1
          <5> QED BY <4>1, <5>2, <1>16
        <4>2. CASE n # p
          <5>1. PICK m \in 1 .. Len(r) : n = h[m]
            BY <4>2, <1>16
          <5>2. j = r[m] /\ j # i
            BY <5>1, <1>10, <1>14
          <5>3. PICK l \in 1 .. Len(r) : k = h[l]
            BY <3>1, <5>2, <1>15, <1>16
          <5>4. r[l] = r[m]
            BY <3>1, <5>2, <5>3, <1>14
          <5> QED BY <5>1, <5>3, <5>4, <1>11
        <4> QED BY <4>1, <4>2
      <3> QED BY <3>1, <1>13
    <2>2. At[j] = IF I # {} THEN T!Min(I) ELSE 0
      BY DEF T!SelectInSeq, NumberIn, moved
    <2> HIDE DEF I, At
    <2>3. n \in Nat
      BY <1>3
    <2>4. T!Min({n}) = n
      BY <2>3 DEF T!Min
    <2> QED BY <2>1, <2>2, <2>4
  <1>19. At[i] = p /\ \A m \in 1 .. Len(r) : At[r[m]] = h[m]
    <2>1. p \in 1 .. Len(s)
      BY <1>3, <1>12
    <2> HIDE DEF At
    <2> QED BY <2>1, <1>2, <1>10, <1>14, <1>15, <1>18
  <1>20. Q = [j \in DOMAIN R |-> IF j \in O THEN C[j] ELSE R[j]]
    BY <1>2 DEF Reordered
  <1>21. \A j \in O : C[j] = [R[j] EXCEPT !.order = At[j]]
    OBVIOUS
  <1> HIDE DEF At, C
  <1>22. \A j \in O : At[j] \in 1 .. Len(s)
    <2> TAKE j \in O
    <2>1. p \in 1 .. Len(s)
      BY <1>3, <1>12
    <2>2. CASE j = i
      BY <2>1, <2>2, <1>19
    <2>3. CASE j # i
      <3>1. PICK m \in 1 .. Len(r) : r[m] = j
        BY <2>3, <1>10
      <3> QED BY <3>1, <1>14, <1>19
    <2> QED BY <2>2, <2>3
  <1>23. \A j \in O : C[j] \in NumberedRow /\ C[j].at = R[j].at /\ C[j].key = R[j].key
         /\ C[j].order = At[j]
    <2> TAKE j \in O
    <2>1. R[j] \in NumberedRow /\ At[j] \in Nat
      BY <1>1, <1>2, <1>3, <1>22, RowFacts
    <2> QED BY <2>1, <1>21 DEF NumberedRow
  <1>24. /\ DOMAIN Q = DOMAIN R /\ Q \in [DOMAIN R -> NumberedRow]
         /\ \A j \in O : Q[j].at = R[j].at /\ Q[j].key = R[j].key /\ Q[j].order = At[j]
         /\ \A j \in DOMAIN R \ O : Q[j] = R[j]
    BY <1>1, <1>2, <1>20, <1>23
  <1>25. \A j, k \in O : At[j] = At[k] => j = k
    <2> TAKE j, k \in O
    <2> HAVE At[j] = At[k]
    <2>1. CASE j = i /\ k = i
      BY <2>1
    <2>2. CASE j = i /\ k # i
      <3>1. PICK m \in 1 .. Len(r) : r[m] = k
        BY <2>2, <1>10
      <3> QED BY <2>2, <3>1, <1>14, <1>19
    <2>3. CASE j # i /\ k = i
      <3>1. PICK m \in 1 .. Len(r) : r[m] = j
        BY <2>3, <1>10
      <3> QED BY <2>3, <3>1, <1>14, <1>19
    <2>4. CASE j # i /\ k # i
      <3>1. PICK m \in 1 .. Len(r) : r[m] = j
        BY <2>4, <1>10
      <3>2. PICK n \in 1 .. Len(r) : r[n] = k
        BY <2>4, <1>10
      <3>3. h[m] = h[n]
        BY <3>1, <3>2, <1>19
      <3> QED BY <3>1, <3>2, <3>3, <1>14
    <2> QED BY <2>1, <2>2, <2>3, <2>4
  <1>26. ASSUME NEW u \in Templates PROVE SoundAt(Q, u)
    <2>1. SoundAt(R, u)
      BY DEF RowsInv
    <2>2. T!OfTemplate(Q, u) = T!OfTemplate(R, u)
      BY <1>2, <1>24 DEF T!OfTemplate
    <2>3. CASE u # t
      <3>1. \A j \in T!OfTemplate(R, u) : Q[j] = R[j]
        BY <2>3, <1>2, <1>24 DEF T!OfTemplate
      <3> QED BY <2>1, <2>2, <3>1, SoundStays
    <2>4. CASE u = t
      <3>1. T!OfTemplate(R, u) = O
        BY <2>4 DEF O
      <3>2. KeysApart(Q, u)
        BY <2>1, <2>2, <3>1, <1>24 DEF SoundAt, KeysApart
      <3>3. NTasks \in Nat
        BY RoomAssumption
      <3>4. \A j \in O : Q[j].order \in 1 .. NTasks + Cardinality(O)
        BY <3>3, <1>3, <1>22, <1>24
      <3>5. \A j, k \in O : j # k => Q[j].order # Q[k].order
        BY <1>24, <1>25
      <3> QED BY <2>2, <3>1, <3>2, <3>4, <3>5 DEF SoundAt, NumbersRight
    <2> QED BY <2>3, <2>4
  <1>27. RowsInv(Q, st)
    <2>1. \A j \in DOMAIN Q : st[Q[j].at] = "live"
      BY <1>24 DEF RowsInv
    <2> QED BY <2>1, <1>1, <1>24, <1>26 DEF RowsInv
  <1>28. \A j, k \in O \ {i} : T!Before(R, j, k) <=> T!Before(Q, j, k)
    <2> TAKE j, k \in O \ {i}
    <2>1. PICK m \in 1 .. Len(r) : r[m] = j
      BY <1>10
    <2>2. PICK n \in 1 .. Len(r) : r[n] = k
      BY <1>10
    <2>3. T!Before(W, j, k) <=> m < n
      <3>1. j \in DOMAIN W /\ k \in DOMAIN W
        BY <1>2, <1>4
      <3>2. m < n \/ m = n \/ n < m
        BY <1>10
      <3>3. (m < n => T!Before(W, j, k)) /\ (n < m => T!Before(W, k, j)) /\ (m = n => j = k)
        BY <2>1, <2>2, <1>10
      <3>4. ~ T!Before(W, j, j) /\ ~ (T!Before(W, j, k) /\ T!Before(W, k, j))
        BY <3>1, <1>4, BeforeIsStrict
      <3> QED BY <3>2, <3>3, <3>4, <1>10
    <2>4. Q[j].order = h[m] /\ Q[k].order = h[n]
      BY <2>1, <2>2, <1>19, <1>24
    <2>5. h[m] \in Nat /\ h[n] \in Nat
      BY <1>3, <1>14
    <2>6. h[m] = h[n] => j = k
      BY <2>1, <2>2, <1>14
    <2>7. T!Before(Q, j, k) <=> h[m] < h[n]
      <3>1. j \in Nat
        BY <1>1, <1>2, RowFacts
      <3> QED BY <2>4, <2>5, <2>6, <3>1 DEF T!Before
    <2> QED BY <2>3, <2>7, <1>6, <1>17
  <1>29. SameBut(R, Q, i)
    <2>1. \A j, k \in DOMAIN R \ {i} :
             R[j].at = R[k].at => (T!Before(R, j, k) <=> T!Before(Q, j, k))
      <3> TAKE j, k \in DOMAIN R \ {i}
      <3> HAVE R[j].at = R[k].at
      <3>1. CASE j \in O
        BY <3>1, <1>2, <1>28
      <3>2. CASE j \notin O
        <4>1. Q[j] = R[j] /\ Q[k] = R[k]
          BY <3>2, <1>2, <1>24
        <4> QED BY <4>1 DEF T!Before
      <3> QED BY <3>1, <3>2
    <2>2. \A j \in DOMAIN R \ {i} : Q[j].at = R[j].at /\ Q[j].key = R[j].key
      BY <1>24
    <2> QED BY <2>1, <2>2, <1>24 DEF SameBut
  <1> QED BY <1>2, <1>24, <1>27, <1>29

-----------------------------------------------------------------------------
(* The tasks of a whole template *)

LEMMA RowsInvFacts ==
    ASSUME NEW R, NEW st, RowsInv(R, st)
    PROVE  /\ IsRows(R) /\ DOMAIN R \subseteq T!Ids /\ R \in [DOMAIN R -> NumberedRow]
           /\ \A i \in DOMAIN R : st[R[i].at] = "live"
           /\ \A t \in Templates : SoundAt(R, t)
  BY RowsInvRows DEF RowsInv

\* Default tasks for templates that have no tasks.
LEMMA DefaultsAdded ==
    ASSUME NEW R, NEW st, RowsInv(R, st), NEW new,
           NEW news, NEW E \in SUBSET Templates, AreDefaults(news, E),
           \A t \in E : T!OfTemplate(R, t) = {} /\ new[t] = "live",
           \A t \in Templates : st[t] = "live" => new[t] = "live",
           NEW Q \in T!Inserted(R, news)
    PROVE  /\ RowsInv(Q, new)
           /\ \A t \in Templates \ E : ListIn(Q, t) = ListIn(R, t)
           /\ \A t \in E : \A i \in T!OfTemplate(Q, t) : Q[i] \in news
           /\ \A x \in news : \E i \in T!OfTemplate(Q, x.at) : Q[i] = x
  <1>1. /\ IsRows(R) /\ DOMAIN R \subseteq T!Ids /\ R \in [DOMAIN R -> NumberedRow]
        /\ \A i \in DOMAIN R : st[R[i].at] = "live"
        /\ \A t \in Templates : SoundAt(R, t)
    BY RowsInvFacts
  <1>2. /\ \A t \in E : SoundAt(Q, t)
        /\ \A t \in E : \A i \in T!OfTemplate(Q, t) : Q[i] \in news
        /\ \A x \in news : \E i \in T!OfTemplate(Q, x.at) : Q[i] = x
        /\ \A t \in Templates \ E : T!OfTemplate(Q, t) = T!OfTemplate(R, t)
        /\ \A i \in DOMAIN R : Q[i] = R[i]
        /\ DOMAIN Q \subseteq T!Ids /\ Q \in [DOMAIN Q -> NumberedRow]
        /\ \A i \in DOMAIN Q : i \in DOMAIN R \/ Q[i].at \in E
    BY <1>1, DefaultsInserted
  <1>3. IsRows(Q)
    BY <1>2, RowsOfIds
  <1>4. ASSUME NEW t \in Templates \ E
        PROVE  /\ T!OfTemplate(Q, t) = T!OfTemplate(R, t)
               /\ \A i \in T!OfTemplate(R, t) : i \in DOMAIN R /\ Q[i] = R[i]
    BY <1>2 DEF T!OfTemplate
  <1>5. ASSUME NEW t \in Templates PROVE SoundAt(Q, t)
    <2>1. CASE t \in E
      BY <2>1, <1>2
    <2>2. CASE t \notin E
      <3>1. t \in Templates \ E /\ SoundAt(R, t)
        BY <2>2, <1>1
      <3> QED BY <3>1, <1>4, SoundStays
    <2> QED BY <2>1, <2>2
  <1>6. ASSUME NEW i \in DOMAIN Q PROVE new[Q[i].at] = "live"
    <2>1. CASE i \in DOMAIN R
      <3>1. Q[i] = R[i] /\ R[i].at \in Templates /\ st[R[i].at] = "live"
        BY <2>1, <1>1, <1>2, RowFacts
      <3> QED BY <3>1
    <2>2. CASE i \notin DOMAIN R
      BY <2>2, <1>2
    <2> QED BY <2>1, <2>2
  <1>7. RowsInv(Q, new)
    BY <1>2, <1>5, <1>6 DEF RowsInv
  <1>8. ASSUME NEW t \in Templates \ E PROVE ListIn(Q, t) = ListIn(R, t)
    <2>1. \A i, j \in T!OfTemplate(R, t) : T!Before(R, i, j) => T!Before(Q, i, j)
      BY <1>4 DEF T!Before
    <2>2. \A i \in T!OfTemplate(R, t) : Q[i].key = R[i].key
      BY <1>4
    <2> QED BY <2>1, <2>2, <1>1, <1>3, <1>4, SameList
  <1> QED BY <1>2, <1>7, <1>8

\* A template that loses all its tasks.
LEMMA TemplateCleared ==
    ASSUME NEW R, NEW st, RowsInv(R, st), NEW t \in Templates, NEW new,
           \A u \in Templates \ {t} : new[u] = st[u],
           NEW Q, Q = T!Without(R, T!OfTemplate(R, t))
    PROVE  /\ RowsInv(Q, new)
           /\ T!OfTemplate(Q, t) = {}
           /\ \A u \in Templates \ {t} : ListIn(Q, u) = ListIn(R, u)
  <1>1. /\ IsRows(R) /\ DOMAIN R \subseteq T!Ids /\ R \in [DOMAIN R -> NumberedRow]
        /\ \A i \in DOMAIN R : st[R[i].at] = "live"
        /\ \A u \in Templates : SoundAt(R, u)
    BY RowsInvFacts
  <1> DEFINE gone == T!OfTemplate(R, t)
  <1>2. IsRows(Q) /\ DOMAIN Q = DOMAIN R \ gone /\ \A i \in DOMAIN R \ gone : Q[i] = R[i]
    <2>1. IsRows(R)
      BY <1>1
    <2>2. Q = T!Without(R, gone)
      OBVIOUS
    <2> HIDE DEF gone
    <2> QED BY <2>1, <2>2, WithoutFacts
  <1>3. \A i \in DOMAIN Q : i \in DOMAIN R /\ Q[i] = R[i] /\ R[i].at # t /\ R[i].at \in Templates
    BY <1>1, <1>2, RowFacts DEF T!OfTemplate
  <1>4. T!OfTemplate(Q, t) = {}
    BY <1>3 DEF T!OfTemplate
  <1>5. ASSUME NEW u \in Templates, u # t
        PROVE  /\ T!OfTemplate(Q, u) = T!OfTemplate(R, u)
               /\ \A i \in T!OfTemplate(R, u) : Q[i] = R[i]
    BY <1>2, <1>5 DEF T!OfTemplate
  <1>6. ASSUME NEW u \in Templates PROVE SoundAt(Q, u)
    <2>1. CASE u = t
      BY <2>1, <1>4 DEF SoundAt, NumbersRight, KeysApart
    <2>2. CASE u # t
      BY <2>2, <1>1, <1>5, SoundStays
    <2> QED BY <2>1, <2>2
  <1>7. RowsInv(Q, new)
    <2>1. DOMAIN Q \subseteq T!Ids /\ Q \in [DOMAIN Q -> NumberedRow]
      BY <1>1, <1>2 DEF IsRows
    <2>2. \A i \in DOMAIN Q : new[Q[i].at] = "live"
      BY <1>1, <1>3
    <2> QED BY <2>1, <2>2, <1>6 DEF RowsInv
  <1>8. ASSUME NEW u \in Templates, u # t PROVE ListIn(Q, u) = ListIn(R, u)
    <2>1. \A i, j \in T!OfTemplate(R, u) : T!Before(R, i, j) => T!Before(Q, i, j)
      BY <1>5, <1>8 DEF T!Before
    <2>2. \A i \in T!OfTemplate(R, u) : Q[i].key = R[i].key
      BY <1>5, <1>8
    <2> QED BY <2>1, <2>2, <1>1, <1>2, <1>5, <1>8, SameList
  <1> QED BY <1>4, <1>7, <1>8

LEMMA EmptyList ==
    ASSUME NEW R, IsRows(R), NEW t
    PROVE  ListIn(R, t) = <<>> <=> T!OfTemplate(R, t) = {}
  <1>1. /\ ListIn(R, t) \in Seq(Entries(R)) /\ Len(ListIn(R, t)) = Cardinality(T!OfTemplate(R, t))
        /\ IsFiniteSet(T!OfTemplate(R, t))
    BY ListInFacts, OfTemplateFinite
  <1>2. Cardinality(T!OfTemplate(R, t)) = 0 <=> T!OfTemplate(R, t) = {}
    BY <1>1, FS_EmptySet
  <1> DEFINE l == ListIn(R, t)
             S == Entries(R)
  <1>3. l \in Seq(S)
    BY <1>1
  <1> HIDE DEF l, S
  <1>4. l = <<>> <=> Len(l) = 0
    BY <1>3
  <1> QED BY <1>1, <1>2, <1>4 DEF l

\* Default tasks are listed in the order of the product.
LEMMA DefaultList ==
    ASSUME NEW R, IsRows(R), NEW t \in Templates, SoundAt(R, t),
           \A i \in T!OfTemplate(R, t) :
              R[i].order \in DOMAIN Defaults[t] /\ R[i].key = Defaults[t][R[i].order],
           \A n \in DOMAIN Defaults[t] : \E i \in T!OfTemplate(R, t) : R[i].order = n
    PROVE  A!KeysOf(ListIn(R, t)) = Defaults[t]
  <1> DEFINE O == T!OfTemplate(R, t)
             d == Defaults[t]
             s == [n \in 1 .. Len(d) |-> CHOOSE i \in O : R[i].order = n]
             l == ListIn(R, t)
  <1>1. d \in Seq(DefaultKeys(t)) /\ DOMAIN d = 1 .. Len(d) /\ Len(d) \in Nat
    BY DefaultsFacts
  <1>2. /\ \A i \in O : R[i].order \in 1 .. Len(d) /\ R[i].key = d[R[i].order]
        /\ \A n \in 1 .. Len(d) : \E i \in O : R[i].order = n
        /\ \A i, j \in O : R[i].order = R[j].order => i = j
    BY <1>1 DEF SoundAt, NumbersRight
  <1>3. /\ l \in Seq(Entries(R)) /\ Len(l) = Len(T!Ordered(R, t)) /\ DOMAIN l = 1 .. Len(l)
        /\ \A n \in 1 .. Len(l) : l[n] = Entry(R, T!Ordered(R, t)[n])
    BY ListInFacts
  <1> HIDE DEF O, d, l
  <1>4. \A n \in 1 .. Len(d) : s[n] \in O /\ R[s[n]].order = n
    BY <1>2
  <1>5. s \in Seq(O) /\ Len(s) = Len(d)
    <2>1. s \in [1 .. Len(d) -> O]
      BY <1>4
    <2> HIDE DEF s
    <2> QED BY <2>1, <1>1
  <1>6. \A i \in O : \E n \in 1 .. Len(s) : s[n] = i
    <2> TAKE i \in O
    <2>1. R[i].order \in 1 .. Len(d)
      BY <1>2
    <2>2. s[R[i].order] = i
      BY <2>1, <1>2, <1>4
    <2> HIDE DEF s
    <2> QED BY <2>1, <2>2, <1>5
  <1> HIDE DEF s
  <1>7. \A m, n \in 1 .. Len(s) : m < n => T!Before(R, s[m], s[n])
    BY <1>4, <1>5 DEF T!Before
  <1>8. InOrder(R, t, s)
    BY <1>5, <1>6, <1>7 DEF InOrder, O
  <1>9. s = T!Ordered(R, t)
    BY <1>8, InOrderIsOrdered
  <1>10. DOMAIN l = 1 .. Len(d) /\ \A n \in 1 .. Len(d) : l[n].key = d[n]
    <2>1. DOMAIN l = 1 .. Len(d)
      BY <1>3, <1>5, <1>9
    <2>2. ASSUME NEW n \in 1 .. Len(d) PROVE l[n].key = d[n]
      <3>1. l[n] = Entry(R, s[n])
        BY <1>3, <1>5, <1>9
      <3>2. R[s[n]].key = d[n]
        BY <1>2, <1>4
      <3> QED BY <3>1, <3>2 DEF Entry
    <2> QED BY <2>1, <2>2
  <1>11. A!KeysOf(l) = [n \in 1 .. Len(d) |-> d[n]]
    BY <1>10 DEF A!KeysOf
  <1>12. d = [n \in 1 .. Len(d) |-> d[n]]
    BY <1>1
  <1> QED BY <1>11, <1>12 DEF l, d

\* Some of the default tasks are listed in the order of the product.
LEMMA SomeDefaultsList ==
    ASSUME NEW R, IsRows(R), NEW t \in Templates, SoundAt(R, t),
           \A i \in T!OfTemplate(R, t) :
              R[i].order \in DOMAIN Defaults[t] /\ R[i].key = Defaults[t][R[i].order]
    PROVE  \E f \in A!Increasing(DOMAIN ListIn(R, t), DOMAIN Defaults[t]) :
              \A n \in DOMAIN ListIn(R, t) : ListIn(R, t)[n].key = Defaults[t][f[n]]
  <1> DEFINE O == T!OfTemplate(R, t)
             s == T!Ordered(R, t)
             l == ListIn(R, t)
             f == [n \in DOMAIN l |-> R[s[n]].order]
  <1>1. DOMAIN l = 1 .. Len(s) /\ \A n \in 1 .. Len(s) : s[n] \in O /\ l[n] = Entry(R, s[n])
    BY ListInFacts
  <1>2. \A m, n \in 1 .. Len(s) : m < n => T!Before(R, s[m], s[n])
    BY OrderedInOrder DEF InOrder
  <1>3. /\ \A i, j \in O : i # j => R[i].order # R[j].order
        /\ O \subseteq DOMAIN R
    BY DEF SoundAt, NumbersRight, T!OfTemplate
  <1> HIDE DEF O, s, l
  <1>4. ASSUME NEW m \in DOMAIN l, NEW n \in DOMAIN l, m < n
        PROVE  R[s[m]].order < R[s[n]].order
    <2>1. s[m] \in O /\ s[n] \in O /\ T!Before(R, s[m], s[n])
      BY <1>1, <1>2, <1>4
    <2>2. s[m] # s[n]
      BY <2>1, <1>3, BeforeIsStrict
    <2> QED BY <2>1, <2>2, <1>3 DEF T!Before
  <1>5. \A n \in DOMAIN l : f[n] \in DOMAIN Defaults[t] /\ l[n].key = Defaults[t][f[n]]
    <2> TAKE n \in DOMAIN l
    <2>1. s[n] \in O /\ l[n] = Entry(R, s[n])
      BY <1>1
    <2>2. R[s[n]].order \in DOMAIN Defaults[t] /\ R[s[n]].key = Defaults[t][R[s[n]].order]
      BY <2>1 DEF O
    <2>3. f[n] = R[s[n]].order
      OBVIOUS
    <2> QED BY <2>1, <2>2, <2>3 DEF Entry
  <1>6. f \in [DOMAIN l -> DOMAIN Defaults[t]]
    BY <1>5
  <1>7. \A m, n \in DOMAIN l : m < n => f[m] < f[n]
    BY <1>4
  <1> HIDE DEF f
  <1>8. f \in A!Increasing(DOMAIN l, DOMAIN Defaults[t])
    BY <1>6, <1>7 DEF A!Increasing
  <1> QED BY <1>5, <1>8 DEF l

-----------------------------------------------------------------------------
(* Steps of the lists *)

TemplatesInv == T!TypeOK /\ RowsInv(tasks, status) /\ lists = T!Lists

LEMMA InvLists ==
    ASSUME TemplatesInv
    PROVE  /\ lists = [t \in Templates |-> ListIn(tasks, t)]
           /\ \A t \in Templates : lists[t] = ListIn(tasks, t)
           /\ RowsInv(tasks, status) /\ IsRows(tasks) /\ tasks \in [DOMAIN tasks -> NumberedRow]
           /\ DOMAIN tasks \subseteq T!Ids
           /\ \A i \in DOMAIN tasks : tasks[i].at \in Templates /\ status[tasks[i].at] = "live"
  <1>1. lists = [t \in Templates |-> ListIn(tasks, t)]
    BY ListsAreListIn DEF TemplatesInv
  <1>2. RowsInv(tasks, status)
    BY DEF TemplatesInv
  <1>3. /\ IsRows(tasks) /\ tasks \in [DOMAIN tasks -> NumberedRow] /\ DOMAIN tasks \subseteq T!Ids
        /\ \A i \in DOMAIN tasks : status[tasks[i].at] = "live"
    BY <1>2, RowsInvFacts
  <1> QED BY <1>1, <1>2, <1>3, RowFacts

\* One list changes, and the others stay.
LEMMA OneListChanges ==
    ASSUME lists = [u \in Templates |-> ListIn(tasks, u)], lists' = T!Lists',
           NEW t \in Templates, NEW l, ListIn(tasks', t) = l,
           \A u \in Templates \ {t} : ListIn(tasks', u) = ListIn(tasks, u)
    PROVE  /\ lists' = [lists EXCEPT ![t] = l]
           /\ lists'[t] = l
  <1>1. lists' = [u \in Templates |-> ListIn(tasks', u)]
    BY ListsAreListIn
  <1> QED BY <1>1

LEMMA EntriesElsewhere ==
    ASSUME TemplatesInv, NEW x, NEW y \in A!Elsewhere(x)
    PROVE  y # x /\ \E j \in DOMAIN tasks : y = Entry(tasks, j)
  <1>1. y # x /\ y \in UNION {A!ToSet(lists[t]) : t \in Templates}
    BY DEF A!Elsewhere
  <1>2. PICK t \in Templates : y \in A!ToSet(lists[t])
    BY <1>1
  <1>3. PICK n \in DOMAIN lists[t] : y = lists[t][n]
    BY <1>2 DEF A!ToSet
  <1>4. lists[t] = ListIn(tasks, t) /\ IsRows(tasks)
    BY InvLists
  <1>5. y = Entry(tasks, T!Ordered(tasks, t)[n])
        /\ T!Ordered(tasks, t)[n] \in T!OfTemplate(tasks, t)
    BY <1>3, <1>4, ListInFacts
  <1> QED BY <1>1, <1>5 DEF T!OfTemplate

LEMMA PutStep ==
    ASSUME TemplatesInv, lists' = T!Lists', RowsInv(tasks', status),
           UNCHANGED <<status, successor>>,
           NEW t \in Templates, status[t] = "live", NEW i \in T!Ids \ DOMAIN tasks,
           DOMAIN tasks' = DOMAIN tasks \cup {i}, tasks'[i].at = t, SameBut(tasks, tasks', i),
           tasks'[i].key # NoKey => \A j \in DOMAIN tasks : tasks[j].key # tasks'[i].key
    PROVE  A!Put(t)
  <1> DEFINE Q == tasks'
             n == T!Place(Q, i)
             e == Entry(Q, i)
  <1>1. /\ lists = [u \in Templates |-> ListIn(tasks, u)] /\ IsRows(tasks)
        /\ lists[t] = ListIn(tasks, t)
    BY InvLists
  <1>2. IsRows(Q)
    BY RowsInvFacts
  <1>3. SameBut(Q, tasks, i)
    BY SameButBack
  <1>4. i \in T!OfTemplate(Q, t) /\ i \notin T!OfTemplate(tasks, t)
    BY DEF T!OfTemplate
  <1>5. /\ n \in 1 .. Len(ListIn(Q, t)) /\ ListIn(Q, t)[n] = e
        /\ Len(ListIn(Q, t)) = Len(ListIn(tasks, t)) + 1
        /\ ListIn(Q, t) = T!InsertAt(ListIn(tasks, t), n, e)
    BY <1>1, <1>2, <1>3, <1>4, ListWithout
  <1>6. ASSUME NEW u \in Templates \ {t} PROVE ListIn(Q, u) = ListIn(tasks, u)
    <2>1. i \notin T!OfTemplate(Q, u) /\ i \notin T!OfTemplate(tasks, u)
      BY DEF T!OfTemplate
    <2> QED BY <2>1, <1>1, <1>2, ListStays
  <1>7. /\ lists' = [lists EXCEPT ![t] = ListIn(Q, t)]
        /\ lists'[t] = ListIn(Q, t)
    BY <1>1, <1>6, OneListChanges
  <1>8. DOMAIN ListIn(Q, t) = 1 .. Len(ListIn(Q, t))
    BY <1>2, ListInFacts
  <1>9. A!KeyFree(e)
    <2>1. SUFFICES ASSUME e.key # NoKey, NEW y \in A!Elsewhere(e) PROVE y.key # e.key
      BY DEF A!KeyFree
    <2>2. PICK j \in DOMAIN tasks : y = Entry(tasks, j)
      BY EntriesElsewhere
    <2>3. e.key = tasks'[i].key /\ y.key = tasks[j].key
      BY <2>2 DEF Entry
    <2> QED BY <2>1, <2>2, <2>3
  <1>10. n \in DOMAIN lists'[t] /\ lists'[t][n] = e
    BY <1>5, <1>7, <1>8
  <1>11. lists' = [lists EXCEPT ![t] = A!InsertAt(@, n, lists'[t][n])]
    BY <1>1, <1>5, <1>7, <1>10, SameSequenceOperators
  <1>12. Len(lists'[t]) = Len(lists[t]) + 1
    BY <1>1, <1>5, <1>7
  <1> HIDE DEF Q, n, e
  <1> QED BY <1>9, <1>10, <1>11, <1>12 DEF A!Put

LEMMA DropStep ==
    ASSUME TemplatesInv, lists' = T!Lists', RowsInv(tasks', status),
           UNCHANGED <<status, successor>>,
           NEW i \in DOMAIN tasks, i \notin DOMAIN tasks', SameBut(tasks, tasks', i)
    PROVE  A!Drop(tasks[i].at)
  <1> DEFINE Q == tasks'
             t == tasks[i].at
             n == T!Place(tasks, i)
  <1>1. /\ lists = [u \in Templates |-> ListIn(tasks, u)] /\ IsRows(tasks) /\ t \in Templates
        /\ lists[t] = ListIn(tasks, t)
    BY InvLists
  <1>2. IsRows(Q)
    BY RowsInvFacts
  <1>3. i \in T!OfTemplate(tasks, t) /\ i \notin T!OfTemplate(Q, t)
    BY DEF T!OfTemplate
  <1>4. /\ n \in 1 .. Len(ListIn(tasks, t))
        /\ Len(ListIn(tasks, t)) = Len(ListIn(Q, t)) + 1
        /\ ListIn(Q, t) = T!RemoveAt(ListIn(tasks, t), n)
    BY <1>1, <1>2, <1>3, ListWithout
  <1>5. ASSUME NEW u \in Templates \ {t} PROVE ListIn(Q, u) = ListIn(tasks, u)
    <2>1. i \notin T!OfTemplate(Q, u) /\ i \notin T!OfTemplate(tasks, u)
      BY DEF T!OfTemplate
    <2> QED BY <2>1, <1>1, <1>2, ListStays
  <1>6. /\ lists' = [lists EXCEPT ![t] = ListIn(Q, t)]
        /\ lists'[t] = ListIn(Q, t)
    BY <1>1, <1>5, OneListChanges
  <1>7. /\ DOMAIN ListIn(tasks, t) = 1 .. Len(ListIn(tasks, t))
        /\ Len(ListIn(tasks, t)) \in Nat /\ Len(ListIn(Q, t)) \in Nat
    BY <1>1, <1>2, ListInFacts
  <1>8. n \in DOMAIN lists[t] /\ Len(lists'[t]) = Len(lists[t]) - 1
    BY <1>1, <1>4, <1>6, <1>7
  <1>9. lists' = [lists EXCEPT ![t] = A!RemoveAt(@, n)]
    BY <1>1, <1>4, <1>6, SameSequenceOperators
  <1> HIDE DEF Q, n, t
  <1>10. A!Drop(t)
    BY <1>8, <1>9 DEF A!Drop
  <1> QED BY <1>10 DEF t

LEMMA MoveStep ==
    ASSUME TemplatesInv, lists' = T!Lists', RowsInv(tasks', status),
           UNCHANGED <<status, successor>>,
           NEW i \in DOMAIN tasks, DOMAIN tasks' = DOMAIN tasks, tasks'[i].at = tasks[i].at,
           tasks'[i].key = tasks[i].key, SameBut(tasks, tasks', i)
    PROVE  A!Move(tasks[i].at)
  <1> DEFINE Q == tasks'
             t == tasks[i].at
             n == T!Place(tasks, i)
             p == T!Place(Q, i)
  <1>1. /\ lists = [u \in Templates |-> ListIn(tasks, u)] /\ IsRows(tasks) /\ t \in Templates
        /\ lists[t] = ListIn(tasks, t)
    BY InvLists
  <1>2. IsRows(Q)
    BY RowsInvFacts
  <1>3. i \in T!OfTemplate(tasks, t) /\ i \in T!OfTemplate(Q, t)
    BY DEF T!OfTemplate
  <1>4. /\ Len(ListIn(Q, t)) = Len(ListIn(tasks, t))
        /\ n \in DOMAIN ListIn(tasks, t) /\ p \in DOMAIN ListIn(tasks, t)
        /\ ListIn(Q, t) = T!InsertAt(T!RemoveAt(ListIn(tasks, t), n), p, ListIn(tasks, t)[n])
    BY <1>1, <1>2, <1>3, ListMoved
  <1>5. ASSUME NEW u \in Templates \ {t} PROVE ListIn(Q, u) = ListIn(tasks, u)
    <2>1. i \notin T!OfTemplate(Q, u) /\ i \notin T!OfTemplate(tasks, u)
      BY DEF T!OfTemplate
    <2> QED BY <2>1, <1>1, <1>2, ListStays
  <1>6. /\ lists' = [lists EXCEPT ![t] = ListIn(Q, t)]
        /\ lists'[t] = ListIn(Q, t)
    BY <1>1, <1>5, OneListChanges
  <1>7. n \in DOMAIN lists[t] /\ p \in DOMAIN lists[t] /\ Len(lists'[t]) = Len(lists[t])
    BY <1>1, <1>4, <1>6
  <1>8. lists' = [lists EXCEPT ![t] = A!InsertAt(A!RemoveAt(@, n), p, @[n])]
    BY <1>1, <1>4, <1>6, SameSequenceOperators
  <1> HIDE DEF Q, n, t, p
  <1>9. A!Move(t)
    BY <1>7, <1>8 DEF A!Move
  <1> QED BY <1>9 DEF t

LEMMA TransferStep ==
    ASSUME TemplatesInv, lists' = T!Lists', RowsInv(tasks', status),
           UNCHANGED <<status, successor>>,
           NEW i \in DOMAIN tasks, DOMAIN tasks' = DOMAIN tasks,
           NEW u \in Templates, status[u] = "live", tasks[i].at # u, tasks'[i].at = u,
           tasks'[i].key = tasks[i].key, SameBut(tasks, tasks', i),
           tasks[i].key # NoKey => \A j \in DOMAIN tasks \ {i} : tasks[j].key # tasks[i].key
    PROVE  A!Transfer(tasks[i].at, u)
  <1> DEFINE Q == tasks'
             t == tasks[i].at
             n == T!Place(tasks, i)
             p == T!Place(Q, i)
             e == Entry(tasks, i)
  <1>1. /\ lists = [v \in Templates |-> ListIn(tasks, v)] /\ IsRows(tasks) /\ t \in Templates
        /\ \A v \in Templates : lists[v] = ListIn(tasks, v)
    BY InvLists
  <1>2. IsRows(Q)
    BY RowsInvFacts
  <1>3. /\ i \in T!OfTemplate(tasks, t) /\ i \notin T!OfTemplate(Q, t)
        /\ i \notin T!OfTemplate(tasks, u) /\ i \in T!OfTemplate(Q, u)
    BY DEF T!OfTemplate
  <1>4. /\ n \in 1 .. Len(ListIn(tasks, t)) /\ ListIn(tasks, t)[n] = e
        /\ Len(ListIn(tasks, t)) = Len(ListIn(Q, t)) + 1
        /\ ListIn(Q, t) = T!RemoveAt(ListIn(tasks, t), n)
    BY <1>1, <1>2, <1>3, ListWithout
  <1>5. /\ p \in 1 .. Len(ListIn(Q, u))
        /\ Len(ListIn(Q, u)) = Len(ListIn(tasks, u)) + 1
        /\ ListIn(Q, u) = T!InsertAt(ListIn(tasks, u), p, Entry(Q, i))
    BY <1>1, <1>2, <1>3, SameButBack, ListWithout
  <1>6. Entry(Q, i) = e
    BY DEF Entry
  <1>7. ASSUME NEW v \in Templates \ {t, u} PROVE ListIn(Q, v) = ListIn(tasks, v)
    <2>1. i \notin T!OfTemplate(Q, v) /\ i \notin T!OfTemplate(tasks, v)
      BY DEF T!OfTemplate
    <2> QED BY <2>1, <1>1, <1>2, ListStays
  <1>8. lists' = [v \in Templates |-> ListIn(Q, v)]
    BY ListsAreListIn
  <1>9. /\ DOMAIN ListIn(tasks, t) = 1 .. Len(ListIn(tasks, t))
        /\ DOMAIN ListIn(Q, u) = 1 .. Len(ListIn(Q, u))
        /\ Len(ListIn(tasks, t)) \in Nat /\ Len(ListIn(Q, t)) \in Nat
    BY <1>1, <1>2, ListInFacts
  <1> HIDE DEF Q, n, t, p, e
  <1>10. lists' = [lists EXCEPT ![t] = ListIn(Q, t), ![u] = ListIn(Q, u)]
    <2>1. t # u
      BY DEF t
    <2> QED BY <2>1, <1>1, <1>7, <1>8
  <1>11. /\ lists[t][n] = e /\ n \in DOMAIN lists[t] /\ p \in DOMAIN lists'[u]
         /\ Len(lists'[u]) = Len(lists[u]) + 1 /\ Len(lists'[t]) = Len(lists[t]) - 1
    BY <1>1, <1>4, <1>5, <1>8, <1>9
  <1>12. A!KeyFree(e)
    <2>1. SUFFICES ASSUME e.key # NoKey, NEW y \in A!Elsewhere(e) PROVE y.key # e.key
      BY DEF A!KeyFree
    <2>2. PICK j \in DOMAIN tasks : y = Entry(tasks, j) /\ y # e
      BY EntriesElsewhere
    <2>3. e.key = tasks[i].key /\ y.key = tasks[j].key /\ j # i
      BY <2>2 DEF Entry, e
    <2> QED BY <2>1, <2>2, <2>3
  <1>13. lists' = [lists EXCEPT ![t] = A!RemoveAt(@, n), ![u] = A!InsertAt(@, p, lists[t][n])]
    <2>1. t # u
      BY DEF t
    <2>2. A!RemoveAt(lists[t], n) = ListIn(Q, t)
      BY <1>1, <1>4, SameSequenceOperators
    <2>3. A!InsertAt(lists[u], p, lists[t][n]) = ListIn(Q, u)
      BY <1>1, <1>5, <1>6, <1>11, SameSequenceOperators
    <2> QED BY <2>1, <2>2, <2>3, <1>10
  <1>14. A!Transfer(t, u)
    <2>1. t # u
      BY DEF t
    <2> QED BY <2>1, <1>11, <1>12, <1>13 DEF A!Transfer
  <1> QED BY <1>14 DEF t

-----------------------------------------------------------------------------
(* What each handler does to the rows and to the lists *)

LEMMA KeyIsFree ==
    ASSUME TemplatesInv, NEW k, NEW except, T!KeyAvailable(k, except), k # NoKey,
           NEW j \in DOMAIN tasks \ except
    PROVE  tasks[j].key # k
  BY InvLists DEF T!KeyAvailable, T!Live

LEMMA CreateTemplateSteps ==
    ASSUME TemplatesInv, lists' = T!Lists', NEW t \in Templates, T!CreateTemplate(t)
    PROVE  RowsInv(tasks', status') /\ A!Create(t)
  <1>1. /\ status[t] = "unborn" /\ t \notin T!Recommended
        /\ status' = [status EXCEPT ![t] = "live"] /\ UNCHANGED <<tasks, successor>>
    BY DEF T!CreateTemplate
  <1>2. status \in [Templates -> {"unborn", "live", "archived"}]
    BY DEF TemplatesInv, T!TypeOK
  <1>3. /\ RowsInv(tasks, status)
        /\ \A i \in DOMAIN tasks : tasks[i].at \in Templates /\ status[tasks[i].at] = "live"
    BY InvLists
  <1>4. \A i \in DOMAIN tasks : status'[tasks[i].at] = "live"
    BY <1>1, <1>2, <1>3
  <1>5. RowsInv(tasks', status')
    BY <1>1, <1>3, <1>4 DEF RowsInv
  <1>6. lists' = lists
    BY <1>1, InvLists, ListsAreListIn
  <1>7. Defaults[t] = <<>>
    BY <1>1, DefaultsFacts
  <1> QED BY <1>1, <1>5, <1>6, <1>7 DEF A!Create

LEMMA SeedSteps ==
    ASSUME TemplatesInv, lists' = T!Lists', T!Seed
    PROVE  RowsInv(tasks', status') /\ A!Recommend
  <1> DEFINE born == {t \in T!Recommended : status[t] = "unborn"}
             alive == {t \in T!Recommended : status[t] # "archived"}
             empty == {t \in alive : T!OfTemplate(tasks, t) = {}}
             news == UNION {T!DefaultTasks(t, {}) : t \in empty}
  <1>1. /\ status' = [t \in Templates |-> IF t \in born THEN "live" ELSE status[t]]
        /\ tasks' \in T!Inserted(T!Deduped(tasks, alive), news)
        /\ successor' = [t \in Templates |->
              IF t \in born /\ Successors[t] \in alive THEN Successors[t] ELSE successor[t]]
    BY DEF T!Seed
  <1>2. /\ status \in [Templates -> {"unborn", "live", "archived"}]
        /\ successor \in [Templates -> Templates \cup {NoTemplate}]
    BY DEF TemplatesInv, T!TypeOK
  <1>3. /\ RowsInv(tasks, status) /\ IsRows(tasks)
        /\ lists = [t \in Templates |-> ListIn(tasks, t)]
    BY InvLists
  <1>4. T!Deduped(tasks, alive) = tasks
    BY <1>3, NothingToDedupe
  <1>5. \A t \in Templates : t \in T!Recommended <=> Defaults[t] # <<>>
    BY DefaultsFacts
  <1>6. T!Recommended \subseteq Templates
    BY DEF T!Recommended
  <1>7. \A t \in Templates : t \in alive <=> Defaults[t] # <<>> /\ status'[t] = "live"
    <2> TAKE t \in Templates
    <2>1. status[t] \in {"unborn", "live", "archived"}
           /\ status'[t] = IF t \in born THEN "live" ELSE status[t]
      BY <1>1, <1>2
    <2> QED BY <2>1, <1>5
  <1>8. AreDefaults(news, empty)
    <2> SUFFICES ASSUME NEW x \in news
                 PROVE  /\ x.at \in empty /\ x.order \in DOMAIN Defaults[x.at]
                        /\ x.key = Defaults[x.at][x.order]
                        /\ x = [at |-> x.at, order |-> x.order, key |-> x.key]
      BY DEF AreDefaults
    <2>1. PICK t \in empty : x \in T!DefaultTasks(t, {})
      OBVIOUS
    <2>2. AreDefaults(T!DefaultTasks(t, {}), {t})
      BY <2>1, <1>6, DefaultTasksAre
    <2>3. /\ x.at = t /\ x.order \in DOMAIN Defaults[x.at]
          /\ x.key = Defaults[x.at][x.order]
          /\ x = [at |-> x.at, order |-> x.order, key |-> x.key]
      BY <2>1, <2>2 DEF AreDefaults
    <2> QED BY <2>1, <2>3
  <1>9. ASSUME NEW t \in empty, NEW n \in DOMAIN Defaults[t]
        PROVE  [at |-> t, order |-> n, key |-> Defaults[t][n]] \in news
    BY <1>6, DefaultTasksAre
  <1>10. \A t \in empty : t \in Templates /\ T!OfTemplate(tasks, t) = {} /\ status'[t] = "live"
    BY <1>6, <1>7
  <1>11. \A t \in Templates : status[t] = "live" => status'[t] = "live"
    BY <1>1
  <1>12. empty \in SUBSET Templates
    BY <1>6
  <1>13. \A t \in Templates : t \in empty <=> t \in alive /\ lists[t] = <<>>
    BY <1>3, EmptyList
  <1>20. \A t \in Templates : status'[t] =
            IF Defaults[t] # <<>> /\ status[t] = "unborn" THEN "live" ELSE status[t]
    BY <1>1, <1>5
  <1>21. \A t \in Templates :
            successor'[t] = successor[t]
               \/ (status[t] = "unborn" /\ status'[successor'[t]] = "live")
    BY <1>1, <1>6, <1>7
  <1> HIDE DEF news, empty, born, alive
  <1>14. /\ RowsInv(tasks', status')
         /\ \A t \in Templates \ empty : ListIn(tasks', t) = ListIn(tasks, t)
         /\ \A t \in empty : \A i \in T!OfTemplate(tasks', t) : tasks'[i] \in news
         /\ \A x \in news : \E i \in T!OfTemplate(tasks', x.at) : tasks'[i] = x
    BY <1>1, <1>3, <1>4, <1>8, <1>10, <1>11, <1>12, DefaultsAdded
  <1>15. IsRows(tasks') /\ \A t \in Templates : SoundAt(tasks', t)
    BY <1>14, RowsInvFacts
  <1>16. lists' = [t \in Templates |-> ListIn(tasks', t)]
    BY ListsAreListIn
  <1>17. ASSUME NEW t \in empty PROVE A!KeysOf(lists'[t]) = Defaults[t]
    <2>1. \A i \in T!OfTemplate(tasks', t) :
             /\ tasks'[i].order \in DOMAIN Defaults[t]
             /\ tasks'[i].key = Defaults[t][tasks'[i].order]
      <3> TAKE i \in T!OfTemplate(tasks', t)
      <3>1. tasks'[i] \in news /\ tasks'[i].at = t
        BY <1>14 DEF T!OfTemplate
      <3> QED BY <3>1, <1>8 DEF AreDefaults
    <2>2. \A n \in DOMAIN Defaults[t] : \E i \in T!OfTemplate(tasks', t) : tasks'[i].order = n
      <3> TAKE n \in DOMAIN Defaults[t]
      <3> DEFINE x == [at |-> t, order |-> n, key |-> Defaults[t][n]]
      <3>1. x \in news /\ x.at = t /\ x.order = n
        BY <1>9
      <3> HIDE DEF x
      <3> QED BY <3>1, <1>14
    <2>3. t \in Templates
      BY <1>12
    <2>4. A!KeysOf(ListIn(tasks', t)) = Defaults[t]
      BY <2>1, <2>2, <2>3, <1>15, DefaultList
    <2> QED BY <2>3, <2>4, <1>16
  <1>18. ASSUME NEW t \in Templates \ empty PROVE lists'[t] = lists[t]
    BY <1>3, <1>14, <1>16
  <1>19. \A t \in Templates :
            IF Defaults[t] # <<>> /\ status'[t] = "live" /\ lists[t] = <<>>
            THEN A!KeysOf(lists'[t]) = Defaults[t]
            ELSE lists'[t] = lists[t]
    BY <1>7, <1>13, <1>17, <1>18
  <1>22. status' = [t \in Templates |->
            IF Defaults[t] # <<>> /\ status[t] = "unborn" THEN "live" ELSE status[t]]
    <2>1. status' = [t \in Templates |-> status'[t]]
      BY <1>1
    <2> QED BY <2>1, <1>20
  <1> QED BY <1>14, <1>19, <1>21, <1>22 DEF A!Recommend

LEMMA ArchiveSteps ==
    ASSUME TemplatesInv, lists' = T!Lists', NEW t \in Templates, T!Archive(t)
    PROVE  RowsInv(tasks', status') /\ A!Archive(t)
  <1>1. /\ status[t] = "live" /\ status' = [status EXCEPT ![t] = "archived"]
        /\ tasks' = T!Without(tasks, T!OfTemplate(tasks, t))
        /\ successor' = [u \in Templates |->
              IF u = t \/ successor[u] = t THEN NoTemplate ELSE successor[u]]
    BY DEF T!Archive, T!Live
  <1>2. status \in [Templates -> {"unborn", "live", "archived"}]
    BY DEF TemplatesInv, T!TypeOK
  <1>3. RowsInv(tasks, status) /\ lists = [u \in Templates |-> ListIn(tasks, u)]
    BY InvLists
  <1>4. \A u \in Templates \ {t} : status'[u] = status[u]
    BY <1>1, <1>2
  <1>5. /\ RowsInv(tasks', status') /\ T!OfTemplate(tasks', t) = {}
        /\ \A u \in Templates \ {t} : ListIn(tasks', u) = ListIn(tasks, u)
    <2> DEFINE W == T!Without(tasks, T!OfTemplate(tasks, t))
               new == status'
    <2>1. \A u \in Templates \ {t} : new[u] = status[u]
      BY <1>4
    <2> HIDE DEF new
    <2>2. /\ RowsInv(W, new) /\ T!OfTemplate(W, t) = {}
          /\ \A u \in Templates \ {t} : ListIn(W, u) = ListIn(tasks, u)
      BY <1>3, <2>1, TemplateCleared
    <2>3. tasks' = W
      BY <1>1
    <2> HIDE DEF W
    <2> QED BY <2>2, <2>3 DEF new
  <1>6. ListIn(tasks', t) = <<>>
    BY <1>5, RowsInvFacts, EmptyList
  <1>7. lists' = [lists EXCEPT ![t] = <<>>]
    BY <1>3, <1>5, <1>6, OneListChanges
  <1> QED BY <1>1, <1>5, <1>7 DEF A!Archive

LEMMA ResetSteps ==
    ASSUME TemplatesInv, lists' = T!Lists', NEW t \in Templates, T!Reset(t)
    PROVE  RowsInv(tasks', status') /\ A!Reset(t)
  <1> DEFINE present == {tasks[i].key : i \in T!OfTemplate(tasks, t)}
             W == T!Without(tasks, T!OfTemplate(tasks, t))
             news == T!DefaultTasks(t, present)
             E == {t}
  <1>1. /\ status[t] = "live" /\ t \in T!Recommended /\ status' = status
        /\ tasks' \in T!Inserted(W, news)
        /\ successor' = [successor EXCEPT ![t] =
              IF Successors[t] \in Templates /\ status[Successors[t]] = "live"
              THEN Successors[t] ELSE NoTemplate]
    BY DEF T!Reset, T!Live
  <1>2. /\ status \in [Templates -> {"unborn", "live", "archived"}]
        /\ successor \in [Templates -> Templates \cup {NoTemplate}]
    BY DEF TemplatesInv, T!TypeOK
  <1>3. RowsInv(tasks, status) /\ lists = [u \in Templates |-> ListIn(tasks, u)]
    BY InvLists
  <1>4. /\ RowsInv(W, status) /\ T!OfTemplate(W, t) = {}
        /\ \A u \in Templates \ {t} : ListIn(W, u) = ListIn(tasks, u)
    BY <1>3, TemplateCleared
  <1>5. AreDefaults(news, E)
    BY DefaultTasksAre
  <1>6. E \in SUBSET Templates /\ \A u \in E : T!OfTemplate(W, u) = {} /\ status[u] = "live"
    BY <1>1, <1>4
  <1> HIDE DEF W, news
  <1>7. /\ RowsInv(tasks', status)
        /\ \A u \in Templates \ E : ListIn(tasks', u) = ListIn(W, u)
        /\ \A u \in E : \A i \in T!OfTemplate(tasks', u) : tasks'[i] \in news
    <2>1. \A u \in Templates : status[u] = "live" => status[u] = "live"
      OBVIOUS
    <2> HIDE DEF E
    <2> QED BY <2>1, <1>1, <1>4, <1>5, <1>6, DefaultsAdded
  <1>8. IsRows(tasks') /\ SoundAt(tasks', t)
    BY <1>7, RowsInvFacts
  <1>9. \A i \in T!OfTemplate(tasks', t) :
           /\ tasks'[i].order \in DOMAIN Defaults[t]
           /\ tasks'[i].key = Defaults[t][tasks'[i].order]
    <2> TAKE i \in T!OfTemplate(tasks', t)
    <2>1. tasks'[i] \in news /\ tasks'[i].at = t
      BY <1>7 DEF T!OfTemplate
    <2> QED BY <2>1, <1>5 DEF AreDefaults
  <1>10. \E f \in A!Increasing(DOMAIN ListIn(tasks', t), DOMAIN Defaults[t]) :
            \A n \in DOMAIN ListIn(tasks', t) : ListIn(tasks', t)[n].key = Defaults[t][f[n]]
    BY <1>8, <1>9, SomeDefaultsList
  <1>11. lists' = [u \in Templates |-> ListIn(tasks', u)]
    BY ListsAreListIn
  <1>12. \A u \in Templates \ {t} : successor'[u] = successor[u] /\ lists'[u] = lists[u]
    BY <1>1, <1>2, <1>3, <1>4, <1>7, <1>11
  <1>13. successor'[t] = NoTemplate \/ status[successor'[t]] = "live"
    BY <1>1, <1>2
  <1>14. Defaults[t] # <<>>
    BY <1>1, DefaultsFacts
  <1>15. lists'[t] = ListIn(tasks', t)
    BY <1>11
  <1> QED BY <1>1, <1>7, <1>10, <1>12, <1>13, <1>14, <1>15 DEF A!Reset

LEMMA CreateTaskSteps ==
    ASSUME TemplatesInv, lists' = T!Lists', NEW t \in Templates, T!CreateTask(t)
    PROVE  RowsInv(tasks', status') /\ A!Put(t)
  <1>1. /\ status[t] = "live" /\ UNCHANGED <<status, successor>>
        /\ tasks' \in T!Inserted(tasks, {[at |-> t, order |-> T!MaxOrder(tasks, t) + 1, key |-> NoKey]})
    BY DEF T!CreateTask, T!Live
  <1>2. RowsInv(tasks, status)
    BY InvLists
  <1>3. /\ RowsInv(tasks', status)
        /\ \E i \in T!Ids \ DOMAIN tasks :
              /\ DOMAIN tasks' = DOMAIN tasks \cup {i} /\ tasks'[i].at = t /\ tasks'[i].key = NoKey
              /\ SameBut(tasks, tasks', i)
    BY <1>1, <1>2, CreateTaskRows
  <1>4. A!Put(t)
    BY <1>1, <1>3, PutStep
  <1> QED BY <1>1, <1>3, <1>4

\* A task that is placed, and where it is.
LEMMA PlaceTaskFacts ==
    ASSUME TemplatesInv, NEW t \in Templates, NEW k \in Keys, NEW p \in Nat, T!PlaceTask(t, k, p)
    PROVE  /\ RowsInv(tasks', status') /\ status[t] = "live" /\ UNCHANGED <<status, successor>>
           /\ \A j \in DOMAIN tasks : k # NoKey => tasks[j].key # k
           /\ \E i \in T!Ids \ DOMAIN tasks : IsPlaced(tasks, tasks', t, p, k, i)
  <1> DEFINE new == Placed(tasks, t, p, k)
  <1>1. /\ status[t] = "live" /\ UNCHANGED <<status, successor>>
        /\ T!KeyAvailable(k, {})
        /\ \E W \in T!Inserted(T!Shifted(tasks, t, p), {new}) : tasks' = T!Renumbered(W, {t})
    BY DEF T!PlaceTask, T!Live, Placed
  <1>2. RowsInv(tasks, status)
    BY InvLists
  <1>3. PICK W \in T!Inserted(T!Shifted(tasks, t, p), {new}) : tasks' = T!Renumbered(W, {t})
    BY <1>1
  <1>4. \A j \in DOMAIN tasks : k # NoKey => tasks[j].key # k
    BY <1>1, KeyIsFree
  <1>5. /\ RowsInv(tasks', status)
        /\ \E i \in T!Ids \ DOMAIN tasks : IsPlaced(tasks, tasks', t, p, k, i)
    <2>1. status[t] = "live" /\ k \in Keys /\ t \in Templates /\ p \in Nat
      BY <1>1
    <2> DEFINE Q == tasks'
    <2> HIDE DEF Q
    <2>2. Q = T!Renumbered(W, {t})
      BY <1>3 DEF Q
    <2>3. W \in T!Inserted(T!Shifted(tasks, t, p), {new})
      BY <1>3
    <2>4. RowsInv(Q, status) /\ \E i \in T!Ids \ DOMAIN tasks : IsPlaced(tasks, Q, t, p, k, i)
      BY <2>1, <2>2, <2>3, <1>2, <1>4, PlaceTaskRows
    <2> QED BY <2>4 DEF Q
  <1> QED BY <1>1, <1>4, <1>5

LEMMA PlaceTaskSteps ==
    ASSUME TemplatesInv, lists' = T!Lists', NEW t \in Templates, NEW k \in Keys, NEW p \in Nat,
           T!PlaceTask(t, k, p)
    PROVE  RowsInv(tasks', status') /\ A!Put(t)
  <1>1. /\ RowsInv(tasks', status') /\ status[t] = "live" /\ UNCHANGED <<status, successor>>
        /\ \A j \in DOMAIN tasks : k # NoKey => tasks[j].key # k
        /\ \E i \in T!Ids \ DOMAIN tasks : IsPlaced(tasks, tasks', t, p, k, i)
    BY PlaceTaskFacts
  <1>2. PICK i \in T!Ids \ DOMAIN tasks :
              /\ DOMAIN tasks' = DOMAIN tasks \cup {i} /\ tasks'[i].at = t /\ tasks'[i].key = k
              /\ SameBut(tasks, tasks', i)
    BY <1>1 DEF IsPlaced
  <1>3. A!Put(t)
    BY <1>1, <1>2, PutStep
  <1> QED BY <1>1, <1>3

LEMMA TransferFacts ==
    ASSUME TemplatesInv, NEW i \in DOMAIN tasks, NEW t \in Templates, NEW p \in Nat,
           T!Transfer(i, t, p)
    PROVE  /\ RowsInv(tasks', status') /\ status[t] = "live" /\ UNCHANGED <<status, successor>>
           /\ tasks[i].at # t /\ DOMAIN tasks' = DOMAIN tasks
           /\ tasks'[i].at = t /\ tasks'[i].key = tasks[i].key /\ SameBut(tasks, tasks', i)
           /\ tasks[i].key # NoKey => \A j \in DOMAIN tasks \ {i} : tasks[j].key # tasks[i].key
           /\ T!Numbered(t) /\ p \in 1 .. Cardinality(T!OfTemplate(tasks, t)) + 1
                 => T!Place(tasks', i) = p
  <1>1. /\ status[t] = "live" /\ UNCHANGED <<status, successor>> /\ t # tasks[i].at
        /\ T!KeyAvailable(tasks[i].key, {i})
        /\ tasks' = T!Renumbered(Relocated(tasks, i, t, p), {tasks[i].at, t})
    BY DEF T!Transfer, T!Live, Relocated
  <1>2. RowsInv(tasks, status)
    BY InvLists
  <1>3. tasks[i].key # NoKey => \A j \in DOMAIN tasks \ {i} : tasks[j].key # tasks[i].key
    BY <1>1, KeyIsFree
  <1>4. /\ RowsInv(tasks', status) /\ DOMAIN tasks' = DOMAIN tasks
        /\ tasks'[i].at = t /\ tasks'[i].key = tasks[i].key /\ SameBut(tasks, tasks', i)
        /\ T!Numbered(t) /\ p \in 1 .. Cardinality(T!OfTemplate(tasks, t)) + 1
              => T!Place(tasks', i) = p
    BY <1>1, <1>2, <1>3, TransferRows
  <1> QED BY <1>1, <1>3, <1>4

LEMMA TransferSteps ==
    ASSUME TemplatesInv, lists' = T!Lists', NEW i \in DOMAIN tasks, NEW t \in Templates,
           NEW p \in Nat, T!Transfer(i, t, p)
    PROVE  /\ RowsInv(tasks', status') /\ tasks[i].at \in Templates
           /\ A!Transfer(tasks[i].at, t)
  <1>1. /\ RowsInv(tasks', status') /\ status[t] = "live" /\ UNCHANGED <<status, successor>>
        /\ tasks[i].at # t /\ DOMAIN tasks' = DOMAIN tasks
        /\ tasks'[i].at = t /\ tasks'[i].key = tasks[i].key /\ SameBut(tasks, tasks', i)
        /\ tasks[i].key # NoKey => \A j \in DOMAIN tasks \ {i} : tasks[j].key # tasks[i].key
    BY TransferFacts
  <1>2. A!Transfer(tasks[i].at, t)
    BY <1>1, TransferStep
  <1> QED BY <1>1, <1>2, InvLists

LEMMA SetOrderSteps ==
    ASSUME TemplatesInv, lists' = T!Lists', NEW i \in DOMAIN tasks, NEW p, T!SetOrder(i, p)
    PROVE  /\ RowsInv(tasks', status') /\ tasks[i].at \in Templates
           /\ A!Move(tasks[i].at)
  <1>1. /\ p \in 1 .. Len(T!Ordered(tasks, tasks[i].at)) /\ UNCHANGED <<status, successor>>
        /\ tasks' = Reordered(tasks, i, p)
    BY DEF T!SetOrder, Reordered, NumberIn, Rearranged
  <1>2. RowsInv(tasks, status) /\ tasks[i].at \in Templates
    BY InvLists
  <1>3. /\ RowsInv(tasks', status) /\ DOMAIN tasks' = DOMAIN tasks
        /\ tasks'[i].at = tasks[i].at /\ tasks'[i].key = tasks[i].key /\ SameBut(tasks, tasks', i)
    BY <1>1, <1>2, SetOrderRows
  <1>4. A!Move(tasks[i].at)
    BY <1>1, <1>3, MoveStep
  <1> QED BY <1>1, <1>2, <1>3, <1>4

LEMMA MoveTaskSteps ==
    ASSUME TemplatesInv, lists' = T!Lists', NEW i \in DOMAIN tasks, NEW step \in {1, -1},
           T!MoveTask(i, step)
    PROVE  /\ RowsInv(tasks', status') /\ tasks[i].at \in Templates
           /\ A!Move(tasks[i].at)
  <1> DEFINE t == tasks[i].at
             s == T!Ordered(tasks, t)
             place == T!Place(tasks, i) + step
             j == s[place]
  <1>1. /\ place \in 1 .. Len(s) /\ UNCHANGED <<status, successor>>
        /\ tasks' = Exchanged(tasks, i, j)
    BY DEF T!MoveTask, Exchanged
  <1>2. RowsInv(tasks, status) /\ IsRows(tasks) /\ tasks[i].at \in Templates
    BY InvLists
  <1>3. InOrder(tasks, t, s)
    BY <1>2, OrderedInOrder
  <1>4. T!Place(tasks, j) = place
    BY <1>1, <1>2, <1>3, InOrderIsOrdered
  <1>5. j \in T!OfTemplate(tasks, t)
    <2> DEFINE O == T!OfTemplate(tasks, t)
    <2>1. s \in Seq(O)
      BY <1>3 DEF InOrder
    <2>2. place \in 1 .. Len(s)
      BY <1>1
    <2> HIDE DEF s, O, place
    <2>3. s[place] \in O
      BY <2>1, <2>2
    <2> QED BY <2>3 DEF O
  <1>6. j \in DOMAIN tasks /\ tasks[j].at = tasks[i].at
    BY <1>5 DEF T!OfTemplate
  <1>7. T!Place(tasks, i) \in Nat
    BY <1>2, PlaceInRange
  <1>8. place = T!Place(tasks, i) + 1 \/ place = T!Place(tasks, i) - 1
    BY <1>7
  <1> HIDE DEF s, place, j
  <1>9. /\ RowsInv(tasks', status) /\ DOMAIN tasks' = DOMAIN tasks
        /\ tasks'[i].at = tasks[i].at /\ tasks'[i].key = tasks[i].key /\ SameBut(tasks, tasks', i)
    BY <1>1, <1>2, <1>4, <1>6, <1>8, MoveTaskRows
  <1>10. A!Move(tasks[i].at)
    BY <1>1, <1>9, MoveStep
  <1> QED BY <1>1, <1>2, <1>9, <1>10

LEMMA DeleteTaskSteps ==
    ASSUME TemplatesInv, lists' = T!Lists', NEW i \in DOMAIN tasks, T!DeleteTask(i)
    PROVE  /\ RowsInv(tasks', status') /\ tasks[i].at \in Templates
           /\ A!Drop(tasks[i].at)
  <1> DEFINE gone == {i}
  <1>1. /\ UNCHANGED <<status, successor>>
        /\ tasks' = T!Renumbered(T!Without(tasks, gone), {tasks[j].at : j \in gone})
    <2>1. {tasks[j].at : j \in gone} = {tasks[i].at}
      OBVIOUS
    <2> QED BY <2>1 DEF T!DeleteTask
  <1>2. RowsInv(tasks, status) /\ tasks[i].at \in Templates
    BY InvLists
  <1>3. gone \in SUBSET DOMAIN tasks /\ i \in gone /\ gone = {i}
    OBVIOUS
  <1> HIDE DEF gone
  <1>4. /\ RowsInv(tasks', status) /\ DOMAIN tasks' = DOMAIN tasks \ gone
        /\ SameBut(tasks, tasks', i)
    BY <1>1, <1>2, <1>3, DroppedRows
  <1>5. A!Drop(tasks[i].at)
    BY <1>1, <1>3, <1>4, DropStep
  <1> QED BY <1>1, <1>2, <1>4, <1>5

LEMMA NothingDropped ==
    ASSUME NEW R, NEW st, RowsInv(R, st)
    PROVE  T!Renumbered(T!Without(R, {}), {}) = R
  <1> DEFINE D == DOMAIN R
  <1>1. R = [i \in D |-> R[i]]
    BY DEF RowsInv
  <1>2. T!Without(R, {}) = [i \in D |-> R[i]]
    <2>1. D \ {} = D
      OBVIOUS
    <2> QED BY <2>1 DEF T!Without, T!Restrict
  <1>3. T!Renumbered(R, {}) = [i \in D |-> R[i]]
    BY DEF T!Renumbered
  <1> QED BY <1>1, <1>2, <1>3

LEMMA DeleteDefinitionSteps ==
    ASSUME TemplatesInv, lists' = T!Lists', NEW k, T!DeleteDefinition(k)
    PROVE  /\ RowsInv(tasks', status')
           /\ UNCHANGED A!vars \/ \E t \in Templates : A!Drop(t)
  <1> DEFINE placed == {i \in DOMAIN tasks : tasks[i].key = k /\ T!Live(tasks[i].at)}
  <1>1. /\ UNCHANGED <<status, successor>> /\ T!Cardinality(placed) <= 1
        /\ tasks' = T!Renumbered(T!Without(tasks, placed), {tasks[j].at : j \in placed})
    BY DEF T!DeleteDefinition
  <1>2. /\ RowsInv(tasks, status) /\ IsRows(tasks)
        /\ \A i \in DOMAIN tasks : tasks[i].at \in Templates
    BY InvLists
  <1>3. placed \in SUBSET DOMAIN tasks
    OBVIOUS
  <1> HIDE DEF placed
  <1>4. IsFiniteSet(placed) /\ Cardinality(placed) <= 1
    BY <1>1, <1>2, <1>3, SameCardinality, FS_Subset DEF IsRows
  <1>5. \A i, j \in placed : i = j
    <2> TAKE i, j \in placed
    <2>1. IsFiniteSet(placed \ {i}) /\ Cardinality(placed \ {i}) = Cardinality(placed) - 1
      BY <1>4, FS_RemoveElement
    <2>2. Cardinality(placed \ {i}) \in Nat /\ Cardinality(placed) \in Nat
      BY <2>1, <1>4, FS_CardinalityType
    <2>3. Cardinality(placed \ {i}) = 0
      BY <2>1, <2>2, <1>4
    <2>4. placed \ {i} = {}
      BY <2>1, <2>3, FS_EmptySet
    <2> QED BY <2>4
  <1>6. CASE placed = {}
    <2>1. {tasks[j].at : j \in placed} = {}
      BY <1>6
    <2>2. tasks' = tasks
      BY <1>1, <1>2, <1>6, <2>1, NothingDropped
    <2>3. lists' = lists
      BY <2>2, InvLists, ListsAreListIn
    <2> QED BY <1>1, <1>2, <2>2, <2>3 DEF A!vars
  <1>7. CASE placed # {}
    <2>1. PICK i \in placed : placed = {i}
      BY <1>5, <1>7
    <2>2. /\ RowsInv(tasks', status) /\ DOMAIN tasks' = DOMAIN tasks \ placed
          /\ SameBut(tasks, tasks', i)
      BY <1>1, <1>2, <1>3, <2>1, DroppedRows
    <2>3. i \in DOMAIN tasks /\ i \notin DOMAIN tasks'
      BY <1>3, <2>1, <2>2
    <2>4. A!Drop(tasks[i].at)
      BY <1>1, <2>2, <2>3, DropStep
    <2> QED BY <1>1, <1>2, <2>2, <2>3, <2>4
  <1> QED BY <1>6, <1>7

-----------------------------------------------------------------------------
(* Every step of the templates *)

LEMMA RowsAreTasks ==
    ASSUME NEW R, NEW st, RowsInv(R, st)
    PROVE  DOMAIN R \subseteq T!Ids /\ R \in [DOMAIN R -> T!Task]
  <1>1. /\ IsRows(R) /\ DOMAIN R \subseteq T!Ids /\ R \in [DOMAIN R -> NumberedRow]
        /\ \A t \in Templates : SoundAt(R, t)
    BY RowsInvFacts
  <1>2. ASSUME NEW i \in DOMAIN R PROVE R[i] \in T!Task
    <2> DEFINE t == R[i].at
               O == T!OfTemplate(R, t)
    <2>1. R[i] \in NumberedRow /\ t \in Templates /\ R[i].key \in Keys /\ i \in O
      BY <1>1, RowFacts DEF T!OfTemplate
    <2>2. NumbersRight(R, t)
      BY <1>1, <2>1 DEF SoundAt
    <2>3. R[i].order \in 1 .. NTasks + Cardinality(O)
      BY <2>1, <2>2 DEF NumbersRight
    <2>4. O \subseteq T!Ids
      BY <1>1 DEF T!OfTemplate
    <2>5. Cardinality(O) <= NTasks /\ Cardinality(O) \in Nat /\ NTasks \in Nat
      BY <1>1, <2>4, IdsAreFinite, FS_Subset, OfTemplateFinite, RoomAssumption
    <2> HIDE DEF O
    <2>6. R[i].order \in 1 .. 2 * NTasks
      BY <2>3, <2>5
    <2> QED BY <2>1, <2>6 DEF NumberedRow, Keys, T!Task
  <1> QED BY <1>1, <1>2

\* What a handler leaves: the rows, and a step of the lists or none.
TemplatesStep ==
    /\ RowsInv(tasks', status')
    /\ A!Next \/ UNCHANGED A!vars

\* What is not a row keeps its type.
LEMMA OthersAreTyped ==
    ASSUME T!TypeOK, T!Next
    PROVE  /\ status' \in [Templates -> {"unborn", "live", "archived"}]
           /\ custom' \in [CustomKeys -> {"unborn", "kept", "deleted"}]
           /\ successor' \in [Templates -> Templates \cup {NoTemplate}]
  <1>1. /\ status \in [Templates -> {"unborn", "live", "archived"}]
        /\ custom \in [CustomKeys -> {"unborn", "kept", "deleted"}]
        /\ successor \in [Templates -> Templates \cup {NoTemplate}]
    BY DEF T!TypeOK
  <1>2. CASE T!Seed
    <2>1. T!Recommended \subseteq Templates
      BY DEF T!Recommended
    <2>2. \A t \in Templates :
             /\ status'[t] = "live" \/ status'[t] = status[t]
             /\ successor'[t] \in T!Recommended \/ successor'[t] = successor[t]
      BY <1>2 DEF T!Seed
    <2>3. custom' = custom /\ status' = [t \in Templates |-> status'[t]]
           /\ successor' = [t \in Templates |-> successor'[t]]
      BY <1>2 DEF T!Seed
    <2>4. \A t \in Templates : status'[t] \in {"unborn", "live", "archived"}
                               /\ successor'[t] \in Templates \cup {NoTemplate}
      BY <1>1, <2>1, <2>2
    <2> QED BY <1>1, <2>3, <2>4
  <1>3. ASSUME NEW t \in Templates, T!CreateTemplate(t) \/ T!Archive(t) \/ T!Reset(t)
        PROVE  /\ status' \in [Templates -> {"unborn", "live", "archived"}]
               /\ custom' = custom
               /\ successor' \in [Templates -> Templates \cup {NoTemplate}]
    BY <1>1, <1>3 DEF T!CreateTemplate, T!Archive, T!Reset
  <1>4. CASE UNCHANGED <<status, custom, successor>>
    BY <1>1, <1>4
  <1>5. ASSUME NEW t \in Templates, T!CreateTask(t) PROVE UNCHANGED <<status, custom, successor>>
    BY <1>5 DEF T!CreateTask
  <1>6. ASSUME NEW t \in Templates, NEW k, NEW p, T!PlaceTask(t, k, p)
        PROVE  UNCHANGED <<status, custom, successor>>
    BY <1>6 DEF T!PlaceTask
  <1>7. ASSUME NEW t \in Templates, NEW i, NEW p, T!Transfer(i, t, p)
        PROVE  UNCHANGED <<status, custom, successor>>
    BY <1>7 DEF T!Transfer
  <1>8. ASSUME NEW i, NEW p, T!SetOrder(i, p) PROVE UNCHANGED <<status, custom, successor>>
    BY <1>8 DEF T!SetOrder
  <1>9. ASSUME NEW i, T!MoveTask(i, 1) \/ T!MoveTask(i, -1) \/ T!DeleteTask(i)
        PROVE  UNCHANGED <<status, custom, successor>>
    BY <1>9 DEF T!MoveTask, T!DeleteTask
  <1>10. ASSUME NEW k \in CustomKeys, T!Define(k) \/ T!DeleteDefinition(k)
         PROVE  /\ status' = status /\ successor' = successor
                /\ custom' \in [CustomKeys -> {"unborn", "kept", "deleted"}]
    BY <1>1, <1>10 DEF T!Define, T!DeleteDefinition
  <1> QED BY <1>1, <1>2, <1>3, <1>4, <1>5, <1>6, <1>7, <1>8, <1>9, <1>10 DEF T!Next

LEMMA TemplatesSteps ==
    ASSUME TemplatesInv, T!Next, lists' = T!Lists'
    PROVE  TemplatesStep
  <1>1. CASE T!Seed
    BY <1>1, SeedSteps DEF TemplatesStep, A!Next
  <1>2. ASSUME NEW t \in Templates,
               T!CreateTemplate(t) \/ T!Archive(t) \/ T!Reset(t) \/ T!CreateTask(t)
        PROVE  TemplatesStep
    BY <1>2, CreateTemplateSteps, ArchiveSteps, ResetSteps, CreateTaskSteps
       DEF TemplatesStep, A!Next
  <1>3. ASSUME NEW t \in Templates, NEW k \in T!Catalog \cup CustomKeys, NEW p \in T!Positions(t),
               T!PlaceTask(t, k, p)
        PROVE  TemplatesStep
    <2>1. k \in Keys
      BY DEF Keys
    <2>2. p \in Nat
      <3>1. Cardinality(T!OfTemplate(tasks, t)) \in Nat
        BY InvLists, OfTemplateFinite
      <3> QED BY <3>1, SameCardinality DEF T!Positions
    <2>3. RowsInv(tasks', status') /\ A!Put(t)
      BY <1>3, <2>1, <2>2, PlaceTaskSteps
    <2> QED BY <2>3 DEF TemplatesStep, A!Next
  <1>4. ASSUME NEW t \in Templates, NEW i \in DOMAIN tasks, NEW p \in T!Positions(t),
               T!Transfer(i, t, p)
        PROVE  TemplatesStep
    <2>1. p \in Nat
      <3>1. Cardinality(T!OfTemplate(tasks, t)) \in Nat
        BY InvLists, OfTemplateFinite
      <3> QED BY <3>1, SameCardinality DEF T!Positions
    <2>2. /\ RowsInv(tasks', status') /\ tasks[i].at \in Templates
          /\ A!Transfer(tasks[i].at, t)
      BY <1>4, <2>1, TransferSteps
    <2> QED BY <2>2 DEF TemplatesStep, A!Next
  <1>5. ASSUME NEW i \in DOMAIN tasks, NEW p, T!SetOrder(i, p) PROVE TemplatesStep
    <2>1. RowsInv(tasks', status') /\ tasks[i].at \in Templates /\ A!Move(tasks[i].at)
      BY <1>5, SetOrderSteps
    <2> QED BY <2>1 DEF TemplatesStep, A!Next
  <1>6. ASSUME NEW i \in DOMAIN tasks, NEW step \in {1, -1}, T!MoveTask(i, step)
        PROVE  TemplatesStep
    <2>1. RowsInv(tasks', status') /\ tasks[i].at \in Templates /\ A!Move(tasks[i].at)
      BY <1>6, MoveTaskSteps
    <2> QED BY <2>1 DEF TemplatesStep, A!Next
  <1>7. ASSUME NEW i \in DOMAIN tasks, T!DeleteTask(i) PROVE TemplatesStep
    <2>1. RowsInv(tasks', status') /\ tasks[i].at \in Templates /\ A!Drop(tasks[i].at)
      BY <1>7, DeleteTaskSteps
    <2> QED BY <2>1 DEF TemplatesStep, A!Next
  <1>8. ASSUME NEW k \in CustomKeys, T!Define(k) PROVE TemplatesStep
    <2>1. UNCHANGED <<status, tasks, successor>>
      BY <1>8 DEF T!Define
    <2>2. lists' = lists /\ RowsInv(tasks, status)
      BY <2>1, InvLists, ListsAreListIn
    <2> QED BY <2>1, <2>2 DEF TemplatesStep, A!vars
  <1>9. ASSUME NEW k \in CustomKeys, T!DeleteDefinition(k) PROVE TemplatesStep
    BY <1>9, DeleteDefinitionSteps DEF TemplatesStep, A!Next
  <1> QED BY <1>1, <1>2, <1>3, <1>4, <1>5, <1>6, <1>7, <1>8, <1>9 DEF T!Next

LEMMA TemplatesStart ==
    ASSUME T!Init, lists = T!Lists
    PROVE  TemplatesInv
  <1>1. /\ status = [t \in Templates |-> "unborn"] /\ tasks = <<>>
        /\ custom = [k \in CustomKeys |-> "unborn"]
        /\ successor = [t \in Templates |-> NoTemplate]
    BY DEF T!Init
  <1>2. DOMAIN tasks = {} /\ tasks \in [{} -> NumberedRow]
    BY <1>1
  <1>3. \A t \in Templates : T!OfTemplate(tasks, t) = {}
    BY <1>2 DEF T!OfTemplate
  <1>4. RowsInv(tasks, status)
    BY <1>2, <1>3 DEF RowsInv, SoundAt, NumbersRight, KeysApart
  <1>5. T!TypeOK
    <2>1. DOMAIN tasks \subseteq T!Ids /\ tasks \in [DOMAIN tasks -> T!Task]
      BY <1>4, RowsAreTasks
    <2> QED BY <1>1, <2>1 DEF T!TypeOK
  <1> QED BY <1>4, <1>5 DEF TemplatesInv

LEMMA TemplatesStay ==
    ASSUME TemplatesInv, T!Next, lists' = T!Lists'
    PROVE  TemplatesInv'
  <1>1. RowsInv(tasks', status')
    BY TemplatesSteps DEF TemplatesStep
  <1>2. DOMAIN tasks' \subseteq T!Ids /\ tasks' \in [DOMAIN tasks' -> T!Task]
    BY <1>1, RowsAreTasks
  <1>3. T!TypeOK
    BY DEF TemplatesInv
  <1>4. T!TypeOK'
    BY <1>2, <1>3, OthersAreTyped DEF T!TypeOK
  <1>5. RowsInv(tasks, status)'
    BY <1>1 DEF RowsInv, SoundAt, NumbersRight, KeysApart
  <1> QED BY <1>4, <1>5 DEF TemplatesInv

LEMMA AskedPlaces ==
    ASSUME TemplatesInv, RowsInv(tasks', status')
    PROVE  T!PlacedWhereAsked
  <1> SUFFICES ASSUME NEW i \in DOMAIN tasks', T!Numbered(tasks'[i].at),
                      NEW p \in 1 .. T!Cardinality(T!OfTemplate(tasks, tasks'[i].at)) + 1,
                      IF i \in DOMAIN tasks THEN T!Transfer(i, tasks'[i].at, p)
                      ELSE T!PlaceTask(tasks'[i].at, tasks'[i].key, p)
               PROVE  T!Place(tasks', i) = p
    BY DEF T!PlacedWhereAsked
  <1> DEFINE t == tasks'[i].at
             k == tasks'[i].key
  <1>1. IsRows(tasks)
    BY InvLists
  <1>2. t \in Templates /\ k \in Keys
    BY RowsInvFacts, RowFacts
  <1>3. Cardinality(T!OfTemplate(tasks, t)) \in Nat
    BY <1>1, OfTemplateFinite
  <1>4. p \in 1 .. Cardinality(T!OfTemplate(tasks, t)) + 1 /\ p \in Nat
    BY <1>3, SameCardinality
  <1> HIDE DEF t, k
  <1>5. CASE i \in DOMAIN tasks
    <2>1. T!Transfer(i, t, p) /\ T!Numbered(t)
      BY <1>5 DEF t
    <2> QED BY <2>1, <1>2, <1>4, <1>5, TransferFacts
  <1>6. CASE i \notin DOMAIN tasks
    <2>1. T!PlaceTask(t, k, p) /\ T!Numbered(t)
      BY <1>6 DEF t, k
    <2>2. PICK j \in T!Ids \ DOMAIN tasks : IsPlaced(tasks, tasks', t, p, k, j)
      BY <2>1, <1>2, <1>4, PlaceTaskFacts
    <2>3. DOMAIN tasks' = DOMAIN tasks \cup {j} /\ T!Place(tasks', j) = p
      BY <2>1, <2>2, <1>4 DEF IsPlaced
    <2>4. i = j
      BY <2>3, <1>6
    <2> QED BY <2>3, <2>4
  <1> QED BY <1>5, <1>6
=============================================================================
