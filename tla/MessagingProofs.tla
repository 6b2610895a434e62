---------------------------- MODULE MessagingProofs ----------------------------
(***************************************************************************)
(* Messages, timelines and the mirror, for every set of processes and      *)
(* sessions, every export and every number of failed writes.               *)
(***************************************************************************)
EXTENDS Telemetry, SelectionProofs, FiniteSetTheorems, FunctionTheorems

-----------------------------------------------------------------------------
(***************************************************************************)
(* The mirror's upsert.                                                    *)
(***************************************************************************)
Same(x, y, key) == \A column \in key : x[column] = y[column]

\* No new row has the key of a row of the table; the n-th is the one with row's key.
Apart(table, new, key)  == \A i \in 1 .. Len(table), j \in 1 .. Len(new) : ~Same(new[j], table[i], key)
Only(table, n, row, key) == \A i \in 1 .. Len(table) : Same(row, table[i], key) <=> i = n

\* An upsert keeps every row in its place, or puts a new one of the same key there,
\* and appends new rows of keys that were not there.
LEMMA UpsertRows ==
  ASSUME NEW S, NEW table \in Seq(S), NEW new \in Seq(S), NEW key
  PROVE  /\ Upsert(table, new, key) \in Seq(S)
         /\ Len(Upsert(table, new, key)) \in Nat /\ Len(Upsert(table, new, key)) >= Len(table)
         /\ \A i \in 1 .. Len(table) :
              \/ /\ Upsert(table, new, key)[i] = table[i]
                 /\ \A j \in 1 .. Len(new) : ~Same(new[j], table[i], key)
              \/ \E j \in 1 .. Len(new) :
                   Same(new[j], table[i], key) /\ Upsert(table, new, key)[i] = new[j]
         /\ \A i \in 1 .. Len(Upsert(table, new, key)) :
              i > Len(table) =>
                \E j \in 1 .. Len(new) :
                  /\ Upsert(table, new, key)[i] = new[j]
                  /\ \A k \in 1 .. Len(table) : ~Same(new[j], table[k], key)
<1> DEFINE R(i)  == {j \in DOMAIN new : Same(new[j], table[i], key)}
           New   == {x \in ToSet(new) : \A i \in DOMAIN table : ~Same(x, table[i], key)}
           place == [i \in DOMAIN table |->
                       IF R(i) = {} THEN table[i] ELSE new[CHOOSE j \in R(i) : TRUE]]
           kept  == Keep(new, New)
           u     == Upsert(table, new, key)
<1>1. u = place \o kept
  BY DEF Upsert, Same
<1>2. /\ Len(table) \in Nat /\ DOMAIN table = 1 .. Len(table) /\ table \in [1 .. Len(table) -> S]
      /\ Len(new) \in Nat /\ DOMAIN new = 1 .. Len(new) /\ new \in [1 .. Len(new) -> S]
  BY LenProperties
<1>3. \A i \in 1 .. Len(table) :
        \/ /\ place[i] = table[i]
           /\ \A j \in 1 .. Len(new) : ~Same(new[j], table[i], key)
        \/ \E j \in 1 .. Len(new) : Same(new[j], table[i], key) /\ place[i] = new[j]
  <2> TAKE i \in 1 .. Len(table)
  <2>1. CASE R(i) = {}
    BY <1>2, <2>1
  <2>2. CASE R(i) # {}
    <3>1. PICK j \in R(i) : j = CHOOSE k \in R(i) : TRUE
      BY <2>2
    <3>2. place[i] = new[j] /\ j \in 1 .. Len(new) /\ Same(new[j], table[i], key)
      BY <1>2, <2>2, <3>1
    <3> QED BY <3>2
  <2> QED BY <2>1, <2>2
<1>4. place \in [1 .. Len(table) -> S]
  <2>1. place = [i \in 1 .. Len(table) |-> place[i]]
    BY <1>2
  <2>2. ASSUME NEW i \in 1 .. Len(table) PROVE place[i] \in S
    <3> HIDE DEF place
    <3> QED BY <1>2, <1>3
  <2> HIDE DEF place
  <2> QED BY <2>1, <2>2
<1> HIDE DEF place, u
<1>5. place \in Seq(S) /\ Len(place) = Len(table)
  BY <1>2, <1>4
<1>6. kept \in Seq(S \cap New)
  BY KeepType
<1>7. kept \in Seq(S) /\ Len(kept) \in Nat
  BY <1>6, KeepSeq, LenProperties
<1>8. /\ u \in Seq(S) /\ Len(u) = Len(table) + Len(kept)
      /\ \A i \in 1 .. Len(place) + Len(kept) :
           u[i] = IF i <= Len(place) THEN place[i] ELSE kept[i - Len(place)]
  <2> HIDE DEF kept
  <2> QED BY <1>1, <1>5, <1>7, ConcatProperties
<1> HIDE DEF kept
<1>9. \A i \in 1 .. Len(table) : u[i] = place[i]
  BY <1>2, <1>5, <1>7, <1>8
<1>10. ASSUME NEW i \in 1 .. Len(u), i > Len(table)
       PROVE  \E j \in 1 .. Len(new) :
                u[i] = new[j] /\ \A k \in 1 .. Len(table) : ~Same(new[j], table[k], key)
  <2>1. i - Len(place) \in 1 .. Len(kept) /\ u[i] = kept[i - Len(place)]
    BY <1>2, <1>5, <1>7, <1>8, <1>10
  <2>2. kept[i - Len(place)] \in S \cap New
    <3> HIDE DEF New
    <3> QED BY <1>6, <2>1, ElementOfSeq
  <2>3. PICK j \in DOMAIN new : new[j] = u[i]
    BY <2>1, <2>2 DEF ToSet
  <2>4. \A k \in 1 .. Len(table) : ~Same(new[j], table[k], key)
    BY <1>2, <2>1, <2>2, <2>3
  <2> QED BY <1>2, <2>3, <2>4
<1>11. /\ u \in Seq(S) /\ Len(u) \in Nat /\ Len(u) >= Len(table)
  BY <1>2, <1>7, <1>8
<1>12. \A i \in 1 .. Len(table) :
         \/ /\ u[i] = table[i]
            /\ \A j \in 1 .. Len(new) : ~Same(new[j], table[i], key)
         \/ \E j \in 1 .. Len(new) : Same(new[j], table[i], key) /\ u[i] = new[j]
  BY <1>3, <1>9
<1>13. u = Upsert(table, new, key)
  BY DEF u
<1> HIDE DEF New, R
<1> QED BY <1>10, <1>11, <1>12, <1>13

\* Rows of keys that are not there are appended.
LEMMA UpsertFresh ==
  ASSUME NEW S, NEW table \in Seq(S), NEW new \in Seq(S), NEW key, Apart(table, new, key)
  PROVE  Upsert(table, new, key) = table \o new
<1> DEFINE R(i)  == {j \in DOMAIN new : Same(new[j], table[i], key)}
           New   == {x \in ToSet(new) : \A i \in DOMAIN table : ~Same(x, table[i], key)}
           place == [i \in DOMAIN table |->
                       IF R(i) = {} THEN table[i] ELSE new[CHOOSE j \in R(i) : TRUE]]
<1>1. Upsert(table, new, key) = place \o Keep(new, New)
  BY DEF Upsert, Same
<1>2. /\ Len(table) \in Nat /\ DOMAIN table = 1 .. Len(table) /\ table \in [1 .. Len(table) -> S]
      /\ Len(new) \in Nat /\ DOMAIN new = 1 .. Len(new) /\ new \in [1 .. Len(new) -> S]
  BY LenProperties
<1>3. \A i \in DOMAIN table : R(i) = {}
  BY <1>2 DEF Apart
<1>4. place = table
  <2>1. place = [i \in DOMAIN table |-> table[i]]
    <3> HIDE DEF R
    <3> QED BY <1>3
  <2> HIDE DEF place
  <2> QED BY <1>2, <2>1
<1>5. Keep(new, New) = new
  <2>1. ToSet(new) \subseteq New
    BY <1>2 DEF ToSet, Apart
  <2>2. new \in Seq(ToSet(new))
    BY <1>2 DEF ToSet
  <2> HIDE DEF New
  <2> QED BY <2>1, <2>2, KeepAll
<1> QED BY <1>1, <1>4, <1>5

\* A row that is there is replaced.
LEMMA UpsertReplaces ==
  ASSUME NEW S, NEW table \in Seq(S), NEW row \in S, NEW key, NEW n \in 1 .. Len(table),
         Only(table, n, row, key)
  PROVE  Upsert(table, <<row>>, key) = [table EXCEPT ![n] = row]
<1>1. <<row>> \in Seq(S) /\ Len(<<row>>) = 1 /\ <<row>>[1] = row
  OBVIOUS
<1>2. PICK new \in Seq(S) : new = <<row>>
  BY <1>1
<1> DEFINE R(i)  == {j \in DOMAIN new : Same(new[j], table[i], key)}
           New   == {x \in ToSet(new) : \A i \in DOMAIN table : ~Same(x, table[i], key)}
           place == [i \in DOMAIN table |->
                       IF R(i) = {} THEN table[i] ELSE new[CHOOSE j \in R(i) : TRUE]]
<1>3. Upsert(table, new, key) = place \o Keep(new, New)
  BY DEF Upsert, Same
<1>4. /\ Len(table) \in Nat /\ DOMAIN table = 1 .. Len(table) /\ table \in [1 .. Len(table) -> S]
      /\ DOMAIN new = {1} /\ new[1] = row
  BY <1>1, <1>2, LenProperties
<1>0. \A i \in DOMAIN table : Same(row, table[i], key) <=> i = n
  BY <1>4 DEF Only
<1>5. ASSUME NEW i \in DOMAIN table PROVE place[i] = IF i = n THEN row ELSE table[i]
  <2>1. CASE i = n
    <3>1. R(i) = {1}
      BY <1>0, <1>4, <2>1
    <3>2. \A j \in R(i) : j = 1
      BY <3>1
    <3>3. (CHOOSE j \in R(i) : TRUE) = 1
      BY <3>1, <3>2
    <3> QED BY <1>4, <2>1, <3>1, <3>3
  <2>2. CASE i # n
    <3>1. R(i) = {}
      BY <1>0, <1>4, <2>2
    <3> QED BY <2>2, <3>1
  <2> QED BY <2>1, <2>2
<1>6. place = [table EXCEPT ![n] = row]
  <2>1. place = [i \in DOMAIN table |-> place[i]]
    OBVIOUS
  <2> HIDE DEF place
  <2> QED BY <1>4, <1>5, <2>1
<1>7. Keep(new, New) = << >>
  <2>1. row \notin New
    BY <1>0, <1>4
  <2> HIDE DEF New
  <2> QED BY <1>2, <2>1, KeepOne
<1>8. place \in Seq(S)
  BY <1>4, <1>6, ExceptSeq
<1> HIDE DEF place
<1> QED BY <1>2, <1>3, <1>6, <1>7, <1>8, ConcatEmptySeq

-----------------------------------------------------------------------------
(***************************************************************************)
(* Counting in a sequence.                                                 *)
(***************************************************************************)
\* Some of the first n indices are finitely many.
LEMMA IndicesAreFinite ==
  ASSUME NEW n \in Nat, NEW A, \A i \in A : i \in 1 .. n
  PROVE  IsFiniteSet(A) /\ Cardinality(A) \in Nat
<1>1. IsFiniteSet(1 .. n) /\ A \in SUBSET (1 .. n)
  BY FS_Interval
<1> QED BY <1>1, FS_Subset, FS_CardinalityType

Shifted(n, B) == {n + i : i \in B}

\* Indices that are moved stay as many.
LEMMA ShiftedSize ==
  ASSUME NEW n \in Nat, NEW B, IsFiniteSet(B), B \subseteq Nat
  PROVE  IsFiniteSet(Shifted(n, B)) /\ Cardinality(Shifted(n, B)) = Cardinality(B)
<1> DEFINE C == Shifted(n, B)
           f == [i \in B |-> n + i]
<1>1. f \in Bijection(B, C)
  <2>1. f \in [B -> C] /\ \A a, b \in B : f[a] = f[b] => a = b
    BY DEF Shifted
  <2>2. \A t \in C : \E i \in B : f[i] = t
    BY DEF Shifted
  <2> HIDE DEF f, C
  <2> QED BY <2>1, <2>2, Fun_IsBij
<1>2. ExistsBijection(B, C)
  BY <1>1 DEF ExistsBijection
<1> HIDE DEF C
<1>3. IsFiniteSet(C) /\ Cardinality(C) = Cardinality(B)
  BY <1>2, FS_Bijection
<1> QED BY <1>3 DEF C

\* The number of events of a session: NextIdx, of a log.
Count(es, s) == Cardinality({i \in DOMAIN es : es[i].session = s})

\* A log has a number of events of a session.
LEMMA CountIsNat ==
  ASSUME NEW S, NEW es \in Seq(S), NEW s
  PROVE  Count(es, s) \in Nat
<1>1. DOMAIN es = 1 .. Len(es) /\ Len(es) \in Nat
  BY LenProperties
<1>2. IsFiniteSet(DOMAIN es) /\ {i \in DOMAIN es : es[i].session = s} \in SUBSET (DOMAIN es)
  BY <1>1, FS_Interval
<1> QED BY <1>2, FS_Subset, FS_CardinalityType DEF Count

\* The number of earlier occurrences of the j-th element.
Before(ss, j) == Cardinality({i \in 1 .. j - 1 : ss[i] = ss[j]})

\* So has what is before an element.
LEMMA BeforeIsNat ==
  ASSUME NEW ss, NEW j \in Nat
  PROVE  Before(ss, j) \in Nat
<1>1. IsFiniteSet(1 .. j - 1) /\ {i \in 1 .. j - 1 : ss[i] = ss[j]} \in SUBSET (1 .. j - 1)
  BY FS_Interval
<1> QED BY <1>1, FS_Subset, FS_CardinalityType DEF Before

\* When events are appended, a session has at least those it had, and up to
\* and with the j-th new one as many more as were before that one, and itself.
LEMMA CountConcat ==
  ASSUME NEW S, NEW es \in Seq(S), NEW new \in Seq(S)
  PROVE  /\ \A s : Count(es \o new, s) >= Count(es, s)
         /\ \A ss, j : j \in 1 .. Len(new) /\ (\A i \in 1 .. Len(new) : new[i].session = ss[i])
              => Count(es \o new, ss[j]) >= Count(es, ss[j]) + Before(ss, j) + 1
<1> DEFINE n == Len(es)
           all == es \o new
           Of(t, s) == {i \in DOMAIN t : t[i].session = s}
<1>1. /\ n \in Nat /\ Len(new) \in Nat /\ DOMAIN es = 1 .. n /\ DOMAIN new = 1 .. Len(new)
      /\ all \in Seq(S) /\ Len(all) = n + Len(new) /\ DOMAIN all = 1 .. n + Len(new)
      /\ \A i \in 1 .. n + Len(new) : all[i] = IF i <= n THEN es[i] ELSE new[i - n]
  BY ConcatProperties, LenProperties
<1> HIDE DEF n, all
<1>2. ASSUME NEW s, NEW B \in SUBSET (1 .. Len(new)), \A i \in B : new[i].session = s
      PROVE  Count(all, s) >= Count(es, s) + Cardinality(B) /\ Cardinality(B) \in Nat
  <2> DEFINE A == Of(es, s)
             C == A \cup Shifted(n, B)
  <2>1. A \in SUBSET (1 .. n)
    BY <1>1
  <2>2. ASSUME NEW k \in C PROVE k \in Of(all, s)
    <3>1. CASE k \in A
      BY <1>1, <3>1
    <3>2. CASE k \in Shifted(n, B)
      <4>1. PICK i \in B : k = n + i
        BY <3>2 DEF Shifted
      <4>2. i \in 1 .. Len(new) /\ k \in 1 .. n + Len(new) /\ k - n = i /\ ~(k <= n)
        BY <1>1, <4>1
      <4>3. all[k] = new[i]
        BY <1>1, <4>2
      <4> QED BY <1>1, <1>2, <4>2, <4>3
    <3> QED BY <3>1, <3>2
  <2> HIDE DEF A
  <2>3. Cardinality(C) = Cardinality(A) + Cardinality(B) /\ Cardinality(A) \in Nat /\ Cardinality(B) \in Nat
    <3> DEFINE D == Shifted(n, B)
    <3>1. IsFiniteSet(A) /\ Cardinality(A) \in Nat
      BY <1>1, <2>1, IndicesAreFinite
    <3>2. IsFiniteSet(B) /\ Cardinality(B) \in Nat
      BY <1>1, IndicesAreFinite
    <3>3. IsFiniteSet(D) /\ Cardinality(D) = Cardinality(B)
      <4>1. n \in Nat /\ B \subseteq Nat
        BY <1>1
      <4> QED BY <3>2, <4>1, ShiftedSize
    <3>4. A \cap D = {}
      BY <1>1, <2>1 DEF Shifted
    <3> HIDE DEF D
    <3>5. Cardinality(A \cup D) = Cardinality(A) + Cardinality(D) - Cardinality(A \cap D)
      BY <3>1, <3>3, FS_Union
    <3>6. Cardinality(A \cup D) = Cardinality(A) + Cardinality(B)
      <4>1. Cardinality(A \cap D) = 0
        BY <3>4, FS_EmptySet, Zenon
      <4> QED BY <3>1, <3>2, <3>3, <3>5, <4>1
    <3> QED BY <3>1, <3>2, <3>6 DEF D
  <2>4. IsFiniteSet(Of(all, s))
    <3>1. Of(all, s) \in SUBSET (1 .. n + Len(new)) /\ IsFiniteSet(1 .. n + Len(new))
      BY <1>1, FS_Interval
    <3> QED BY <3>1, FS_Subset
  <2>5. C \in SUBSET Of(all, s)
    BY <2>2
  <2> HIDE DEF C
  <2>6. Cardinality(C) <= Cardinality(Of(all, s)) /\ Cardinality(Of(all, s)) \in Nat
    BY <2>4, <2>5, FS_Subset, FS_CardinalityType
  <2>7. Count(all, s) = Cardinality(Of(all, s)) /\ Count(es, s) = Cardinality(A)
    BY DEF Count, A
  <2> HIDE DEF Of
  <2> QED BY <2>3, <2>6, <2>7
<1>3. ASSUME NEW s PROVE Count(all, s) >= Count(es, s)
  <2>1. Count(all, s) >= Count(es, s) + Cardinality({})
    BY <1>2
  <2>2. Count(es, s) \in Nat
    BY CountIsNat
  <2> QED BY <2>1, <2>2, FS_EmptySet
<1>4. ASSUME NEW ss, NEW j \in 1 .. Len(new), \A i \in 1 .. Len(new) : new[i].session = ss[i]
      PROVE  Count(all, ss[j]) >= Count(es, ss[j]) + Before(ss, j) + 1
  <2> DEFINE E == {i \in 1 .. j - 1 : ss[i] = ss[j]}
             B == E \cup {j}
  <2>1. B \in SUBSET (1 .. Len(new)) /\ \A i \in B : new[i].session = ss[j]
    BY <1>1, <1>4
  <2>2. Cardinality(B) = Cardinality(E) + 1
    <3>1. IsFiniteSet(1 .. j - 1) /\ E \in SUBSET (1 .. j - 1)
      BY FS_Interval
    <3>2. IsFiniteSet(E) /\ j \notin E
      BY <1>1, <3>1, FS_Subset
    <3> HIDE DEF E
    <3> QED BY <3>2, FS_AddElement
  <2>3. Cardinality(E) = Before(ss, j) /\ Before(ss, j) \in Nat
    <3>1. j \in Nat
      BY <1>1
    <3>2. Before(ss, j) \in Nat
      BY <3>1, BeforeIsNat
    <3> QED BY <3>2 DEF Before
  <2>4. Count(es, ss[j]) \in Nat
    BY CountIsNat
  <2> HIDE DEF B, E
  <2>5. Count(all, ss[j]) >= Count(es, ss[j]) + Cardinality(B)
    BY <1>2, <2>1
  <2> QED BY <2>2, <2>3, <2>4, <2>5
<1> QED BY <1>3, <1>4 DEF all

-----------------------------------------------------------------------------
(***************************************************************************)
(* What an operation mints.                                                *)
(***************************************************************************)
LEMMA NewEventsAre ==
  ASSUME MessagingAssumption, NEW p \in Proc, events[p] \in Seq(Event), born \in Nat,
         NEW ss \in Seq(Session), NEW kind \in EventKind, born + Len(ss) <= MaxBorn
  PROVE  /\ NewEvents(p, ss, kind) \in Seq(Event)
         /\ Len(NewEvents(p, ss, kind)) = Len(ss)
         /\ \A j \in 1 .. Len(ss) :
              NewEvents(p, ss, kind)[j] = [session |-> ss[j], id |-> born + j, kind |-> kind,
                                           idx |-> Count(events[p], ss[j]) + Before(ss, j)]
<1> DEFINE new  == NewEvents(p, ss, kind)
           e(j) == [session |-> ss[j], id |-> born + j, kind |-> kind,
                    idx |-> Count(events[p], ss[j]) + Before(ss, j)]
<1>1. Len(ss) \in Nat /\ DOMAIN ss = 1 .. Len(ss) /\ MaxBorn \in Nat
  BY LenProperties DEF MessagingAssumption
<1>2. new = [j \in 1 .. Len(ss) |-> e(j)]
  BY <1>1 DEF NewEvents, NextIdx, Count, Before
<1>3. ASSUME NEW j \in 1 .. Len(ss) PROVE e(j) \in Event
  <2>1. ss[j] \in Session /\ born + j \in 1 .. MaxBorn
    BY <1>1, ElementOfSeq
  <2>2. Count(events[p], ss[j]) \in Nat /\ Before(ss, j) \in Nat
    BY <1>1, CountIsNat, BeforeIsNat
  <2> QED BY <2>1, <2>2 DEF Event
<1>4. new \in [1 .. Len(ss) -> Event] /\ \A j \in 1 .. Len(ss) : new[j] = e(j)
  <2> HIDE DEF new, e
  <2> QED BY <1>2, <1>3
<1> HIDE DEF new
<1>5. new \in Seq(Event) /\ Len(new) = Len(ss)
  BY <1>1, <1>4
<1> QED BY <1>4, <1>5 DEF new

\* The anchors that are reached are known, and all are if all are known.
LEMMA ReachedAre ==
  ASSUME NEW p \in Proc, sending[p].anchors \in Seq(Known(p) \cup Unknown)
  PROVE  /\ Reached(p) \in Seq(Known(p))
         /\ Unknown = {} => Reached(p) = sending[p].anchors
<1>1. PICK anchors : anchors = sending[p].anchors
  OBVIOUS
<1> DEFINE D == {i \in DOMAIN anchors : \A j \in 1 .. i : anchors[j] \in Known(p)}
<1>2. /\ Reached(p) = SubSeq(anchors, 1, Cardinality(D))
      /\ anchors \in Seq(Known(p) \cup Unknown)
  BY <1>1 DEF Reached
<1>3. Len(anchors) \in Nat /\ DOMAIN anchors = 1 .. Len(anchors)
  BY <1>2, LenProperties
<1>4. PICK m \in 0 .. Len(anchors) : /\ D = 1 .. m
                                     /\ \A j \in 1 .. m : anchors[j] \in Known(p)
                                     /\ Unknown = {} => m = Len(anchors)
  <2> DEFINE Bad == {i \in 1 .. Len(anchors) : anchors[i] \notin Known(p)}
  <2>1. CASE Bad = {}
    <3>1. D = 1 .. Len(anchors) /\ \A j \in 1 .. Len(anchors) : anchors[j] \in Known(p)
      BY <1>3, <2>1
    <3>2. Len(anchors) \in 0 .. Len(anchors)
      BY <1>3
    <3> HIDE DEF D
    <3> QED BY <3>1, <3>2
  <2>2. CASE Bad # {}
    <3>1. PICK b \in Bad : \A c \in Bad : b <= c
      <4>1. Bad \subseteq Nat
        BY <1>3
      <4> HIDE DEF Bad
      <4> QED BY <2>2, <4>1, LeastNumber
    <3>2. b - 1 \in 0 .. Len(anchors) /\ b \in 1 .. Len(anchors) /\ anchors[b] \notin Known(p)
      BY <1>3, <3>1
    <3>3. \A j \in 1 .. b - 1 : anchors[j] \in Known(p)
      BY <1>3, <3>1
    <3>4. D = 1 .. b - 1
      BY <1>3, <3>2, <3>3
    <3>5. Unknown # {}
      BY <1>2, <3>2, ElementOfSeq
    <3> HIDE DEF D, Bad
    <3> QED BY <3>2, <3>3, <3>4, <3>5
  <2> QED BY <2>1, <2>2
<1> HIDE DEF D
<1>5. Cardinality(D) = m
  <2>1. m \in Nat /\ 1 \in Int /\ m \in Int
    BY <1>3
  <2>2. Cardinality(1 .. m) = IF 1 > m THEN 0 ELSE m - 1 + 1
    BY <2>1, FS_Interval
  <2> QED BY <1>4, <2>1, <2>2
<1>6. SubSeq(anchors, 1, m) \in Seq(Known(p))
  <2>1. 1 \in Int /\ m \in Int
    BY <1>3
  <2> QED BY <1>4, <2>1, SubSeqProperties
<1>7. Unknown = {} => SubSeq(anchors, 1, m) = anchors
  BY <1>2, <1>4, SubSeqFull
<1> QED BY <1>1, <1>2, <1>5, <1>6, <1>7

-----------------------------------------------------------------------------
(***************************************************************************)
(* Reading an export.                                                      *)
(***************************************************************************)
Flattens(f, seqs, n) ==
  /\ f = [i \in 1 .. n |-> f[i]]
  /\ \A i \in 1 .. n : f[i] = IF i = 1 THEN seqs[i] ELSE f[i - 1] \o seqs[i]

Agree(s, t, n) == \A i \in 1 .. n : s[i] = t[i]

\* A function that follows the recursion of FlattenSeq exists, ...
LEMMA FlattenerExists ==
  ASSUME NEW seqs, NEW n \in Nat
  PROVE  \E f : Flattens(f, seqs, n)
<1> DEFINE M == {m \in Nat : \E f : Flattens(f, seqs, m)}
<1>1. 0 \in M
  <2> DEFINE g == [i \in 1 .. 0 |-> << >>]
  <2>1. g = [i \in 1 .. 0 |-> g[i]] /\ \A i \in 1 .. 0 : FALSE
    OBVIOUS
  <2> HIDE DEF g
  <2> QED BY <2>1 DEF Flattens
<1>2. ASSUME NEW m \in Nat, m \in M PROVE m + 1 \in M
  <2>1. PICK f : Flattens(f, seqs, m)
    BY <1>2
  <2> DEFINE g == [i \in 1 .. m + 1 |->
                     IF i <= m THEN f[i] ELSE IF i = 1 THEN seqs[i] ELSE f[m] \o seqs[i]]
  <2>2. \A i \in 1 .. m : f[i] = IF i = 1 THEN seqs[i] ELSE f[i - 1] \o seqs[i]
    BY <2>1 DEF Flattens
  <2>3. ASSUME NEW i \in 1 .. m + 1
        PROVE  g[i] = IF i = 1 THEN seqs[i] ELSE g[i - 1] \o seqs[i]
    <3>1. CASE i <= m
      <4>1. i \in 1 .. m /\ g[i] = f[i]
        BY <3>1
      <4>2. i # 1 => i - 1 \in 1 .. m /\ g[i - 1] = f[i - 1]
        BY <3>1
      <4> HIDE DEF g
      <4> QED BY <2>2, <4>1, <4>2
    <3>2. CASE ~(i <= m)
      <4>1. i = m + 1 /\ g[i] = IF i = 1 THEN seqs[i] ELSE f[m] \o seqs[i]
        BY <3>2
      <4>2. i # 1 => i - 1 = m /\ i - 1 \in 1 .. m + 1 /\ i - 1 <= m
        BY <4>1
      <4>3. i # 1 => g[i - 1] = f[m]
        BY <4>2
      <4> HIDE DEF g
      <4> QED BY <4>1, <4>3
    <3> QED BY <3>1, <3>2
  <2>4. g = [i \in 1 .. m + 1 |-> g[i]]
    OBVIOUS
  <2> HIDE DEF g
  <2>5. Flattens(g, seqs, m + 1)
    BY <2>3, <2>4 DEF Flattens
  <2> QED BY <2>5
<1> HIDE DEF M
<1>3. n \in M
  BY <1>1, <1>2, SetInduction
<1> QED BY <1>3 DEF M

\* What is flattened up to a place does not depend on what follows.
LEMMA FlattenerIsUnique ==
  ASSUME NEW seqs, NEW more, NEW n \in Nat, NEW m \in Nat, NEW f, NEW g,
         Flattens(f, seqs, n), Flattens(g, more, m), n <= m, Agree(seqs, more, n)
  PROVE  Agree(f, g, n)
<1> DEFINE M == {k \in Nat : k \in 1 .. n => f[k] = g[k]}
<1>1. 0 \in M
  OBVIOUS
<1>2. /\ \A i \in 1 .. n : f[i] = IF i = 1 THEN seqs[i] ELSE f[i - 1] \o seqs[i]
      /\ \A i \in 1 .. m : g[i] = IF i = 1 THEN more[i] ELSE g[i - 1] \o more[i]
  BY DEF Flattens
<1>3. ASSUME NEW k \in Nat, k \in M PROVE k + 1 \in M
  <2> SUFFICES ASSUME k + 1 \in 1 .. n PROVE f[k + 1] = g[k + 1]
    OBVIOUS
  <2>1. k + 1 \in 1 .. m /\ seqs[k + 1] = more[k + 1] /\ (k + 1) - 1 = k
    BY DEF Agree
  <2>2. CASE k = 0
    BY <1>2, <2>1, <2>2
  <2>3. CASE k # 0
    <3>1. f[k] = g[k] /\ k + 1 # 1
      BY <1>3, <2>3
    <3> QED BY <1>2, <2>1, <3>1
  <2> QED BY <2>2, <2>3
<1> HIDE DEF M
<1>4. Nat \subseteq M
  BY <1>1, <1>3, SetInduction
<1> QED BY <1>4 DEF M, Agree

\* ... is the one that FlattenSeq picks, ...
LEMMA FlattenFollows ==
  ASSUME NEW S, NEW seqs \in Seq(S), Len(seqs) # 0, NEW f, Flattens(f, seqs, Len(seqs))
  PROVE  FlattenSeq(seqs) = f[Len(seqs)]
<1>1. Len(seqs) \in Nat
  BY LenProperties
<1> DEFINE g == CHOOSE g : g = [i \in 1 .. Len(seqs) |->
                                  IF i = 1 THEN seqs[i] ELSE g[i - 1] \o seqs[i]]
<1>2. FlattenSeq(seqs) = g[Len(seqs)]
  BY DEF FlattenSeq
<1>3. g = [i \in 1 .. Len(seqs) |-> IF i = 1 THEN seqs[i] ELSE g[i - 1] \o seqs[i]]
  <2>1. f = [i \in 1 .. Len(seqs) |-> IF i = 1 THEN seqs[i] ELSE f[i - 1] \o seqs[i]]
    BY DEF Flattens
  <2> QED BY <2>1
<1> HIDE DEF g
<1>4. Flattens(g, seqs, Len(seqs))
  <2>1. g = [i \in 1 .. Len(seqs) |-> g[i]]
    BY <1>3
  <2>2. ASSUME NEW i \in 1 .. Len(seqs)
        PROVE  g[i] = IF i = 1 THEN seqs[i] ELSE g[i - 1] \o seqs[i]
    BY <1>3
  <2> QED BY <2>1, <2>2 DEF Flattens
<1>5. Len(seqs) \in 1 .. Len(seqs)
  BY <1>1
<1>6. f[Len(seqs)] = g[Len(seqs)]
  BY <1>1, <1>4, <1>5, FlattenerIsUnique DEF Agree
<1> QED BY <1>2, <1>6

\* ... and gives the flattening of one sequence more.
LEMMA FlattenAppend ==
  ASSUME NEW S, NEW seqs \in Seq(Seq(S)), NEW s \in Seq(S)
  PROVE  FlattenSeq(Append(seqs, s)) = FlattenSeq(seqs) \o s
<1> DEFINE more == Append(seqs, s)
           n == Len(seqs)
<1>1. /\ n \in Nat /\ more \in Seq(Seq(S)) /\ Len(more) = n + 1
      /\ more[n + 1] = s /\ \A i \in 1 .. n : more[i] = seqs[i]
  BY AppendProperties, LenProperties
<1> HIDE DEF more
<1>2. PICK f : Flattens(f, more, n + 1)
  <2>1. n + 1 \in Nat
    BY <1>1
  <2> HIDE DEF n
  <2> QED BY <2>1, FlattenerExists
<1>3. FlattenSeq(more) = f[n + 1]
  BY <1>1, <1>2, FlattenFollows
<1>4. f[n + 1] = IF n + 1 = 1 THEN more[n + 1] ELSE f[n] \o more[n + 1]
  <2>1. n + 1 \in 1 .. n + 1 /\ (n + 1) - 1 = n
    BY <1>1
  <2> HIDE DEF n
  <2> QED BY <1>2, <2>1 DEF Flattens
<1>5. CASE n = 0
  <2>1. seqs = << >>
    BY <1>5, EmptySeq
  <2>2. FlattenSeq(seqs) = << >>
    BY <2>1, EmptySeq DEF FlattenSeq
  <2>3. f[n + 1] = s
    BY <1>1, <1>4, <1>5
  <2> QED BY <1>3, <2>2, <2>3, ConcatEmptySeq DEF more
<1>6. CASE n # 0
  <2>1. PICK g : Flattens(g, seqs, n)
    BY <1>1, FlattenerExists
  <2>2. FlattenSeq(seqs) = g[n]
    BY <1>6, <2>1, FlattenFollows
  <2>3. g[n] = f[n]
    <3>1. n \in 1 .. n /\ n <= n + 1 /\ n + 1 \in Nat /\ \A i \in 1 .. n : seqs[i] = more[i]
      BY <1>1, <1>6
    <3>2. PICK k \in Nat, l \in Nat : k = n /\ l = n + 1
      BY <1>1, <3>1
    <3>3. Flattens(g, seqs, k) /\ Flattens(f, more, l) /\ k <= l /\ \A i \in 1 .. k : seqs[i] = more[i]
      BY <1>2, <2>1, <3>1, <3>2
    <3>4. \A i \in 1 .. k : g[i] = f[i]
      <4>1. Agree(seqs, more, k)
        BY <3>3 DEF Agree
      <4>2. Flattens(g, seqs, k) /\ Flattens(f, more, l) /\ k <= l
        BY <3>3
      <4>3. Agree(g, f, k)
        BY <4>1, <4>2, FlattenerIsUnique
      <4> QED BY <4>3 DEF Agree
    <3> QED BY <3>1, <3>2, <3>4
  <2>4. f[n + 1] = f[n] \o s
    BY <1>1, <1>4, <1>6
  <2> QED BY <1>3, <2>2, <2>3, <2>4 DEF more
<1> QED BY <1>5, <1>6

\* Nothing flattens to nothing, ...
LEMMA FlattenEmpty == FlattenSeq(<< >>) = << >>
<1>1. Len(<< >>) = 0
  BY EmptySeq
<1> QED BY <1>1 DEF FlattenSeq

\* ... and sequences over a set to one over that set.
LEMMA FlattenType ==
  ASSUME NEW S, NEW seqs \in Seq(Seq(S))
  PROVE  FlattenSeq(seqs) \in Seq(S)
<1> DEFINE M == {t \in Seq(Seq(S)) : FlattenSeq(t) \in Seq(S)}
<1>1. << >> \in M
  BY EmptySeq, FlattenEmpty
<1>2. ASSUME NEW t \in Seq(Seq(S)), NEW s \in Seq(S), t \in M PROVE Append(t, s) \in M
  <2>1. FlattenSeq(Append(t, s)) = FlattenSeq(t) \o s
    BY FlattenAppend
  <2>2. Append(t, s) \in Seq(Seq(S)) /\ FlattenSeq(t) \in Seq(S)
    BY <1>2, AppendProperties
  <2>3. FlattenSeq(t) \o s \in Seq(S)
    BY <2>2, ConcatProperties
  <2> QED BY <2>1, <2>2, <2>3
<1>3. Seq(Seq(S)) \subseteq M
  <2> HIDE DEF M
  <2> QED BY <1>1, <1>2, SeqInduction
<1> QED BY <1>3

Resource == UNION {ToSet(export) : export \in Exports}
Stamps   == {resource.stamp : resource \in Resource}
Arrived  == [session : Stamps, kind : EventKind \ {"mail"}]

\* An export is a sequence of resources.
LEMMA ExportsAreRead ==
  ASSUME TelemetryAssumption, NEW export \in Exports
  PROVE  export \in Seq(Resource)
<1>1. export \in Seq(ToSet(export)) /\ ToSet(export) \subseteq Resource
  BY DEF TelemetryAssumption, Resource
<1> QED BY <1>1, SeqMonotonic

\* A resource's records are what may arrive, of the session it is stamped with.
LEMMA RecordsAre ==
  ASSUME TelemetryAssumption, NEW resource \in Resource
  PROVE  /\ Records(resource) \in Seq(Arrived)
         /\ \A i \in 1 .. Len(Records(resource)) : Records(resource)[i].session = resource.stamp
<1> DEFINE named == Keep(resource.records, {name \in ToSet(resource.records) : name # ""})
<1>1. resource.records \in Seq(STRING)
  BY DEF TelemetryAssumption, Resource
<1>2. named \in Seq(STRING)
  BY <1>1, KeepSeq
<1>3. Len(named) \in Nat /\ DOMAIN named = 1 .. Len(named)
  BY <1>2, LenProperties
<1>4. \A name : MapEvent(name) \in EventKind \ {"mail"}
  BY DEF MapEvent, EventKind
<1>5. resource.stamp \in Stamps
  BY DEF Stamps
<1>6. Records(resource) = [i \in DOMAIN named |-> [session |-> resource.stamp, kind |-> MapEvent(named[i])]]
  BY DEF Records
<1> HIDE DEF named
<1> DEFINE e(i) == [session |-> resource.stamp, kind |-> MapEvent(named[i])]
<1>7. \A i : e(i) \in Arrived /\ e(i).session = resource.stamp
  BY <1>4, <1>5 DEF Arrived
<1>8. Records(resource) = [i \in 1 .. Len(named) |-> e(i)]
  BY <1>3, <1>6
<1> HIDE DEF e
<1> QED BY <1>3, <1>7, <1>8

\* The records of resources, and of one more.
RecordLists(export) == [i \in DOMAIN export |-> Records(export[i])]

\* An export gives lists of what may arrive.
LEMMA RecordListsAre ==
  ASSUME TelemetryAssumption, NEW export \in Seq(Resource)
  PROVE  RecordLists(export) \in Seq(Seq(Arrived))
<1>1. Len(export) \in Nat /\ DOMAIN export = 1 .. Len(export)
  BY LenProperties
<1>2. \A i \in 1 .. Len(export) : Records(export[i]) \in Seq(Arrived)
  BY RecordsAre, ElementOfSeq
<1>3. RecordLists(export) = [i \in 1 .. Len(export) |-> Records(export[i])]
  BY <1>1 DEF RecordLists
<1> QED BY <1>1, <1>2, <1>3

\* So does what parse_logs_export keeps of it.
LEMMA ParsedIs ==
  ASSUME TelemetryAssumption, NEW export \in Seq(Resource)
  PROVE  ParseLogsExport(export) \in Seq(Arrived)
<1> DEFINE stamped == Keep(export, {resource \in ToSet(export) : resource.stamp # NoSession})
<1>1. stamped \in Seq(Resource)
  BY KeepSeq
<1>2. ParseLogsExport(export) = FlattenSeq(RecordLists(stamped))
  BY DEF ParseLogsExport, RecordLists
<1> HIDE DEF stamped
<1>3. RecordLists(stamped) \in Seq(Seq(Arrived))
  BY <1>1, RecordListsAre
<1> QED BY <1>2, <1>3, FlattenType

\* f, applied to each member of a sequence.
Mapped(f, x) == [i \in 1 .. Len(x) |-> f[x[i]]]

MapOf(t, f, x, R) ==
  /\ t \in Seq(R) /\ t = Mapped(f, x) /\ Len(t) = Len(x)
  /\ \A i \in 1 .. Len(x) : t[i] = f[x[i]]

LEMMA MappedIs ==
  ASSUME NEW S, NEW R, NEW f \in [S -> R], NEW x \in Seq(S)
  PROVE  MapOf(Mapped(f, x), f, x, R)
<1>1. Len(x) \in Nat /\ \A i \in 1 .. Len(x) : f[x[i]] \in R
  BY LenProperties, ElementOfSeq
<1>2. Mapped(f, x) \in [1 .. Len(x) -> R]
  BY <1>1 DEF Mapped
<1>3. Mapped(f, x) \in Seq(R) /\ Len(Mapped(f, x)) = Len(x)
  BY <1>1, <1>2
<1> QED BY <1>3 DEF Mapped, MapOf

LEMMA MappedAppend ==
  ASSUME NEW S, NEW R, NEW f \in [S -> R], NEW x \in Seq(S), NEW e \in S
  PROVE  Mapped(f, Append(x, e)) = Append(Mapped(f, x), f[e])
<1>1. PICK n \in Nat : n = Len(x)
  BY LenProperties
<1>2. PICK more : more = Append(x, e)
  OBVIOUS
<1>3. /\ more \in Seq(S) /\ Len(more) = n + 1 /\ more[n + 1] = e
      /\ \A i \in 1 .. n : more[i] = x[i]
  BY <1>1, <1>2, AppendProperties
<1>10. PICK short : short = Mapped(f, x)
  OBVIOUS
<1>11. /\ short \in Seq(R) /\ Len(short) = n
       /\ \A i \in 1 .. n : short[i] = f[x[i]]
  BY <1>1, <1>10, MappedIs DEF MapOf
<1>12. PICK all : all = Mapped(f, more)
  OBVIOUS
<1>4. /\ all \in Seq(R) /\ Len(all) = n + 1
      /\ \A i \in 1 .. n + 1 : all[i] = f[more[i]]
  <2>1. MapOf(Mapped(f, more), f, more, R)
    BY <1>3, MappedIs
  <2> QED BY <1>3, <1>12, <2>1 DEF MapOf
<1>5. f[e] \in R
  OBVIOUS
<1>13. PICK joined : joined = Append(short, f[e])
  OBVIOUS
<1>6. /\ joined \in Seq(R) /\ Len(joined) = n + 1
      /\ joined[n + 1] = f[e] /\ \A i \in 1 .. n : joined[i] = short[i]
  BY <1>5, <1>11, <1>13, AppendProperties
<1>7. ASSUME NEW i \in 1 .. Len(all) PROVE all[i] = joined[i]
  <2>1. CASE i \in 1 .. n
    BY <1>3, <1>4, <1>6, <1>11, <2>1
  <2>2. CASE i = n + 1
    BY <1>3, <1>4, <1>6, <2>2
  <2> QED BY <1>4, <2>1, <2>2
<1>8. all = joined
  BY <1>4, <1>6, <1>7, SeqEqual
<1> QED BY <1>2, <1>8, <1>10, <1>12, <1>13

\* What an export holds of a session and a kind, resource by resource.
ExportedBy(s, kind) == [resource \in Resource |-> Exported(resource, s, kind)]

LEMMA ExportedByIs ==
  ASSUME TelemetryAssumption, NEW s, NEW kind
  PROVE  ExportedBy(s, kind) \in [Resource -> Seq(STRING)]
<1>1. ASSUME NEW resource \in Resource PROVE Exported(resource, s, kind) \in Seq(STRING)
  <2>1. resource.records \in Seq(STRING)
    BY DEF TelemetryAssumption, Resource
  <2>2. \A T : Keep(resource.records, T) \in Seq(STRING)
    BY <2>1, KeepSeq
  <2> QED BY <2>2, EmptySeq DEF Exported
<1> QED BY <1>1 DEF ExportedBy

LEMMA DeliveredIs ==
  ASSUME NEW export \in Seq(Resource), NEW s, NEW kind
  PROVE  Delivered(export, s, kind) = Len(FlattenSeq(Mapped(ExportedBy(s, kind), export)))
<1>1. DOMAIN export = 1 .. Len(export) /\ \A i \in 1 .. Len(export) : export[i] \in Resource
  BY LenProperties, ElementOfSeq
<1>2. Mapped(ExportedBy(s, kind), export) = [i \in DOMAIN export |-> Exported(export[i], s, kind)]
  BY <1>1 DEF Mapped, ExportedBy
<1> QED BY <1>2 DEF Delivered

\* Every export delivers a number of records.
LEMMA DeliveredCounts ==
  ASSUME TelemetryAssumption, NEW export \in Seq(Resource), NEW s, NEW kind
  PROVE  Delivered(export, s, kind) \in Nat
<1>1. ExportedBy(s, kind) \in [Resource -> Seq(STRING)]
  BY ExportedByIs
<1>2. Mapped(ExportedBy(s, kind), export) \in Seq(Seq(STRING))
  BY <1>1, MappedIs DEF MapOf
<1>3. FlattenSeq(Mapped(ExportedBy(s, kind), export)) \in Seq(STRING)
  BY <1>2, FlattenType
<1> QED BY <1>3, DeliveredIs, LenProperties

-----------------------------------------------------------------------------
(***************************************************************************)
(* The types.                                                              *)
(***************************************************************************)
Disks == [rows : Rows, events : Seq(Event), messages : Seq(Message),
          probed : Probes, catalog : [ToSet(CatalogTables) -> Nat]]

Memory ==
  /\ up \subseteq Proc
  /\ rows \in [Proc -> Rows]
  /\ events \in [Proc -> Seq(Event)]
  /\ messages \in [Proc -> Seq(Message)]
  /\ probed \in [Proc -> Probes]
  /\ disk \in Disks
  /\ born \in 0 .. MaxBorn
  /\ sinkFails \in 0 .. MaxSinkFails
  /\ \A p \in Proc \ up : events[p] = << >> /\ messages[p] = << >>

\* What a send has resolved, its lock released, is a target of the ledger's.
Sends ==
  /\ sending \in [Proc -> [to : {"none", "worker", "user"}, anchors : Seq(Session \cup Unknown)]]
  /\ \A p \in Proc :
       \/ sending[p] = Idle
       \/ /\ p \in up /\ sending[p].to \in {"worker", "user"}
          /\ sending[p].anchors \in Seq(Known(p) \cup Unknown)

Receivers ==
  /\ serving \in [Proc -> [busy : BOOLEAN, left : Seq(Arrived), body : Seq(Resource)]]
  /\ \A p \in Proc \ up : serving[p] = NoRequest
  /\ owed \in [Session -> [EventKind -> Nat]]

Types == Memory /\ Sends /\ Receivers

Assumptions == MessagingAssumption /\ TelemetryAssumption

\* The assumptions on the constants, as a hypothesis of the lemmas on steps.
LEMMA AssumptionsHold == Assumptions
BY MessagingAssumption, TelemetryAssumption DEF Assumptions

\* A write of the mirror, of the rows, events and messages that were changed.
Written(p, S, evs, msgs) ==
  /\ disk' \in Disks
  /\ disk'.probed = disk.probed /\ disk'.catalog = disk.catalog
  /\ disk'.events \in {disk.events, Upsert(disk.events, evs, EventKey)}
  /\ disk'.messages \in {disk.messages, Upsert(disk.messages, msgs, MessageKey)}
  /\ \A s \in Session : disk'.rows[s] \in {disk.rows[s], rows'[p][s]}
  /\ \A s \in Session \ S : disk'.rows[s] = disk.rows[s]
  /\ sinkFails' \in 0 .. MaxSinkFails
  /\ sinkFails' = 0 =>
       /\ sinkFails = 0
       /\ disk'.events = Upsert(disk.events, evs, EventKey)
       /\ disk'.messages = Upsert(disk.messages, msgs, MessageKey)
       /\ \A s \in S : disk'.rows[s] = rows'[p][s]

\* message_mutation loses nothing of a message here.
LEMMA RowsOfMessages ==
  ASSUME NEW msgs \in Seq(Message)
  PROVE  [i \in DOMAIN msgs |-> MessageRow(msgs[i])] = msgs
<1>1. Len(msgs) \in Nat /\ DOMAIN msgs = 1 .. Len(msgs) /\ msgs = [i \in 1 .. Len(msgs) |-> msgs[i]]
  BY LenProperties
<1>2. ASSUME NEW m \in Message PROVE MessageRow(m) = m
  BY DEF MessageRow, MessageColumns, Message
<1>3. \A i \in 1 .. Len(msgs) : MessageRow(msgs[i]) = msgs[i]
  BY <1>2, ElementOfSeq
<1> QED BY <1>1, <1>3

\* Mirror writes all, or fails on the way.
LEMMA MirrorWrites ==
  ASSUME Assumptions, Memory, NEW p \in Proc, NEW S \in SUBSET Session,
         NEW evs \in Seq(Event), NEW msgs \in Seq(Message), rows'[p] \in Rows,
         Mirror(p, S, evs, msgs)
  PROVE  Written(p, S, evs, msgs)
<1> DEFINE E == Upsert(disk.events, evs, EventKey)
           M == Upsert(disk.messages, msgs, MessageKey)
<1>1. /\ disk.rows \in Rows /\ disk.events \in Seq(Event) /\ disk.messages \in Seq(Message)
      /\ disk.probed \in Probes /\ disk.catalog \in [ToSet(CatalogTables) -> Nat]
  BY DEF Memory, Disks
<1>2. E \in Seq(Event) /\ M \in Seq(Message)
  BY <1>1, UpsertRows
<1>3. [i \in DOMAIN msgs |-> MessageRow(msgs[i])] = msgs
  BY RowsOfMessages
<1>4. ASSUME NEW T, Store(T, p, S, evs, msgs)
      PROVE  /\ disk' = [rows     |-> [s \in Session |-> IF "sessions" \in T /\ s \in S
                                                       THEN rows'[p][s] ELSE disk.rows[s]],
                         events   |-> IF "events" \in T THEN E ELSE disk.events,
                         messages |-> IF "messages" \in T THEN M ELSE disk.messages,
                         probed   |-> disk.probed,
                         catalog  |-> disk.catalog]
  BY <1>3, <1>4, SMTT(30) DEF Store
<1> HIDE DEF E, M
<1>5. ASSUME NEW T, Store(T, p, S, evs, msgs)
      PROVE  /\ disk' \in Disks
             /\ disk'.probed = disk.probed /\ disk'.catalog = disk.catalog
             /\ disk'.events = (IF "events" \in T THEN E ELSE disk.events)
             /\ disk'.messages = (IF "messages" \in T THEN M ELSE disk.messages)
             /\ \A s \in Session : disk'.rows[s] = IF "sessions" \in T /\ s \in S
                                                   THEN rows'[p][s] ELSE disk.rows[s]
  <2> DEFINE R == [s \in Session |-> IF "sessions" \in T /\ s \in S THEN rows'[p][s] ELSE disk.rows[s]]
  <2>1. R \in Rows /\ \A s \in Session : R[s] = IF "sessions" \in T /\ s \in S
                                                THEN rows'[p][s] ELSE disk.rows[s]
    BY <1>1 DEF Rows
  <2>2. disk' = [rows     |-> R,
                 events   |-> IF "events" \in T THEN E ELSE disk.events,
                 messages |-> IF "messages" \in T THEN M ELSE disk.messages,
                 probed   |-> disk.probed,
                 catalog  |-> disk.catalog]
    BY <1>4, <1>5
  <2> HIDE DEF R
  <2>3. disk' \in Disks
    BY <1>1, <1>2, <2>1, <2>2 DEF Disks
  <2> QED BY <2>1, <2>2, <2>3
<1>6. CASE Store(Tables, p, S, evs, msgs) /\ UNCHANGED sinkFails
  <2>1. "sessions" \in Tables /\ "events" \in Tables /\ "messages" \in Tables
    BY DEF Tables
  <2>2. /\ disk'.events = E /\ disk'.messages = M
        /\ \A s \in Session : disk'.rows[s] = IF s \in S THEN rows'[p][s] ELSE disk.rows[s]
    BY <1>5, <1>6, <2>1
  <2>3. disk' \in Disks /\ disk'.probed = disk.probed /\ disk'.catalog = disk.catalog
    BY <1>5, <1>6
  <2>4. sinkFails' \in 0 .. MaxSinkFails /\ (sinkFails' = 0 => sinkFails = 0)
    BY <1>6 DEF Memory
  <2> QED BY <2>2, <2>3, <2>4 DEF Written, E, M
<1>7. CASE /\ sinkFails < MaxSinkFails /\ sinkFails' = sinkFails + 1
           /\ \E T \in {{}, {"sessions"}, {"sessions", "events"}, {"sessions", "messages"}} :
                Store(T, p, S, evs, msgs)
  <2>1. PICK T : Store(T, p, S, evs, msgs)
    BY <1>7
  <2>2. /\ disk'.events \in {disk.events, E} /\ disk'.messages \in {disk.messages, M}
        /\ \A s \in Session : disk'.rows[s] \in {disk.rows[s], rows'[p][s]}
        /\ \A s \in Session \ S : disk'.rows[s] = disk.rows[s]
    BY <1>5, <2>1
  <2>3. disk' \in Disks /\ disk'.probed = disk.probed /\ disk'.catalog = disk.catalog
    BY <1>5, <2>1
  <2>4. sinkFails' \in 0 .. MaxSinkFails /\ sinkFails' # 0
    BY <1>7 DEF Memory, Assumptions, MessagingAssumption
  <2> QED BY <2>2, <2>3, <2>4 DEF Written, E, M
<1> QED BY <1>6, <1>7 DEF Mirror

-----------------------------------------------------------------------------
(***************************************************************************)
(* The steps, by what they do to the memories and to the mirror.           *)
(***************************************************************************)
RowsMove(p, S) ==
  /\ rows' \in [Proc -> Rows]
  /\ \A q \in Proc \ {p} : rows'[q] = rows[q]
  /\ \A s \in Session : /\ s \notin S => rows'[p][s] = rows[p][s]
                        /\ rows[p][s] # "none" => rows'[p][s] # "none"

\* One event that is no mail: of dispatch, of an end, of a terminal, of telemetry.
Logs(p) ==
  \E s \in Session, kind \in EventKind \ {"mail"}, S \in SUBSET Session :
    /\ p \in up /\ RowsMove(p, S)
    /\ Push(p, NewEvents(p, <<s>>, kind)) /\ Mirror(p, S, NewEvents(p, <<s>>, kind), << >>)
    /\ UNCHANGED <<up, probed, messages>>

\* Messages with their mails, written unless an anchor was unknown.
Posts(p) ==
  \E ss \in Seq(Session), to \in {"worker", "user", "manager"} :
    LET mails == NewEvents(p, ss, "mail")
        new   == MessagesOf(mails, to)
    IN /\ p \in up /\ Push(p, mails)
       /\ messages' = [messages EXCEPT ![p] = @ \o new]
       /\ Mirror(p, {}, mails, new) \/ (Unknown # {} /\ UNCHANGED <<disk, sinkFails>>)
       /\ UNCHANGED <<up, probed, rows>>

Acks(p)      == \E i \in DOMAIN messages[p] : Ack(p, i)
Refreshes(p) == \E E \in Refreshable : Refresh(p, E)
Stays        == UNCHANGED <<up, rows, events, messages, probed, disk, born, sinkFails>>

Moves(p) == Open(p) \/ OpenFails(p) \/ Close(p) \/ Refreshes(p) \/ Logs(p) \/ Posts(p) \/ Acks(p)

\* Steps that leave the rows alone, and those that move one.
LEMMA SameRowsMove ==
  ASSUME Memory, NEW p \in Proc, NEW S, UNCHANGED rows
  PROVE  RowsMove(p, S)
BY DEF Memory, RowsMove

\* A dispatch, or an end, moves the row of its session.
LEMMA OneRowMoves ==
  ASSUME Memory, NEW p \in Proc, NEW s \in Session, NEW to \in {"live", "over"},
         rows' = [rows EXCEPT ![p][s] = to]
  PROVE  RowsMove(p, {s})
<1>1. rows \in [Proc -> Rows] /\ rows[p] \in [Session -> {"none", "live", "over"}]
  BY DEF Memory, Rows
<1>2. /\ rows' = [rows EXCEPT ![p] = [rows[p] EXCEPT ![s] = to]]
      /\ [rows[p] EXCEPT ![s] = to] \in Rows
  BY <1>1 DEF Rows
<1>3. rows' \in [Proc -> Rows] /\ rows'[p] = [rows[p] EXCEPT ![s] = to]
  BY <1>1, <1>2
<1>4. \A q \in Proc \ {p} : rows'[q] = rows[q]
  BY <1>1, <1>2
<1> QED BY <1>1, <1>3, <1>4 DEF RowsMove

\* Every step is one of these.
LEMMA Steps ==
  ASSUME Assumptions, Types, [TelemetryNext]_telemetryVars
  PROVE  Stays \/ \E p \in Proc : Moves(p)
<1>1. ASSUME NEW p \in Proc, Open(p) \/ OpenFails(p) \/ Close(p) \/ (\E E \in Refreshable : Refresh(p, E))
                               \/ \E i \in DOMAIN messages[p] : Ack(p, i)
      PROVE  Moves(p)
  BY <1>1 DEF Moves, Acks, Refreshes
<1>2. ASSUME NEW p \in Proc, NEW s \in Session, Dispatch(p, s) \/ End(p, s) \/ Observe(p, s)
      PROVE  Moves(p)
  <2>1. CASE Dispatch(p, s)
    <3>1. RowsMove(p, {s}) /\ p \in up
      BY <2>1, OneRowMoves DEF Types, Dispatch, Managers
    <3>2. {s} \in SUBSET Session /\ "log" \in EventKind \ {"mail"}
      BY DEF EventKind
    <3>3. /\ Push(p, NewEvents(p, <<s>>, "log")) /\ Mirror(p, {s}, NewEvents(p, <<s>>, "log"), << >>)
          /\ UNCHANGED <<up, probed, messages>>
      BY <2>1 DEF Dispatch
    <3> QED BY <3>1, <3>2, <3>3 DEF Moves, Logs
  <2>2. CASE End(p, s)
    <3>1. RowsMove(p, {s}) /\ p \in up
      BY <2>2, OneRowMoves DEF Types, End
    <3>2. {s} \in SUBSET Session /\ "state" \in EventKind \ {"mail"}
      BY DEF EventKind
    <3>3. /\ Push(p, NewEvents(p, <<s>>, "state")) /\ Mirror(p, {s}, NewEvents(p, <<s>>, "state"), << >>)
          /\ UNCHANGED <<up, probed, messages>>
      BY <2>2 DEF End
    <3> QED BY <3>1, <3>2, <3>3 DEF Moves, Logs
  <2>3. CASE Observe(p, s)
    <3>1. RowsMove(p, {}) /\ p \in up
      BY <2>3, SameRowsMove DEF Types, Observe
    <3>2. {} \in SUBSET Session /\ "terminal" \in EventKind \ {"mail"}
      BY DEF EventKind
    <3>3. /\ Push(p, NewEvents(p, <<s>>, "terminal")) /\ Mirror(p, {}, NewEvents(p, <<s>>, "terminal"), << >>)
          /\ UNCHANGED <<up, probed, messages>>
      BY <2>3 DEF Observe
    <3> QED BY <3>1, <3>2, <3>3 DEF Moves, Logs
  <2> QED BY <1>2, <2>1, <2>2, <2>3
<1>3. ASSUME NEW p \in Proc, Mint(p) PROVE Moves(p)
  <2>1. sending[p].to \in {"worker", "user"} /\ sending[p].anchors \in Seq(Known(p) \cup Unknown)
    BY <1>3 DEF Types, Sends, Mint
  <2>2. Reached(p) \in Seq(Session) /\ (Unknown = {} => Reached(p) = sending[p].anchors)
    <3>1. Known(p) \subseteq Session
      BY DEF Known
    <3> QED BY <2>1, <3>1, ReachedAre, SeqMonotonic
  <2> DEFINE mails == NewEvents(p, Reached(p), "mail")
             new   == MessagesOf(mails, sending[p].to)
  <2>3. /\ p \in up /\ Push(p, mails) /\ messages' = [messages EXCEPT ![p] = @ \o new]
        /\ IF Reached(p) = sending[p].anchors THEN Mirror(p, {}, mails, new)
           ELSE UNCHANGED <<disk, sinkFails>>
        /\ UNCHANGED <<up, probed, rows>>
    BY <1>3 DEF Mint
  <2>4. Mirror(p, {}, mails, new) \/ (Unknown # {} /\ UNCHANGED <<disk, sinkFails>>)
    BY <2>2, <2>3
  <2>5. Posts(p)
    <3>1. sending[p].to \in {"worker", "user", "manager"}
      BY <2>1
    <3> QED BY <2>2, <2>3, <2>4, <3>1 DEF Posts
  <2> QED BY <2>5 DEF Moves
<1>4. ASSUME NEW p \in Proc, WorkerSend(p) PROVE Moves(p)
  <2>1. <<Bound[p]>> \in Seq(Session)
    BY <1>4 DEF WorkerSend, Known
  <2> DEFINE mails == NewEvents(p, <<Bound[p]>>, "mail")
             new   == MessagesOf(mails, "manager")
  <2>2. /\ p \in up /\ Push(p, mails) /\ messages' = [messages EXCEPT ![p] = @ \o new]
        /\ Mirror(p, {}, mails, new)
        /\ UNCHANGED <<up, probed, rows>>
    BY <1>4 DEF WorkerSend, Workers
  <2>3. Posts(p)
    BY <2>1, <2>2 DEF Posts
  <2> QED BY <2>3 DEF Moves
<1>5. ASSUME NEW p \in Proc, Resolve(p) PROVE Stays
  BY <1>5 DEF Resolve, Stays, memory
<1>6. CASE Next
  BY <1>1, <1>2, <1>3, <1>4, <1>5, <1>6 DEF Next
<1>7. ASSUME NEW p \in Proc, NEW export \in Exports, Request(p, export) PROVE Stays
  BY <1>7 DEF Request, Stays, vars, memory
<1>8. ASSUME NEW p \in Proc, Respond(p) PROVE Stays
  BY <1>8 DEF Respond, Stays, vars, memory
<1>9. ASSUME NEW p \in Proc, Ingest(p) PROVE Stays \/ Moves(p)
  <2> DEFINE record == Head(serving[p].left)
  <2>1. CASE record.session \in Known(p)
    <3>1. record \in Arrived
      <4>1. serving[p].left \in Seq(Arrived) /\ serving[p].left # << >>
        BY <1>9 DEF Types, Receivers, Ingest
      <4> QED BY <4>1, HeadTailProperties
    <3>2. PICK s \in Session, kind \in EventKind \ {"mail"} : s = record.session /\ kind = record.kind
      BY <2>1, <3>1 DEF Known, Arrived
    <3>3. /\ p \in up /\ Push(p, NewEvents(p, <<s>>, kind))
          /\ Mirror(p, {}, NewEvents(p, <<s>>, kind), << >>)
          /\ UNCHANGED <<up, probed, rows, messages>>
      BY <1>9, <2>1, <3>2 DEF Ingest
    <3>4. RowsMove(p, {}) /\ {} \in SUBSET Session
      BY <3>3, SameRowsMove DEF Types
    <3> QED BY <3>3, <3>4 DEF Moves, Logs
  <2>2. CASE record.session \notin Known(p)
    BY <1>9, <2>2 DEF Ingest, Stays
  <2> QED BY <2>1, <2>2
<1>10. CASE UNCHANGED telemetryVars
  BY <1>10 DEF telemetryVars, vars, memory, Stays
<1> QED BY <1>6, <1>7, <1>8, <1>9, <1>10 DEF TelemetryNext

\* What NewEvents and Push do, taken apart.
LEMMA Minted ==
  ASSUME Assumptions, Memory, NEW p \in Proc, NEW ss \in Seq(Session), NEW kind \in EventKind,
         Push(p, NewEvents(p, ss, kind))
  PROVE  \E evs \in Seq(Event) :
           /\ evs = NewEvents(p, ss, kind) /\ Len(evs) = Len(ss) /\ Len(ss) \in Nat
           /\ born \in Nat /\ born' = born + Len(ss) /\ born' \in 0 .. MaxBorn
           /\ events' = [events EXCEPT ![p] = events[p] \o evs]
           /\ \A j \in 1 .. Len(ss) :
                /\ evs[j].session = ss[j] /\ evs[j].id = born + j /\ evs[j].kind = kind
                /\ evs[j].idx = Count(events[p], ss[j]) + Before(ss, j)
<1>1. Len(ss) \in Nat /\ DOMAIN ss = 1 .. Len(ss) /\ born \in Nat /\ events[p] \in Seq(Event)
  BY LenProperties DEF Memory
<1>2. Len(NewEvents(p, ss, kind)) = Len(ss)
  <2> DEFINE e(j) == [session |-> ss[j], id |-> born + j, kind |-> kind,
                      idx |-> NextIdx(p, ss[j]) + Cardinality({i \in 1 .. j - 1 : ss[i] = ss[j]})]
  <2>1. NewEvents(p, ss, kind) = [j \in 1 .. Len(ss) |-> e(j)]
    BY <1>1 DEF NewEvents
  <2> HIDE DEF e
  <2> QED BY <1>1, <2>1
<1>3. /\ born + Len(ss) <= MaxBorn /\ born' = born + Len(ss)
      /\ events' = [events EXCEPT ![p] = events[p] \o NewEvents(p, ss, kind)]
  BY <1>2 DEF Push
<1>4. /\ NewEvents(p, ss, kind) \in Seq(Event)
      /\ \A j \in 1 .. Len(ss) :
           NewEvents(p, ss, kind)[j] = [session |-> ss[j], id |-> born + j, kind |-> kind,
                                        idx |-> Count(events[p], ss[j]) + Before(ss, j)]
  BY <1>1, <1>3, NewEventsAre DEF Assumptions
<1>5. PICK evs \in Seq(Event) : evs = NewEvents(p, ss, kind)
  BY <1>4
<1>6. \A j \in 1 .. Len(ss) :
        /\ evs[j].session = ss[j] /\ evs[j].id = born + j /\ evs[j].kind = kind
        /\ evs[j].idx = Count(events[p], ss[j]) + Before(ss, j)
  <2> TAKE j \in 1 .. Len(ss)
  <2>1. evs[j] = [session |-> ss[j], id |-> born + j, kind |-> kind,
                  idx |-> Count(events[p], ss[j]) + Before(ss, j)]
    BY <1>4, <1>5
  <2> QED BY <2>1
<1>7. born' \in 0 .. MaxBorn
  BY <1>1, <1>3 DEF Assumptions, MessagingAssumption
<1> QED BY <1>1, <1>2, <1>3, <1>5, <1>6, <1>7

LogsAs(p, S, e) ==
  /\ p \in up /\ RowsMove(p, S) /\ S \in SUBSET Session
  /\ e \in Event /\ e.kind # "mail" /\ e.id = born + 1 /\ e.idx = Count(events[p], e.session)
  /\ <<e>> \in Seq(Event)
  /\ born \in Nat /\ born' = born + 1 /\ born' \in 0 .. MaxBorn
  /\ events' = [events EXCEPT ![p] = events[p] \o <<e>>]
  /\ Written(p, S, <<e>>, << >>)
  /\ UNCHANGED <<up, probed, messages>>

\* A log event, its id, its idx and its write.
LEMMA LogsAre ==
  ASSUME Assumptions, Memory, NEW p \in Proc, NEW s \in Session, NEW kind \in EventKind \ {"mail"},
         NEW S \in SUBSET Session, p \in up, RowsMove(p, S), Push(p, NewEvents(p, <<s>>, kind)),
         Mirror(p, S, NewEvents(p, <<s>>, kind), << >>), UNCHANGED <<up, probed, messages>>
  PROVE  \E e \in Event : LogsAs(p, S, e) /\ e.session = s /\ e.kind = kind
<1>1. PICK ss \in Seq(Session) : ss = <<s>> /\ Len(ss) = 1 /\ ss[1] = s
  <2>1. <<s>> \in Seq(Session) /\ Len(<<s>>) = 1 /\ <<s>>[1] = s
    OBVIOUS
  <2> QED BY <2>1
<1>2. PICK evs \in Seq(Event) :
        /\ evs = NewEvents(p, ss, kind) /\ Len(evs) = Len(ss) /\ Len(ss) \in Nat
        /\ born \in Nat /\ born' = born + Len(ss) /\ born' \in 0 .. MaxBorn
        /\ events' = [events EXCEPT ![p] = events[p] \o evs]
        /\ \A j \in 1 .. Len(ss) :
             /\ evs[j].session = ss[j] /\ evs[j].id = born + j /\ evs[j].kind = kind
             /\ evs[j].idx = Count(events[p], ss[j]) + Before(ss, j)
  <2>1. Push(p, NewEvents(p, ss, kind)) /\ kind \in EventKind
    BY <1>1
  <2> QED BY <2>1, Minted
<1>3. Before(ss, 1) = 0
  <2>1. {i \in 1 .. 1 - 1 : ss[i] = ss[1]} = {}
    OBVIOUS
  <2> QED BY <2>1, FS_EmptySet, Zenon DEF Before
<1>4. Count(events[p], s) \in Nat
  BY CountIsNat DEF Memory
<1>5. evs[1] \in Event /\ evs = <<evs[1]>>
  BY <1>1, <1>2
<1>6. /\ evs[1].session = s /\ evs[1].id = born + 1 /\ evs[1].kind = kind
      /\ evs[1].idx = Count(events[p], s)
  BY <1>1, <1>2, <1>3, <1>4
<1>7. Written(p, S, evs, << >>)
  <2>1. << >> \in Seq(Message) /\ rows'[p] \in Rows
    BY EmptySeq DEF RowsMove
  <2>2. Mirror(p, S, evs, << >>)
    BY <1>1, <1>2
  <2> QED BY <2>1, <2>2, MirrorWrites
<1>8. PICK e \in Event : e = evs[1]
  BY <1>5
<1>9. LogsAs(p, S, e)
  BY <1>1, <1>2, <1>5, <1>6, <1>7, <1>8 DEF LogsAs
<1> QED BY <1>1, <1>6, <1>8, <1>9

PostsAs(p, ss, mails, new) ==
  /\ p \in up /\ ss \in Seq(Session)
  /\ mails \in Seq(Event) /\ Len(mails) = Len(ss) /\ Len(ss) \in Nat
  /\ \A j \in 1 .. Len(ss) :
       /\ mails[j].session = ss[j] /\ mails[j].id = born + j /\ mails[j].kind = "mail"
       /\ mails[j].idx = Count(events[p], ss[j]) + Before(ss, j)
  /\ new \in Seq(Message) /\ Len(new) = Len(ss)
  /\ \A j \in 1 .. Len(ss) :
       new[j].session = ss[j] /\ new[j].id = born + j /\ new[j].acked = Nobody
  /\ born \in Nat /\ born' = born + Len(ss) /\ born' \in 0 .. MaxBorn
  /\ events' = [events EXCEPT ![p] = events[p] \o mails]
  /\ messages' = [messages EXCEPT ![p] = messages[p] \o new]
  /\ Written(p, {}, mails, new) \/ (Unknown # {} /\ UNCHANGED <<disk, sinkFails>>)
  /\ UNCHANGED <<up, probed, rows>>

\* Messages and their mails: ids, idxs and writes.
LEMMA PostsAre ==
  ASSUME Assumptions, Memory, NEW p \in Proc, Posts(p)
  PROVE  \E ss, mails, new : PostsAs(p, ss, mails, new)
<1>1. PICK ss \in Seq(Session), to \in {"worker", "user", "manager"} :
        /\ p \in up /\ Push(p, NewEvents(p, ss, "mail"))
        /\ messages' = [messages EXCEPT ![p] = @ \o MessagesOf(NewEvents(p, ss, "mail"), to)]
        /\ \/ Mirror(p, {}, NewEvents(p, ss, "mail"), MessagesOf(NewEvents(p, ss, "mail"), to))
           \/ Unknown # {} /\ UNCHANGED <<disk, sinkFails>>
        /\ UNCHANGED <<up, probed, rows>>
  BY DEF Posts
<1>2. "mail" \in EventKind
  BY DEF EventKind
<1>3. PICK mails \in Seq(Event) :
        /\ mails = NewEvents(p, ss, "mail") /\ Len(mails) = Len(ss) /\ Len(ss) \in Nat
        /\ born \in Nat /\ born' = born + Len(ss) /\ born' \in 0 .. MaxBorn
        /\ events' = [events EXCEPT ![p] = events[p] \o mails]
        /\ \A j \in 1 .. Len(ss) :
             /\ mails[j].session = ss[j] /\ mails[j].id = born + j /\ mails[j].kind = "mail"
             /\ mails[j].idx = Count(events[p], ss[j]) + Before(ss, j)
  BY <1>1, <1>2, Minted
<1> DEFINE m(j) == [id |-> mails[j].id, session |-> mails[j].session, to |-> to, acked |-> Nobody]
           new  == MessagesOf(mails, to)
<1>4. DOMAIN mails = 1 .. Len(ss) /\ \A j \in 1 .. Len(ss) : mails[j] \in Event
  BY <1>3, LenProperties, ElementOfSeq
<1>5. new = [j \in 1 .. Len(ss) |-> m(j)]
  BY <1>4 DEF MessagesOf
<1>6. \A j \in 1 .. Len(ss) : /\ m(j) \in Message
                              /\ m(j).session = ss[j] /\ m(j).id = born + j /\ m(j).acked = Nobody
  BY <1>3, <1>4 DEF Event, Message
<1> HIDE DEF m, new
<1>7. /\ new \in Seq(Message) /\ Len(new) = Len(ss)
      /\ \A j \in 1 .. Len(ss) : new[j] = m(j)
  BY <1>3, <1>5, <1>6
<1>8. messages' = [messages EXCEPT ![p] = messages[p] \o new]
  BY <1>1, <1>3 DEF new
<1>9. Written(p, {}, mails, new) \/ (Unknown # {} /\ UNCHANGED <<disk, sinkFails>>)
  <2>1. Mirror(p, {}, mails, new) \/ (Unknown # {} /\ UNCHANGED <<disk, sinkFails>>)
    BY <1>1, <1>3 DEF new
  <2>2. {} \in SUBSET Session /\ rows'[p] \in Rows
    BY <1>1 DEF Memory
  <2> QED BY <1>7, <2>1, <2>2, MirrorWrites
<1>10. \A j \in 1 .. Len(ss) : new[j].session = ss[j] /\ new[j].id = born + j /\ new[j].acked = Nobody
  BY <1>6, <1>7
<1>11. PostsAs(p, ss, mails, new)
  BY <1>1, <1>3, <1>7, <1>8, <1>9, <1>10 DEF PostsAs
<1> QED BY <1>11

AcksAs(p, i, m) ==
  /\ p \in up /\ i \in 1 .. Len(messages[p]) /\ MayAck(p, messages[p][i])
  /\ messages[p][i] \in Message
  /\ m \in Message /\ <<m>> \in Seq(Message)
  /\ m = [messages[p][i] EXCEPT !.acked = IF messages[p][i].acked = Nobody THEN p
                                          ELSE messages[p][i].acked]
  /\ messages' = [messages EXCEPT ![p] = [messages[p] EXCEPT ![i] = m]]
  /\ Written(p, {}, << >>, <<m>>)
  /\ UNCHANGED <<up, probed, rows, events, born>>

\* A stamped message and its write.
LEMMA AcksAre ==
  ASSUME Assumptions, Memory, NEW p \in Proc, Acks(p)
  PROVE  \E i, m : AcksAs(p, i, m)
<1>1. PICK i \in DOMAIN messages[p] : Ack(p, i)
  BY DEF Acks
<1>2. messages \in [Proc -> Seq(Message)] /\ messages[p] \in Seq(Message)
  BY DEF Memory
<1>3. i \in 1 .. Len(messages[p]) /\ messages[p][i] \in Message
  BY <1>1, <1>2, LenProperties, ElementOfSeq
<1> DEFINE m == [messages[p][i] EXCEPT !.acked = IF messages[p][i].acked = Nobody THEN p
                                                  ELSE messages[p][i].acked]
<1>4. m \in Message
  BY <1>3 DEF Message
<1>5. messages' = [messages EXCEPT ![p] = [messages[p] EXCEPT ![i] = m]]
  BY <1>1, <1>2, <1>3 DEF Ack
<1> HIDE DEF m
<1>6. messages'[p] = [messages[p] EXCEPT ![i] = m] /\ messages'[p][i] = m
  <2>1. messages'[p] = [messages[p] EXCEPT ![i] = m]
    BY <1>2, <1>5
  <2> QED BY <1>2, <1>3, <2>1, LenProperties
<1>7. Written(p, {}, << >>, <<m>>)
  <2>1. Mirror(p, {}, << >>, <<m>>) /\ UNCHANGED rows
    BY <1>1, <1>6 DEF Ack
  <2>2. <<m>> \in Seq(Message) /\ << >> \in Seq(Event) /\ {} \in SUBSET Session /\ rows'[p] \in Rows
    BY <1>4, <2>1, EmptySeq DEF Memory
  <2> QED BY <2>1, <2>2, MirrorWrites
<1>8. /\ p \in up /\ MayAck(p, messages[p][i])
      /\ UNCHANGED <<up, probed, rows, events, born>>
  BY <1>1 DEF Ack
<1>9. <<m>> \in Seq(Message)
  BY <1>4
<1>10. AcksAs(p, i, m)
  BY <1>3, <1>4, <1>5, <1>7, <1>8, <1>9 DEF AcksAs, m
<1> QED BY <1>10

-----------------------------------------------------------------------------
\* Catalog and stamps keep their types.
LEMMA SeedType ==
  ASSUME NEW c \in [ToSet(CatalogTables) -> Nat], NEW n
  PROVE  Seed(c, n) \in [ToSet(CatalogTables) -> Nat]
<1>1. \A table \in ToSet(CatalogTables) : c[table] \in Nat /\ Reseeded(c[table], table) \in Nat
  BY DEF Reseeded
<1> QED BY <1>1 DEF Seed

\* A refresh stamps with a number that was not given out.
LEMMA StampType ==
  ASSUME MessagingAssumption, NEW stamps \in Probes, NEW E, NEW at \in 0 .. MaxBorn
  PROVE  Stamp(stamps, E, at) \in Probes
BY DEF Stamp, Probes

\* At first everything is empty, ...
LEMMA MemoryInit ==
  ASSUME Assumptions, Init
  PROVE  Memory
<1>1. NoRows \in Rows /\ NeverProbed \in Probes /\ Unseeded \in [ToSet(CatalogTables) -> Nat]
  BY DEF NoRows, Rows, NeverProbed, Probes, Unseeded, Assumptions, MessagingAssumption
<1>2. << >> \in Seq(Event) /\ << >> \in Seq(Message)
  BY EmptySeq
<1>3. disk \in Disks
  BY <1>1, <1>2 DEF Init, Disks
<1>4. born \in 0 .. MaxBorn /\ sinkFails \in 0 .. MaxSinkFails
  BY DEF Init, Assumptions, MessagingAssumption
<1> QED BY <1>1, <1>2, <1>3, <1>4 DEF Init, Memory

\* ... and every step keeps the types of memories and mirror, ...
LEMMA MemoryKept ==
  ASSUME Assumptions, Memory, Stays \/ \E p \in Proc : Moves(p)
  PROVE  Memory'
<1>1. /\ up \subseteq Proc /\ rows \in [Proc -> Rows] /\ events \in [Proc -> Seq(Event)]
      /\ messages \in [Proc -> Seq(Message)] /\ probed \in [Proc -> Probes] /\ disk \in Disks
      /\ born \in 0 .. MaxBorn /\ sinkFails \in 0 .. MaxSinkFails
      /\ \A p \in Proc \ up : events[p] = << >> /\ messages[p] = << >>
  BY DEF Memory
<1>2. /\ disk.rows \in Rows /\ disk.events \in Seq(Event) /\ disk.messages \in Seq(Message)
      /\ disk.probed \in Probes /\ disk.catalog \in [ToSet(CatalogTables) -> Nat]
  BY <1>1 DEF Disks
<1>3. MaxBorn \in Nat /\ MaxSinkFails \in Nat
  BY DEF Assumptions, MessagingAssumption
<1>4. ASSUME NEW c \in [ToSet(CatalogTables) -> Nat] PROVE [disk EXCEPT !.catalog = c] \in Disks
  BY <1>1 DEF Disks
<1>5. ASSUME NEW c \in Probes PROVE [disk EXCEPT !.probed = c] \in Disks
  BY <1>1 DEF Disks
<1>6. CASE Stays
  BY <1>1, <1>6 DEF Stays, Memory
<1>7. ASSUME NEW p \in Proc, Open(p) PROVE Memory'
  <2>1. Seed(disk.catalog, Len(CatalogTables)) \in [ToSet(CatalogTables) -> Nat]
    BY <1>2, SeedType
  <2>2. disk' \in Disks
    BY <1>4, <1>7, <2>1 DEF Open
  <2>3. /\ up' = up \cup {p} /\ rows' = [rows EXCEPT ![p] = disk.rows]
        /\ events' = [events EXCEPT ![p] = disk.events]
        /\ messages' = [messages EXCEPT ![p] = disk.messages]
        /\ probed' = [probed EXCEPT ![p] = disk.probed]
        /\ UNCHANGED <<born, sinkFails>>
    BY <1>7 DEF Open
  <2>4. /\ up' \subseteq Proc /\ rows' \in [Proc -> Rows] /\ events' \in [Proc -> Seq(Event)]
        /\ messages' \in [Proc -> Seq(Message)] /\ probed' \in [Proc -> Probes]
    BY <1>1, <1>2, <2>3
  <2>5. \A q \in Proc \ up' : events'[q] = << >> /\ messages'[q] = << >>
    BY <1>1, <2>3
  <2> QED BY <1>1, <2>2, <2>3, <2>4, <2>5 DEF Memory
<1>8. ASSUME NEW p \in Proc, OpenFails(p) PROVE Memory'
  <2>1. PICK n \in 0 .. Len(CatalogTables) - 1 : disk' = [disk EXCEPT !.catalog = Seed(@, n)]
    BY <1>8 DEF OpenFails
  <2>2. disk' = [disk EXCEPT !.catalog = Seed(disk.catalog, n)]
    BY <1>1, <2>1 DEF Disks
  <2>3. disk' \in Disks
    BY <1>2, <1>4, <2>2, SeedType
  <2>4. sinkFails' \in 0 .. MaxSinkFails
    BY <1>1, <1>3, <1>8 DEF OpenFails
  <2> QED BY <1>1, <1>8, <2>3, <2>4 DEF OpenFails, Memory, memory
<1>9. ASSUME NEW p \in Proc, Close(p) PROVE Memory'
  <2>1. NoRows \in Rows /\ NeverProbed \in Probes
    BY <1>3 DEF NoRows, Rows, NeverProbed, Probes
  <2>2. << >> \in Seq(Event) /\ << >> \in Seq(Message)
    BY EmptySeq
  <2>3. /\ up' = up \ {p} /\ rows' = [rows EXCEPT ![p] = NoRows]
        /\ events' = [events EXCEPT ![p] = << >>] /\ messages' = [messages EXCEPT ![p] = << >>]
        /\ probed' = [probed EXCEPT ![p] = NeverProbed]
        /\ UNCHANGED <<disk, born, sinkFails>>
    BY <1>9 DEF Close
  <2>4. /\ up' \subseteq Proc /\ rows' \in [Proc -> Rows] /\ events' \in [Proc -> Seq(Event)]
        /\ messages' \in [Proc -> Seq(Message)] /\ probed' \in [Proc -> Probes]
    BY <1>1, <2>1, <2>2, <2>3
  <2>5. \A q \in Proc \ up' : events'[q] = << >> /\ messages'[q] = << >>
    BY <1>1, <2>3
  <2> QED BY <1>1, <2>3, <2>4, <2>5 DEF Memory
<1>10. ASSUME NEW p \in Proc, Refreshes(p) PROVE Memory'
  <2>1. PICK E \in Refreshable : Refresh(p, E)
    BY <1>10 DEF Refreshes
  <2>2. born' \in 0 .. MaxBorn
    BY <1>1, <1>3, <2>1 DEF Refresh
  <2>3. Stamp(probed[p], E, born') \in Probes /\ Stamp(disk.probed, E, born') \in Probes
    BY <1>1, <1>2, <2>2, StampType DEF Assumptions
  <2>4. probed' \in [Proc -> Probes]
    <3>1. probed' = [probed EXCEPT ![p] = Stamp(probed[p], E, born')]
      BY <2>1 DEF Refresh
    <3> QED BY <1>1, <2>3, <3>1
  <2>5. disk' \in Disks
    <3>1. disk' = [disk EXCEPT !.probed = Stamp(disk.probed, E, born')] \/ disk' = disk
      BY <1>1, <2>1 DEF Refresh, Disks
    <3> QED BY <1>1, <1>5, <2>3, <3>1
  <2>6. sinkFails' \in 0 .. MaxSinkFails
    BY <1>1, <1>3, <2>1 DEF Refresh
  <2> QED BY <1>1, <2>1, <2>2, <2>4, <2>5, <2>6 DEF Memory, Refresh
<1>11. ASSUME NEW p \in Proc, Logs(p) PROVE Memory'
  <2>1. PICK S, e : LogsAs(p, S, e)
    BY <1>11, LogsAre DEF Logs
  <2>2. p \in up /\ <<e>> \in Seq(Event) /\ events' = [events EXCEPT ![p] = events[p] \o <<e>>]
    BY <2>1 DEF LogsAs
  <2>3. events[p] \o <<e>> \in Seq(Event)
    BY <1>1, <2>2, ConcatProperties
  <2>4. events' \in [Proc -> Seq(Event)] /\ \A q \in Proc \ up : events'[q] = << >>
    BY <1>1, <2>2, <2>3
  <2>5. rows' \in [Proc -> Rows] /\ disk' \in Disks /\ sinkFails' \in 0 .. MaxSinkFails
    BY <2>1 DEF LogsAs, RowsMove, Written
  <2> QED BY <1>1, <2>1, <2>4, <2>5 DEF LogsAs, Memory
<1>12. ASSUME NEW p \in Proc, Posts(p) PROVE Memory'
  <2>1. PICK ss, mails, new : PostsAs(p, ss, mails, new)
    BY <1>12, PostsAre
  <2>2. /\ p \in up /\ mails \in Seq(Event) /\ events' = [events EXCEPT ![p] = events[p] \o mails]
        /\ new \in Seq(Message) /\ messages' = [messages EXCEPT ![p] = messages[p] \o new]
    BY <2>1 DEF PostsAs
  <2>3. events[p] \o mails \in Seq(Event) /\ messages[p] \o new \in Seq(Message)
    BY <1>1, <2>2, ConcatProperties
  <2>4. /\ events' \in [Proc -> Seq(Event)] /\ messages' \in [Proc -> Seq(Message)]
        /\ \A q \in Proc \ up : events'[q] = << >> /\ messages'[q] = << >>
    BY <1>1, <2>2, <2>3
  <2>5. disk' \in Disks /\ sinkFails' \in 0 .. MaxSinkFails
    BY <1>1, <2>1 DEF PostsAs, Written
  <2> QED BY <1>1, <2>1, <2>4, <2>5 DEF PostsAs, Memory
<1>13. ASSUME NEW p \in Proc, Acks(p) PROVE Memory'
  <2>1. PICK i, m : AcksAs(p, i, m)
    BY <1>13, AcksAre
  <2>2. /\ p \in up /\ i \in 1 .. Len(messages[p]) /\ m \in Message
        /\ messages' = [messages EXCEPT ![p] = [messages[p] EXCEPT ![i] = m]]
    BY <2>1 DEF AcksAs
  <2>3. [messages[p] EXCEPT ![i] = m] \in Seq(Message)
    BY <1>1, <2>2, ExceptSeq
  <2>4. messages' \in [Proc -> Seq(Message)] /\ \A q \in Proc \ up : messages'[q] = << >>
    BY <1>1, <2>2, <2>3
  <2>5. disk' \in Disks /\ sinkFails' \in 0 .. MaxSinkFails
    BY <2>1 DEF AcksAs, Written
  <2> QED BY <1>1, <2>1, <2>4, <2>5 DEF AcksAs, Memory
<1> QED BY <1>6, <1>7, <1>8, <1>9, <1>10, <1>11, <1>12, <1>13 DEF Moves

\* A finite set has a sequence of its members.
LEMMA SetToSeqType ==
  ASSUME NEW S, IsFiniteSet(S)
  PROVE  SetToSeq(S) \in Seq(S)
<1>1. Cardinality(S) \in Nat /\ ExistsBijection(1 .. Cardinality(S), S)
  BY FS_CardinalityType
<1>2. \E f \in [1 .. Cardinality(S) -> S] : IsInjective(f)
  BY <1>1 DEF ExistsBijection, Bijection, Injection
<1>3. SetToSeq(S) \in [1 .. Cardinality(S) -> S]
  BY <1>2 DEF SetToSeq
<1> QED BY <1>1, <1>3

\* While a process is open it forgets no session.
LEMMA KnownGrows ==
  ASSUME Assumptions, Memory, Stays \/ (\E p \in Proc : Moves(p)), NEW q \in up
  PROVE  (q \in up' /\ Known(q) \subseteq Known(q)') \/ Close(q)
<1>1. up \subseteq Proc /\ rows \in [Proc -> Rows]
  BY DEF Memory
<1>2. ASSUME UNCHANGED <<up, rows>> PROVE q \in up' /\ Known(q) \subseteq Known(q)'
  BY <1>2 DEF Known
<1>3. CASE Stays
  BY <1>2, <1>3 DEF Stays
<1>4. ASSUME NEW p \in Proc, Open(p) PROVE q \in up' /\ Known(q) \subseteq Known(q)'
  <2>1. p # q /\ rows'[q] = rows[q] /\ q \in up'
    BY <1>1, <1>4 DEF Open
  <2> QED BY <2>1 DEF Known
<1>5. ASSUME NEW p \in Proc, Close(p), p # q PROVE q \in up' /\ Known(q) \subseteq Known(q)'
  <2>1. rows'[q] = rows[q] /\ q \in up'
    BY <1>1, <1>5 DEF Close
  <2> QED BY <2>1 DEF Known
<1>6. ASSUME NEW p \in Proc, OpenFails(p) \/ Refreshes(p) PROVE UNCHANGED <<up, rows>>
  BY <1>6 DEF OpenFails, Refreshes, Refresh, memory
<1>7. ASSUME NEW p \in Proc, Posts(p) PROVE UNCHANGED <<up, rows>>
  BY <1>7 DEF Posts
<1>8. ASSUME NEW p \in Proc, Acks(p) PROVE UNCHANGED <<up, rows>>
  BY <1>8 DEF Acks, Ack
<1>9. ASSUME NEW p \in Proc, Logs(p) PROVE q \in up' /\ Known(q) \subseteq Known(q)'
  <2>1. PICK S \in SUBSET Session : RowsMove(p, S) /\ UNCHANGED up
    BY <1>9 DEF Logs
  <2>2. \A s \in Session : rows[q][s] # "none" => rows'[q][s] # "none"
    BY <1>1, <2>1 DEF RowsMove
  <2> QED BY <2>1, <2>2 DEF Known
<1> QED BY <1>2, <1>3, <1>4, <1>5, <1>6, <1>7, <1>8, <1>9 DEF Moves

\* ... of sends between their two lock sections, ...
LEMMA SendsKept ==
  ASSUME Assumptions, Types, [TelemetryNext]_telemetryVars
  PROVE  Sends'
<1> DEFINE Target(to, anchors) == [to |-> to, anchors |-> anchors]
<1>1. /\ sending \in [Proc -> [to : {"none", "worker", "user"}, anchors : Seq(Session \cup Unknown)]]
      /\ \A p \in Proc : \/ sending[p] = Idle
                         \/ /\ p \in up /\ sending[p].to \in {"worker", "user"}
                            /\ sending[p].anchors \in Seq(Known(p) \cup Unknown)
  BY DEF Types, Sends
<1>2. Stays \/ \E p \in Proc : Moves(p)
  BY Steps
<1>3. \A q \in up : (q \in up' /\ Known(q) \subseteq Known(q)') \/ Close(q)
  BY <1>2, KnownGrows DEF Types
<1>4. Idle \in [to : {"none", "worker", "user"}, anchors : Seq(Session \cup Unknown)]
  BY EmptySeq DEF Idle
<1>5. ASSUME NEW q \in Proc, sending'[q] = sending[q], ~Close(q)
      PROVE  \/ sending'[q] = Idle
             \/ /\ q \in up' /\ sending'[q].to \in {"worker", "user"}
                /\ sending'[q].anchors \in Seq(Known(q)' \cup Unknown)
  <2>1. CASE sending[q] = Idle
    BY <1>5, <2>1
  <2>2. CASE sending[q] # Idle
    <3>1. q \in up /\ sending[q].to \in {"worker", "user"} /\ sending[q].anchors \in Seq(Known(q) \cup Unknown)
      BY <1>1, <2>2
    <3>2. q \in up' /\ Known(q) \cup Unknown \subseteq Known(q)' \cup Unknown
      BY <1>3, <1>5, <3>1
    <3>3. sending[q].anchors \in Seq(Known(q)' \cup Unknown)
      BY <3>1, <3>2, SeqMonotonic
    <3> QED BY <1>5, <3>1, <3>2, <3>3
  <2> QED BY <2>1, <2>2
<1>6. ASSUME NEW p \in Proc, Close(p) \/ Mint(p) PROVE Sends'
  <2>1. sending' = [sending EXCEPT ![p] = Idle]
    BY <1>6 DEF Close, Mint
  <2>2. sending' \in [Proc -> [to : {"none", "worker", "user"}, anchors : Seq(Session \cup Unknown)]]
    BY <1>1, <1>4, <2>1
  <2>3. ASSUME NEW q \in Proc, q # p
        PROVE  \/ sending'[q] = Idle
               \/ /\ q \in up' /\ sending'[q].to \in {"worker", "user"}
                  /\ sending'[q].anchors \in Seq(Known(q)' \cup Unknown)
    <3>1. sending'[q] = sending[q]
      BY <1>1, <2>1, <2>3
    <3>2. CASE ~Close(q)
      BY <1>5, <3>1, <3>2
    <3>3. CASE Close(q)
      <4>1. sending' = [sending EXCEPT ![q] = Idle]
        BY <3>3 DEF Close
      <4> QED BY <1>1, <4>1
    <3> QED BY <3>2, <3>3
  <2>4. sending'[p] = Idle
    BY <1>1, <2>1
  <2> QED BY <2>2, <2>3, <2>4 DEF Sends
<1>7. ASSUME NEW p \in Proc, Resolve(p) PROVE Sends'
  <2> DEFINE K == Known(p) \cup Unknown
  <2>1. /\ p \in up /\ UNCHANGED <<up, rows>>
        /\ \E target \in
             {[to |-> "user", anchors |-> <<s>>] : s \in K}
               \cup {[to |-> "worker", anchors |-> ss] : ss \in BoundedSeq(K, 2) \ {<< >>}}
               \cup {[to |-> "worker",
                      anchors |-> SetToSeq({s \in Tagged : rows[p][s] = "live"})]} :
             sending' = [sending EXCEPT ![p] = target]
    BY <1>7 DEF Resolve, Managers, memory
  <2>2. BoundedSeq(K, 2) \subseteq Seq(K)
    <3>1. ASSUME NEW ss \in BoundedSeq(K, 2) PROVE ss \in Seq(K)
      <4>1. PICK m \in 0 .. 2 : ss \in [1 .. m -> K]
        BY <3>1 DEF BoundedSeq, SeqOf
      <4> QED BY <4>1
    <3> QED BY <3>1
  <2>3. SetToSeq({s \in Tagged : rows[p][s] = "live"}) \in Seq(K)
    <3> DEFINE L == {s \in Tagged : rows[p][s] = "live"}
    <3>1. L \subseteq Session /\ L \subseteq K
      BY DEF Known, Assumptions, MessagingAssumption
    <3>2. IsFiniteSet(L)
      BY <3>1, FS_Subset DEF Assumptions, MessagingAssumption
    <3> HIDE DEF L, K
    <3>3. SetToSeq(L) \in Seq(K)
      BY <3>1, <3>2, SetToSeqType, SeqMonotonic
    <3> QED BY <3>3 DEF L
  <2>4. \A s \in K : <<s>> \in Seq(K)
    OBVIOUS
  <2> HIDE DEF K
  <2>5. PICK to \in {"worker", "user"}, ss \in Seq(K) : sending' = [sending EXCEPT ![p] = Target(to, ss)]
    BY <2>1, <2>2, <2>3, <2>4
  <2>6. Known(p)' = Known(p)
    BY <2>1 DEF Known
  <2>7. ss \in Seq(Session \cup Unknown)
    <3>1. K \subseteq Session \cup Unknown
      BY DEF K, Known
    <3> QED BY <3>1, SeqMonotonic
  <2>8. sending' \in [Proc -> [to : {"none", "worker", "user"}, anchors : Seq(Session \cup Unknown)]]
    BY <1>1, <2>5, <2>7
  <2>9. sending'[p] = Target(to, ss) /\ \A q \in Proc \ {p} : sending'[q] = sending[q]
    BY <1>1, <2>5
  <2>10. sending'[p].to \in {"worker", "user"} /\ sending'[p].anchors \in Seq(Known(p)' \cup Unknown)
    BY <2>6, <2>9 DEF K
  <2>11. ASSUME NEW q \in Proc \ {p}
         PROVE  \/ sending'[q] = Idle
                \/ /\ q \in up' /\ sending'[q].to \in {"worker", "user"}
                   /\ sending'[q].anchors \in Seq(Known(q)' \cup Unknown)
    <3>1. Known(q)' = Known(q)
      BY <2>1 DEF Known
    <3> QED BY <1>1, <2>1, <2>9, <3>1
  <2> QED BY <2>1, <2>8, <2>10, <2>11 DEF Sends
<1>8. ASSUME UNCHANGED sending, \A p \in Proc : ~Close(p)
      PROVE  Sends'
  <2>1. \A q \in Proc : \/ sending'[q] = Idle
                        \/ /\ q \in up' /\ sending'[q].to \in {"worker", "user"}
                           /\ sending'[q].anchors \in Seq(Known(q)' \cup Unknown)
    BY <1>5, <1>8
  <2> QED BY <1>1, <1>8, <2>1 DEF Sends
<1>9. (\E p \in Proc : Close(p) \/ Mint(p) \/ Resolve(p)) \/ UNCHANGED sending
  <2>1. ASSUME NEW p \in Proc,
               \/ Open(p) \/ OpenFails(p)
               \/ \E E \in Refreshable : Refresh(p, E)
               \/ \E s \in Session : Dispatch(p, s) \/ End(p, s) \/ Observe(p, s)
               \/ WorkerSend(p)
               \/ \E i \in DOMAIN messages[p] : Ack(p, i)
        PROVE  UNCHANGED sending
    BY <2>1 DEF Open, OpenFails, Refresh, Dispatch, End, Observe, WorkerSend, Ack
  <2>2. ASSUME NEW p \in Proc,
               (\E export \in Exports : Request(p, export)) \/ Ingest(p) \/ Respond(p)
        PROVE  UNCHANGED sending
    BY <2>2 DEF Request, Ingest, Respond, vars
  <2>3. CASE Next
    BY <2>1, <2>3 DEF Next
  <2>4. CASE UNCHANGED telemetryVars
    BY <2>4 DEF telemetryVars, vars
  <2> QED BY <2>2, <2>3, <2>4 DEF TelemetryNext
<1> QED BY <1>6, <1>7, <1>8, <1>9

\* ... and of receivers.
LEMMA ReceiversKept ==
  ASSUME Assumptions, Types, [TelemetryNext]_telemetryVars
  PROVE  Receivers'
<1> DEFINE Serving == [busy : BOOLEAN, left : Seq(Arrived), body : Seq(Resource)]
<1>1. /\ serving \in [Proc -> Serving] /\ owed \in [Session -> [EventKind -> Nat]]
      /\ \A p \in Proc \ up : serving[p] = NoRequest
  BY DEF Types, Receivers
<1>2. NoRequest \in Serving
  BY EmptySeq DEF NoRequest
<1>3. CASE Next /\ serving' = [p \in Proc |-> IF p \in up' THEN serving[p] ELSE NoRequest] /\ UNCHANGED owed
  BY <1>1, <1>2, <1>3 DEF Receivers
<1>4. ASSUME NEW p \in Proc, NEW export \in Exports, Request(p, export) PROVE Receivers'
  <2>1. export \in Seq(Resource)
    BY ExportsAreRead DEF Assumptions
  <2>2. ParseLogsExport(export) \in Seq(Arrived)
    BY <2>1, ParsedIs DEF Assumptions
  <2>3. /\ p \in up /\ UNCHANGED <<up, owed>>
        /\ serving' = [serving EXCEPT ![p] = [busy |-> TRUE, left |-> ParseLogsExport(export), body |-> export]]
    BY <1>4 DEF Request, Supervisor, vars
  <2>4. serving' \in [Proc -> Serving] /\ \A q \in Proc \ up : serving'[q] = NoRequest
    BY <1>1, <2>1, <2>2, <2>3
  <2> QED BY <1>1, <2>3, <2>4 DEF Receivers
<1>5. ASSUME NEW p \in Proc, Ingest(p) PROVE Receivers'
  <2>1. /\ p \in up /\ serving[p].left # << >> /\ UNCHANGED <<up, owed>>
        /\ serving' = [serving EXCEPT ![p].left = Tail(@)]
    BY <1>5 DEF Ingest
  <2>2. serving[p] \in Serving
    BY <1>1
  <2>3. Tail(serving[p].left) \in Seq(Arrived)
    BY <2>1, <2>2, HeadTailProperties
  <2>4. serving' = [serving EXCEPT ![p] = [serving[p] EXCEPT !.left = Tail(serving[p].left)]]
    BY <1>1, <2>1, <2>2
  <2>5. [serving[p] EXCEPT !.left = Tail(serving[p].left)] \in Serving
    BY <2>2, <2>3
  <2>6. serving' \in [Proc -> Serving] /\ \A q \in Proc \ up : serving'[q] = NoRequest
    BY <1>1, <2>1, <2>4, <2>5
  <2> QED BY <1>1, <2>1, <2>6 DEF Receivers
<1>6. ASSUME NEW p \in Proc, Respond(p) PROVE Receivers'
  <2>1. /\ UNCHANGED up /\ serving' = [serving EXCEPT ![p] = NoRequest]
        /\ owed' = [s \in Session |-> [kind \in EventKind |->
                      owed[s][kind] + Delivered(serving[p].body, s, kind)]]
    BY <1>6 DEF Respond, vars
  <2>2. ASSUME NEW s, NEW kind PROVE Delivered(serving[p].body, s, kind) \in Nat
    <3>1. serving[p].body \in Seq(Resource)
      BY <1>1
    <3> QED BY <3>1, DeliveredCounts DEF Assumptions
  <2>3. owed' \in [Session -> [EventKind -> Nat]]
    BY <1>1, <2>1, <2>2
  <2>4. serving' \in [Proc -> Serving] /\ \A q \in Proc \ up : serving'[q] = NoRequest
    BY <1>1, <1>2, <2>1
  <2> QED BY <2>1, <2>3, <2>4 DEF Receivers
<1>7. CASE UNCHANGED telemetryVars
  BY <1>1, <1>7 DEF telemetryVars, vars, Receivers
<1> QED BY <1>3, <1>4, <1>5, <1>6, <1>7 DEF TelemetryNext

\* All of them are kept, ...
LEMMA TypesKept ==
  ASSUME Assumptions, Types, [TelemetryNext]_telemetryVars
  PROVE  Types'
<1>1. Memory'
  BY Steps, MemoryKept DEF Types
<1> QED BY <1>1, SendsKept, ReceiversKept DEF Types

\* ... from the start.
LEMMA TypesInit ==
  ASSUME Assumptions, TelemetryInit
  PROVE  Types
<1>1. Memory
  BY MemoryInit DEF TelemetryInit
<1>2. Sends
  <2>1. Idle \in [to : {"none", "worker", "user"}, anchors : Seq(Session \cup Unknown)]
    BY EmptySeq DEF Idle
  <2> QED BY <2>1 DEF TelemetryInit, Init, Sends
<1>3. Receivers
  <2>1. NoRequest \in [busy : BOOLEAN, left : Seq(Arrived), body : Seq(Resource)]
    BY EmptySeq DEF NoRequest
  <2> QED BY <2>1 DEF TelemetryInit, Receivers
<1> QED BY <1>1, <1>2, <1>3 DEF Types

-----------------------------------------------------------------------------
(***************************************************************************)
(* Worker-role servers: a stamp of theirs, once there, goes with its       *)
(* message into the mirror, into the next process's memory, and back.      *)
(***************************************************************************)
Own(m) == m.acked # Nobody /\ Bound[m.acked] # NoSession => m.to = "worker" /\ m.session = Bound[m.acked]

OwnMessages == {m \in Message : Own(m)}

OwnInv == messages \in [Proc -> Seq(OwnMessages)] /\ disk.messages \in Seq(OwnMessages)

\* Rows that are written keep the mirror's messages as they have to be.
LEMMA OwnWritten ==
  ASSUME OwnInv, NEW p, NEW S, NEW evs, NEW msgs \in Seq(OwnMessages), Written(p, S, evs, msgs)
  PROVE  disk'.messages \in Seq(OwnMessages)
<1>1. disk'.messages \in {disk.messages, Upsert(disk.messages, msgs, MessageKey)}
  BY DEF Written
<1>2. disk.messages \in Seq(OwnMessages)
  BY DEF OwnInv
<1>3. Upsert(disk.messages, msgs, MessageKey) \in Seq(OwnMessages)
  BY <1>2, UpsertRows
<1> QED BY <1>1, <1>2, <1>3

\* Every step does: an ack stamps with its own process, after MayAck.
LEMMA OwnKept ==
  ASSUME Assumptions, Types, OwnInv, [TelemetryNext]_telemetryVars
  PROVE  OwnInv'
<1>1. messages \in [Proc -> Seq(OwnMessages)] /\ disk.messages \in Seq(OwnMessages)
  BY DEF OwnInv
<1>2. Memory /\ (Stays \/ \E p \in Proc : Moves(p))
  BY Steps DEF Types
<1>3. << >> \in Seq(OwnMessages)
  BY EmptySeq
<1>4. CASE Stays
  BY <1>4, <1>1 DEF Stays, OwnInv
<1>5. ASSUME NEW p \in Proc, Open(p) PROVE OwnInv'
  <2>1. disk'.messages = disk.messages /\ messages' = [messages EXCEPT ![p] = disk.messages]
    BY <1>2, <1>5 DEF Open, Memory, Disks
  <2> QED BY <1>1, <2>1 DEF OwnInv
<1>6. ASSUME NEW p \in Proc, OpenFails(p) \/ Refreshes(p) PROVE OwnInv'
  <2>1. disk'.messages = disk.messages /\ messages' = messages
    BY <1>2, <1>6 DEF OpenFails, Refreshes, Refresh, Memory, Disks, memory
  <2> QED BY <1>1, <2>1 DEF OwnInv
<1>7. ASSUME NEW p \in Proc, Close(p) PROVE OwnInv'
  <2>1. disk' = disk /\ messages' = [messages EXCEPT ![p] = << >>]
    BY <1>7 DEF Close
  <2> QED BY <1>1, <1>3, <2>1 DEF OwnInv
<1>8. ASSUME NEW p \in Proc, Logs(p) PROVE OwnInv'
  <2>1. PICK S, e : LogsAs(p, S, e)
    BY <1>2, <1>8, LogsAre DEF Logs
  <2>2. Written(p, S, <<e>>, << >>) /\ messages' = messages
    BY <2>1 DEF LogsAs
  <2>3. disk'.messages \in Seq(OwnMessages)
    BY <1>3, <2>2, OwnWritten
  <2> QED BY <1>1, <2>2, <2>3 DEF OwnInv
<1>9. ASSUME NEW p \in Proc, Posts(p) PROVE OwnInv'
  <2>1. PICK ss, mails, new : PostsAs(p, ss, mails, new)
    BY <1>2, <1>9, PostsAre
  <2>2. /\ Len(ss) \in Nat /\ new \in Seq(Message) /\ Len(new) = Len(ss)
        /\ \A j \in 1 .. Len(ss) : new[j].acked = Nobody
        /\ messages' = [messages EXCEPT ![p] = messages[p] \o new]
        /\ Written(p, {}, mails, new) \/ disk' = disk
    BY <2>1 DEF PostsAs
  <2>3. new \in Seq(OwnMessages)
    <3>1. \A j \in 1 .. Len(new) : new[j] \in OwnMessages
      BY <2>2, ElementOfSeq DEF OwnMessages, Own
    <3>2. new = [j \in 1 .. Len(new) |-> new[j]] /\ Len(new) \in Nat
      BY <2>2, LenProperties
    <3> QED BY <3>1, <3>2
  <2>4. disk'.messages \in Seq(OwnMessages)
    BY <1>1, <2>2, <2>3, OwnWritten
  <2>5. messages[p] \o new \in Seq(OwnMessages)
    BY <1>1, <2>3, ConcatProperties
  <2> QED BY <1>1, <2>2, <2>4, <2>5 DEF OwnInv
<1>10. ASSUME NEW p \in Proc, Acks(p) PROVE OwnInv'
  <2>1. PICK i, m : AcksAs(p, i, m)
    BY <1>2, <1>10, AcksAre
  <2>2. /\ i \in 1 .. Len(messages[p]) /\ MayAck(p, messages[p][i]) /\ m \in Message
        /\ messages[p][i] \in Message
        /\ m = [messages[p][i] EXCEPT !.acked = IF messages[p][i].acked = Nobody THEN p
                                                ELSE messages[p][i].acked]
        /\ messages' = [messages EXCEPT ![p] = [messages[p] EXCEPT ![i] = m]]
        /\ Written(p, {}, << >>, <<m>>)
    BY <2>1 DEF AcksAs
  <2>3. messages[p] \in Seq(OwnMessages) /\ messages[p][i] \in OwnMessages
    BY <1>1, <2>2, ElementOfSeq
  <2>4. m \in OwnMessages
    <3>1. /\ m.session = messages[p][i].session /\ m.to = messages[p][i].to
          /\ m.acked = IF messages[p][i].acked = Nobody THEN p ELSE messages[p][i].acked
      BY <2>2 DEF Message
    <3>2. CASE messages[p][i].acked = Nobody
      <4>1. CASE Managers(p, "ack")
        <5>1. Bound[p] = NoSession
          BY <4>1 DEF Managers, Supervisor, WorkerHint
        <5> QED BY <2>2, <3>1, <3>2, <5>1 DEF OwnMessages, Own
      <4>2. CASE Bound[p] = messages[p][i].session /\ messages[p][i].to = "worker"
        BY <2>2, <3>1, <3>2, <4>2 DEF OwnMessages, Own
      <4> QED BY <2>2, <4>1, <4>2 DEF MayAck
    <3>3. CASE messages[p][i].acked # Nobody
      BY <2>2, <2>3, <3>1, <3>3 DEF OwnMessages, Own
    <3> QED BY <3>2, <3>3
  <2>5. <<m>> \in Seq(OwnMessages)
    BY <2>4
  <2>6. disk'.messages \in Seq(OwnMessages)
    BY <2>2, <2>5, OwnWritten
  <2>7. [messages[p] EXCEPT ![i] = m] \in Seq(OwnMessages)
    BY <2>2, <2>3, <2>4, ExceptSeq
  <2> QED BY <1>1, <2>2, <2>6, <2>7 DEF OwnInv
<1> QED BY <1>2, <1>4, <1>5, <1>6, <1>7, <1>8, <1>9, <1>10 DEF Moves

\* A worker-role server stamps only messages to the worker of its own session
\* (worker_ack), however many processes share the mirror, whatever fails, and
\* though a stamp outlives its process in the mirror and in other memories.
THEOREM OwnInbox == TelemetrySpec => []OwnInboxOnly
<1>1. TelemetryInit => Types /\ OwnInv
  <2>1. ASSUME TelemetryInit PROVE OwnInv
    <3>1. << >> \in Seq(OwnMessages)
      BY EmptySeq
    <3> QED BY <2>1, <3>1 DEF TelemetryInit, Init, OwnInv
  <2> QED BY <2>1, TypesInit, AssumptionsHold
<1>2. Types /\ OwnInv /\ [TelemetryNext]_telemetryVars => (Types /\ OwnInv)'
  BY TypesKept, OwnKept, AssumptionsHold
<1>3. Types /\ OwnInv => OwnInboxOnly
  <2> SUFFICES ASSUME Types, OwnInv, NEW p \in up, NEW i \in DOMAIN messages[p]
               PROVE  Own(messages[p][i])
    BY DEF OwnInboxOnly, Own
  <2>1. p \in Proc
    BY DEF Types, Memory
  <2>2. messages[p] \in Seq(OwnMessages)
    BY <2>1 DEF OwnInv
  <2>3. messages[p][i] \in OwnMessages
    BY <2>2, LenProperties, ElementOfSeq
  <2> QED BY <2>3 DEF OwnMessages
<1> QED BY <1>1, <1>2, <1>3, PTL DEF TelemetrySpec

\* Memories, mirror, sends and receivers keep their types.
THEOREM MessagingTypes == TelemetrySpec => []TypeOK
<1>1. TelemetryInit => Types
  BY TypesInit, AssumptionsHold
<1>2. Types /\ [TelemetryNext]_telemetryVars => Types'
  BY TypesKept, AssumptionsHold
<1>3. Types => TypeOK
  BY DEF Types, Memory, Sends, Disks, TypeOK
<1> QED BY <1>1, <1>2, <1>3, PTL DEF TelemetrySpec

-----------------------------------------------------------------------------
(***************************************************************************)
(* Acks, when one process at a time has the mirror open: its memory knows  *)
(* every stamp that the mirror has.                                        *)
(***************************************************************************)
Unique(ms)        == \A i, j \in 1 .. Len(ms) : ms[i].id = ms[j].id => i = j
Past(ms, n)       == \A i \in 1 .. Len(ms) : ms[i].id <= n
Agrees(ms, table) == \A i \in 1 .. Len(ms), j \in 1 .. Len(table) :
                       ms[i].id = table[j].id /\ table[j].acked # Nobody => ms[i] = table[j]
KeepsAcks(table, then) ==
  \A i \in 1 .. Len(table) :
    /\ i \in 1 .. Len(then) /\ then[i].id = table[i].id
    /\ table[i].acked # Nobody => then[i] = table[i]

\* The ids of new messages follow those there were; nobody has stamped them.
FreshIds(new, n) == \A j \in 1 .. Len(new) : new[j].id = n + j
Unstamped(new)   == \A j \in 1 .. Len(new) : new[j].acked = Nobody

\* Messages are told apart by their id.
LEMMA SameMessage == \A x, y : Same(x, y, MessageKey) <=> x.id = y.id
BY DEF Same, MessageKey

\* Ids are numbers.
LEMMA IdsAreNumbers ==
  ASSUME Assumptions, NEW ms \in Seq(Message)
  PROVE  Len(ms) \in Nat /\ \A i \in 1 .. Len(ms) : ms[i] \in Message /\ ms[i].id \in Nat
<1>1. MaxBorn \in Nat
  BY DEF Assumptions, MessagingAssumption
<1>2. \A m \in Message : m.id \in Nat
  BY <1>1 DEF Message
<1> QED BY <1>2, LenProperties, ElementOfSeq

\* A sequence and its continuation.
Joins(s, new, all) ==
  /\ Len(all) = Len(s) + Len(new)
  /\ \A i \in 1 .. Len(s) : i \in 1 .. Len(all) /\ all[i] = s[i]
  /\ \A i \in 1 .. Len(all) :
       i \notin 1 .. Len(s) => i - Len(s) \in 1 .. Len(new) /\ all[i] = new[i - Len(s)]

\* Concatenation joins two sequences.
LEMMA ConcatJoins ==
  ASSUME NEW S, NEW s \in Seq(S), NEW new \in Seq(S)
  PROVE  s \o new \in Seq(S) /\ Joins(s, new, s \o new)
<1> DEFINE all == s \o new
<1>1. /\ Len(s) \in Nat /\ Len(new) \in Nat /\ all \in Seq(S) /\ Len(all) = Len(s) + Len(new)
      /\ \A i \in 1 .. Len(s) + Len(new) : all[i] = IF i <= Len(s) THEN s[i] ELSE new[i - Len(s)]
  BY ConcatProperties, LenProperties
<1> HIDE DEF all
<1>2. \A i \in 1 .. Len(s) : i \in 1 .. Len(all) /\ all[i] = s[i]
  BY <1>1
<1>3. \A i \in 1 .. Len(all) : i \notin 1 .. Len(s) => i - Len(s) \in 1 .. Len(new) /\ all[i] = new[i - Len(s)]
  BY <1>1
<1>4. all \in Seq(S) /\ Joins(s, new, all)
  BY <1>1, <1>2, <1>3 DEF Joins
<1> QED BY <1>4 DEF all

\* New messages have new ids, and move none that was there.
LEMMA AppendedIds ==
  ASSUME Assumptions, NEW ms \in Seq(Message), NEW new \in Seq(Message), NEW n \in Nat,
         Unique(ms), Past(ms, n), FreshIds(new, n)
  PROVE  Unique(ms \o new) /\ Past(ms \o new, n + Len(new)) /\ KeepsAcks(ms, ms \o new)
<1>0. PICK all \in Seq(Message) : all = ms \o new /\ Joins(ms, new, all)
  BY ConcatJoins
<1>1. /\ all = ms \o new
      /\ \A i \in 1 .. Len(ms) : i \in 1 .. Len(all) /\ all[i] = ms[i]
      /\ \A i \in 1 .. Len(all) :
           i \notin 1 .. Len(ms) => i - Len(ms) \in 1 .. Len(new) /\ all[i] = new[i - Len(ms)]
  BY <1>0 DEF Joins
<1>2. /\ Len(ms) \in Nat /\ Len(new) \in Nat /\ Len(all) \in Nat
      /\ \A i \in 1 .. Len(ms) : ms[i].id \in Nat
  BY IdsAreNumbers
<1>3. \A i \in 1 .. Len(ms) : all[i].id \in Nat /\ all[i].id <= n
  BY <1>1, <1>2 DEF Past
<1>4. \A i \in 1 .. Len(all) :
        i \notin 1 .. Len(ms) => /\ i - Len(ms) \in 1 .. Len(new)
                                 /\ all[i].id = n + (i - Len(ms))
  BY <1>1 DEF FreshIds
<1>5. Unique(all)
  <2> SUFFICES ASSUME NEW i \in 1 .. Len(all), NEW j \in 1 .. Len(all), all[i].id = all[j].id PROVE i = j
    BY DEF Unique
  <2>1. CASE i \in 1 .. Len(ms) /\ j \in 1 .. Len(ms)
    <3>1. ms[i].id = ms[j].id
      BY <1>1, <2>1
    <3> QED BY <2>1, <3>1 DEF Unique
  <2>2. CASE i \in 1 .. Len(ms) /\ j \notin 1 .. Len(ms)
    <3>1. all[i].id <= n /\ all[j].id = n + (j - Len(ms)) /\ j - Len(ms) \in 1 .. Len(new)
      BY <1>3, <1>4, <2>2
    <3>2. all[j].id > n
      BY <1>2, <3>1
    <3> QED BY <1>3, <2>2, <3>1, <3>2
  <2>3. CASE i \notin 1 .. Len(ms) /\ j \in 1 .. Len(ms)
    <3>1. all[j].id <= n /\ all[i].id = n + (i - Len(ms)) /\ i - Len(ms) \in 1 .. Len(new)
      BY <1>3, <1>4, <2>3
    <3>2. all[i].id > n
      BY <1>2, <3>1
    <3> QED BY <1>3, <2>3, <3>1, <3>2
  <2>4. CASE i \notin 1 .. Len(ms) /\ j \notin 1 .. Len(ms)
    <3>1. all[i].id = n + (i - Len(ms)) /\ all[j].id = n + (j - Len(ms))
      BY <1>4, <2>4
    <3>2. n + (i - Len(ms)) = n + (j - Len(ms))
      BY <3>1
    <3>3. i \in Int /\ j \in Int /\ Len(ms) \in Int /\ n \in Int
      BY <1>2
    <3> QED BY <3>2, <3>3
  <2> QED BY <2>1, <2>2, <2>3, <2>4
<1>6. Past(all, n + Len(new))
  <2> SUFFICES ASSUME NEW i \in 1 .. Len(all) PROVE all[i].id <= n + Len(new)
    BY DEF Past
  <2>1. CASE i \in 1 .. Len(ms)
    BY <1>2, <1>3, <2>1
  <2>2. CASE i \notin 1 .. Len(ms)
    <3>1. i - Len(ms) \in 1 .. Len(new) /\ all[i].id = n + (i - Len(ms))
      BY <1>4, <2>2
    <3> QED BY <1>2, <3>1
  <2> QED BY <2>1, <2>2
<1>7. KeepsAcks(ms, all)
  BY <1>1 DEF KeepsAcks
<1> QED BY <1>1, <1>5, <1>6, <1>7

\* New messages, in the memory and, unless they could not be written, in the mirror.
LEMMA PostedTables ==
  ASSUME Assumptions, NEW ms \in Seq(Message), NEW table \in Seq(Message), NEW new \in Seq(Message),
         NEW n \in Nat, Past(ms, n), Past(table, n), Agrees(ms, table), FreshIds(new, n), Unstamped(new)
  PROVE  /\ Upsert(table, new, MessageKey) = table \o new
         /\ Agrees(ms \o new, table) /\ Agrees(ms \o new, table \o new)
<1>1. /\ Len(ms) \in Nat /\ Len(table) \in Nat /\ Len(new) \in Nat
      /\ \A i \in 1 .. Len(table) : table[i].id <= n /\ table[i].id \in Nat
  BY IdsAreNumbers DEF Past
<1>2. \A j \in 1 .. Len(new) : new[j].id = n + j /\ new[j].id > n /\ new[j].acked = Nobody
  BY <1>1 DEF FreshIds, Unstamped
<1>3. Upsert(table, new, MessageKey) = table \o new
  <2>1. \A i \in 1 .. Len(table), j \in 1 .. Len(new) : new[j].id # table[i].id
    BY <1>1, <1>2
  <2>2. Apart(table, new, MessageKey)
    BY <2>1, SameMessage DEF Apart
  <2> QED BY <2>2, UpsertFresh
<1>4. PICK all \in Seq(Message) : all = ms \o new /\ Joins(ms, new, all)
  BY ConcatJoins
<1>5. PICK u \in Seq(Message) : u = table \o new /\ Joins(table, new, u)
  BY ConcatJoins
<1>6. ASSUME NEW i \in 1 .. Len(all), NEW j \in 1 .. Len(table), all[i].id = table[j].id, table[j].acked # Nobody
      PROVE  all[i] = table[j]
  <2>1. CASE i \in 1 .. Len(ms)
    BY <1>4, <1>6, <2>1 DEF Agrees, Joins
  <2>2. CASE i \notin 1 .. Len(ms)
    <3>1. all[i].id > n
      BY <1>2, <1>4, <2>2 DEF Joins
    <3> QED BY <1>1, <1>6, <3>1
  <2> QED BY <2>1, <2>2
<1>7. ASSUME NEW i \in 1 .. Len(all), NEW j \in 1 .. Len(u), all[i].id = u[j].id, u[j].acked # Nobody
      PROVE  all[i] = u[j]
  <2>1. CASE j \in 1 .. Len(table)
    BY <1>5, <1>6, <1>7, <2>1 DEF Joins
  <2>2. CASE j \notin 1 .. Len(table)
    BY <1>2, <1>5, <1>7, <2>2 DEF Joins
  <2> QED BY <2>1, <2>2
<1>8. Agrees(all, table) /\ Agrees(all, u)
  BY <1>6, <1>7 DEF Agrees
<1> QED BY <1>3, <1>4, <1>5, <1>8

\* One message of a sequence changed, which keeps its id.
Changed(ms, i, m, then) ==
  /\ then \in Seq(Message) /\ Len(then) = Len(ms)
  /\ \A k \in 1 .. Len(ms) : then[k] = (IF k = i THEN m ELSE ms[k]) /\ then[k].id = ms[k].id

\* EXCEPT changes one message, ...
LEMMA ChangedIs ==
  ASSUME NEW ms \in Seq(Message), NEW i \in 1 .. Len(ms), NEW m \in Message, m.id = ms[i].id
  PROVE  Changed(ms, i, m, [ms EXCEPT ![i] = m])
<1>1. [ms EXCEPT ![i] = m] \in Seq(Message) /\ Len([ms EXCEPT ![i] = m]) = Len(ms)
  BY ExceptSeq
<1>2. \A k \in 1 .. Len(ms) : [ms EXCEPT ![i] = m][k] = IF k = i THEN m ELSE ms[k]
  BY ExceptSeq
<1> QED BY <1>1, <1>2 DEF Changed

\* ... and no id.
LEMMA ChangedIds ==
  ASSUME NEW ms \in Seq(Message), NEW i, NEW m, NEW n, NEW then, Changed(ms, i, m, then), Unique(ms), Past(ms, n)
  PROVE  Unique(then) /\ Past(then, n)
<1>1. Unique(then)
  BY DEF Changed, Unique
<1> QED BY <1>1 DEF Changed, Past

\* What a stamped message may replace in a table that has it.
Stamped(ms, i, m) == i \in 1 .. Len(ms) /\ m.id = ms[i].id /\ (ms[i].acked # Nobody => m = ms[i])

\* A message stamped in a memory agrees with the mirror it is not in yet, ...
LEMMA StampedAgrees ==
  ASSUME NEW ms \in Seq(Message), NEW table \in Seq(Message), Agrees(ms, table),
         NEW i, NEW m \in Message, Stamped(ms, i, m), NEW then, Changed(ms, i, m, then)
  PROVE  Agrees(then, table)
<1> SUFFICES ASSUME NEW k \in 1 .. Len(ms), NEW j \in 1 .. Len(table),
                    then[k].id = table[j].id, table[j].acked # Nobody
             PROVE  then[k] = table[j]
  BY DEF Changed, Agrees
<1>1. then[k] = (IF k = i THEN m ELSE ms[k]) /\ then[k].id = ms[k].id
  BY DEF Changed
<1>2. ms[k] = table[j]
  BY <1>1 DEF Agrees
<1>3. CASE k = i
  BY <1>1, <1>2, <1>3 DEF Stamped
<1> QED BY <1>1, <1>2, <1>3

\* ... with the mirror in which it takes the place of the row it had, ...
LEMMA ReplacedAgrees ==
  ASSUME NEW ms \in Seq(Message), NEW table \in Seq(Message), Agrees(ms, table), Unique(ms),
         NEW i, NEW m \in Message, Stamped(ms, i, m), NEW then, Changed(ms, i, m, then),
         NEW k \in 1 .. Len(table), table[k].id = m.id, NEW u, Changed(table, k, m, u)
  PROVE  Agrees(then, u) /\ KeepsAcks(table, u)
<1>1. Agrees(then, u)
  <2> SUFFICES ASSUME NEW j \in 1 .. Len(ms), NEW l \in 1 .. Len(table), then[j].id = u[l].id, u[l].acked # Nobody
               PROVE  then[j] = u[l]
    BY DEF Changed, Agrees
  <2>1. /\ then[j] = (IF j = i THEN m ELSE ms[j]) /\ then[j].id = ms[j].id
        /\ u[l] = (IF l = k THEN m ELSE table[l]) /\ u[l].id = table[l].id
    BY DEF Changed
  <2>2. CASE l = k
    <3>1. ms[j].id = ms[i].id /\ i \in 1 .. Len(ms)
      BY <2>1, <2>2 DEF Stamped
    <3>2. j = i
      BY <3>1 DEF Unique
    <3> QED BY <2>1, <2>2, <3>2
  <2>3. CASE l # k
    <3>1. u[l] = table[l] /\ table[l].acked # Nobody /\ then[j].id = table[l].id
      BY <2>1, <2>3
    <3>2. Agrees(then, table)
      BY StampedAgrees
    <3>3. Len(then) = Len(ms)
      BY DEF Changed
    <3> QED BY <3>1, <3>2, <3>3 DEF Agrees
  <2> QED BY <2>2, <2>3
<1>2. KeepsAcks(table, u)
  <2>1. table[k].acked # Nobody => m = table[k]
    <3>1. table[k].acked # Nobody => ms[i] = table[k]
      BY DEF Agrees, Stamped
    <3> QED BY <3>1 DEF Stamped
  <2> QED BY <2>1 DEF Changed, KeepsAcks
<1> QED BY <1>1, <1>2

\* ... and with the mirror to which it is appended.
LEMMA AppendedAgrees ==
  ASSUME Assumptions, NEW ms \in Seq(Message), NEW table \in Seq(Message), NEW n \in Nat,
         Agrees(ms, table), Unique(ms), Unique(table), Past(ms, n), Past(table, n),
         NEW i, NEW m \in Message, Stamped(ms, i, m), NEW then, Changed(ms, i, m, then),
         \A k \in 1 .. Len(table) : table[k].id # m.id
  PROVE  /\ Agrees(then, table \o <<m>>) /\ KeepsAcks(table, table \o <<m>>)
         /\ Unique(table \o <<m>>) /\ Past(table \o <<m>>, n)
<1>1. <<m>> \in Seq(Message) /\ Len(<<m>>) = 1 /\ <<m>>[1] = m
  OBVIOUS
<1>2. PICK u \in Seq(Message) :
        /\ u = table \o <<m>>
        /\ \A j \in 1 .. Len(table) : j \in 1 .. Len(u) /\ u[j] = table[j]
        /\ \A j \in 1 .. Len(u) : j \notin 1 .. Len(table) => u[j] = m /\ j = Len(table) + 1
  <2>1. PICK new \in Seq(Message) : new = <<m>> /\ Len(new) = 1 /\ new[1] = m
    BY <1>1
  <2>2. PICK u \in Seq(Message) : u = table \o new /\ Joins(table, new, u)
    BY ConcatJoins
  <2>3. Len(table) \in Nat
    BY LenProperties
  <2>4. ASSUME NEW j \in 1 .. Len(u), j \notin 1 .. Len(table) PROVE u[j] = m /\ j = Len(table) + 1
    <3>1. j - Len(table) \in 1 .. 1 /\ u[j] = new[j - Len(table)] /\ j \in Int
      BY <2>1, <2>2, <2>4 DEF Joins
    <3>2. j - Len(table) = 1
      BY <3>1
    <3> QED BY <2>1, <2>3, <3>1, <3>2
  <2> QED BY <2>1, <2>2, <2>4 DEF Joins
<1>3. Unique(u)
  <2> SUFFICES ASSUME NEW j \in 1 .. Len(u), NEW l \in 1 .. Len(u), u[j].id = u[l].id PROVE j = l
    BY DEF Unique
  <2>1. CASE j \in 1 .. Len(table) /\ l \in 1 .. Len(table)
    BY <1>2, <2>1 DEF Unique
  <2> QED BY <1>2, <2>1
<1>4. Past(u, n)
  <2>1. m.id <= n
    BY DEF Past, Stamped
  <2> QED BY <1>2, <2>1 DEF Past
<1>5. KeepsAcks(table, u)
  BY <1>2 DEF KeepsAcks
<1>6. Agrees(then, u)
  <2> SUFFICES ASSUME NEW j \in 1 .. Len(ms), NEW l \in 1 .. Len(u), then[j].id = u[l].id, u[l].acked # Nobody
               PROVE  then[j] = u[l]
    BY DEF Changed, Agrees
  <2>1. then[j] = (IF j = i THEN m ELSE ms[j]) /\ then[j].id = ms[j].id
    BY DEF Changed
  <2>2. CASE l \notin 1 .. Len(table)
    <3>1. ms[j].id = ms[i].id /\ i \in 1 .. Len(ms)
      BY <1>2, <2>1, <2>2 DEF Stamped
    <3>2. j = i
      BY <3>1 DEF Unique
    <3> QED BY <1>2, <2>1, <2>2, <3>2
  <2>3. CASE l \in 1 .. Len(table)
    <3>1. Agrees(then, table)
      BY StampedAgrees
    <3>2. Len(then) = Len(ms)
      BY DEF Changed
    <3>3. u[l] = table[l]
      BY <1>2, <2>3
    <3> QED BY <2>3, <3>1, <3>2, <3>3 DEF Agrees
  <2> QED BY <2>2, <2>3
<1> QED BY <1>2, <1>3, <1>4, <1>5, <1>6

\* Messages each with an id of its own, of those given out so far.
Sound(ms, n) == Unique(ms) /\ Past(ms, n)

\* All that messages sent do to a memory and a mirror that agree, ...
LEMMA PostedSound ==
  ASSUME Assumptions, NEW ms \in Seq(Message), NEW table \in Seq(Message), NEW new \in Seq(Message),
         NEW n \in Nat, Sound(ms, n), Sound(table, n), Agrees(ms, table), FreshIds(new, n), Unstamped(new)
  PROVE  /\ Sound(ms \o new, n + Len(new)) /\ Sound(table, n + Len(new))
         /\ Agrees(ms \o new, table) /\ KeepsAcks(table, table)
         /\ Upsert(table, new, MessageKey) = table \o new
         /\ Sound(table \o new, n + Len(new))
         /\ Agrees(ms \o new, table \o new) /\ KeepsAcks(table, table \o new)
<1>1. Unique(ms) /\ Unique(table) /\ Past(ms, n) /\ Past(table, n)
  BY DEF Sound
<1>2. Unique(ms \o new) /\ Past(ms \o new, n + Len(new))
  BY <1>1, AppendedIds
<1>3. Unique(table \o new) /\ Past(table \o new, n + Len(new)) /\ KeepsAcks(table, table \o new)
  BY <1>1, AppendedIds
<1>4. /\ Upsert(table, new, MessageKey) = table \o new
      /\ Agrees(ms \o new, table) /\ Agrees(ms \o new, table \o new)
  BY <1>1, PostedTables
<1>5. Past(table, n + Len(new))
  <2>1. Len(new) \in Nat /\ \A i \in 1 .. Len(table) : table[i].id \in Nat
    BY IdsAreNumbers
  <2> QED BY <1>1, <2>1 DEF Past
<1>6. KeepsAcks(table, table)
  BY DEF KeepsAcks
<1> QED BY <1>1, <1>2, <1>3, <1>4, <1>5, <1>6 DEF Sound

\* ... and all that a stamp does, whether or not its row was stored before.
LEMMA AckedSound ==
  ASSUME Assumptions, NEW ms \in Seq(Message), NEW table \in Seq(Message), NEW n \in Nat,
         Sound(ms, n), Sound(table, n), Agrees(ms, table),
         NEW i \in 1 .. Len(ms), NEW m \in Message, Stamped(ms, i, m)
  PROVE  /\ Sound([ms EXCEPT ![i] = m], n) /\ Agrees([ms EXCEPT ![i] = m], table)
         /\ KeepsAcks(table, table)
         /\ Sound(Upsert(table, <<m>>, MessageKey), n)
         /\ Agrees([ms EXCEPT ![i] = m], Upsert(table, <<m>>, MessageKey))
         /\ KeepsAcks(table, Upsert(table, <<m>>, MessageKey))
<1>1. Unique(ms) /\ Unique(table) /\ Past(ms, n) /\ Past(table, n) /\ m.id = ms[i].id
  BY DEF Sound, Stamped
<1>2. PICK then : then = [ms EXCEPT ![i] = m] /\ Changed(ms, i, m, then)
  BY <1>1, ChangedIs
<1>3. Unique(then) /\ Past(then, n)
  BY <1>1, <1>2, ChangedIds
<1>4. Agrees(then, table)
  BY <1>2, StampedAgrees
<1>5. KeepsAcks(table, table)
  BY DEF KeepsAcks
<1>6. CASE \E k \in 1 .. Len(table) : table[k].id = m.id
  <2>1. PICK k \in 1 .. Len(table) : table[k].id = m.id
    BY <1>6
  <2>2. PICK u : u = [table EXCEPT ![k] = m] /\ Changed(table, k, m, u)
    BY <2>1, ChangedIs
  <2>3. Unique(u) /\ Past(u, n)
    BY <1>1, <2>2, ChangedIds
  <2>4. Agrees(then, u) /\ KeepsAcks(table, u)
    BY <1>1, <1>2, <2>1, <2>2, ReplacedAgrees
  <2>5. Only(table, k, m, MessageKey)
    BY <1>1, <2>1, SameMessage DEF Only, Unique
  <2>6. Upsert(table, <<m>>, MessageKey) = u
    BY <2>2, <2>5, UpsertReplaces
  <2> QED BY <1>2, <1>3, <1>4, <1>5, <2>3, <2>4, <2>6 DEF Sound
<1>7. CASE \A k \in 1 .. Len(table) : table[k].id # m.id
  <2>1. PICK new \in Seq(Message) : new = <<m>> /\ Len(new) = 1 /\ new[1] = m
    <3>1. <<m>> \in Seq(Message) /\ Len(<<m>>) = 1 /\ <<m>>[1] = m
      OBVIOUS
    <3> QED BY <3>1
  <2>2. Apart(table, new, MessageKey)
    BY <1>7, <2>1, SameMessage DEF Apart
  <2>3. Upsert(table, <<m>>, MessageKey) = table \o <<m>>
    BY <2>1, <2>2, UpsertFresh
  <2>4. PICK u : u = table \o <<m>>
    OBVIOUS
  <2>5. /\ Agrees(then, table \o <<m>>) /\ KeepsAcks(table, table \o <<m>>)
        /\ Unique(table \o <<m>>) /\ Past(table \o <<m>>, n)
    BY <1>1, <1>2, <1>7, AppendedAgrees
  <2>6. Agrees(then, u) /\ KeepsAcks(table, u) /\ Unique(u) /\ Past(u, n) /\ Upsert(table, <<m>>, MessageKey) = u
    BY <2>3, <2>4, <2>5
  <2> QED BY <1>2, <1>3, <1>4, <1>5, <2>6 DEF Sound
<1> QED BY <1>6, <1>7

OneOpen == \A p, q \in up : p = q

AckInv ==
  /\ OneOpen
  /\ Sound(disk.messages, born)
  /\ \A p \in up : Sound(messages[p], born) /\ Agrees(messages[p], disk.messages)

\* A process opens only when none is.
LEMMA OpensAlone ==
  ASSUME Assumptions, Memory, OneOpen, Cardinality(up) < 1
  PROVE  up = {}
<1>1. CASE \E p \in up : TRUE
  <2>1. PICK p \in up : up = {p}
    BY <1>1 DEF OneOpen
  <2>2. Cardinality({p}) = 1
    BY FS_Singleton
  <2> QED BY <2>1, <2>2
<1> QED BY <1>1

\* What a step must leave when it changes messages of the one process that is open.
LEMMA AckInvIs ==
  ASSUME Memory, Memory', OneOpen, UNCHANGED up, NEW p \in up,
         Sound(messages[p], born)', Sound(disk.messages, born)', Agrees(messages[p], disk.messages)'
  PROVE  AckInv'
<1>1. \A q \in up' : q = p
  BY DEF OneOpen
<1> QED BY <1>1 DEF AckInv, OneOpen

\* Every step keeps the two in agreement, and the stored stamps.
LEMMA AckKept ==
  ASSUME Assumptions, MaxOpen = 1, Memory, Memory', AckInv, Stays \/ \E p \in Proc : Moves(p)
  PROVE  AckInv' /\ KeepsAcks(disk.messages, disk'.messages)
<1>1. /\ up \subseteq Proc /\ messages \in [Proc -> Seq(Message)] /\ disk.messages \in Seq(Message)
      /\ born \in Nat /\ disk \in Disks
  BY DEF Memory, Disks, Assumptions, MessagingAssumption
<1>2. /\ OneOpen /\ Sound(disk.messages, born)
      /\ \A p \in up : Sound(messages[p], born) /\ Agrees(messages[p], disk.messages)
  BY DEF AckInv
<1>3. KeepsAcks(disk.messages, disk.messages)
  BY DEF KeepsAcks
<1>4. ASSUME disk'.messages = disk.messages, born' = born,
             \A p \in up' : p \in up /\ messages'[p] = messages[p]
      PROVE  AckInv' /\ KeepsAcks(disk.messages, disk'.messages)
  BY <1>2, <1>3, <1>4 DEF AckInv, OneOpen
<1>5. CASE Stays
  BY <1>4, <1>5 DEF Stays
<1>6. ASSUME NEW p \in Proc, Open(p)
      PROVE  AckInv' /\ KeepsAcks(disk.messages, disk'.messages)
  <2>1. /\ up = {} /\ up' = up \cup {p} /\ messages' = [messages EXCEPT ![p] = disk.messages]
        /\ disk' = [disk EXCEPT !.catalog = Seed(@, Len(CatalogTables))] /\ born' = born
    BY <1>2, <1>6, OpensAlone DEF Open
  <2>2. disk'.messages = disk.messages /\ up' = {p} /\ messages'[p] = disk.messages
    BY <1>1, <2>1 DEF Disks
  <2>3. Agrees(disk.messages, disk.messages)
    BY <1>2 DEF Sound, Unique, Agrees
  <2> QED BY <1>2, <1>3, <2>1, <2>2, <2>3 DEF AckInv, OneOpen
<1>7. ASSUME NEW p \in Proc, OpenFails(p)
      PROVE  AckInv' /\ KeepsAcks(disk.messages, disk'.messages)
  <2>1. /\ \E n \in 0 .. Len(CatalogTables) - 1 : disk' = [disk EXCEPT !.catalog = Seed(@, n)]
        /\ UNCHANGED <<up, messages, born>>
    BY <1>7 DEF OpenFails, memory
  <2>2. disk'.messages = disk.messages
    BY <1>1, <2>1 DEF Disks
  <2> QED BY <1>4, <2>1, <2>2
<1>8. ASSUME NEW p \in Proc, Close(p)
      PROVE  AckInv' /\ KeepsAcks(disk.messages, disk'.messages)
  <2>1. up' = up \ {p} /\ messages' = [messages EXCEPT ![p] = << >>] /\ UNCHANGED <<disk, born>>
    BY <1>8 DEF Close
  <2>2. \A q \in up' : q \in up /\ messages'[q] = messages[q]
    BY <1>1, <2>1
  <2> QED BY <1>4, <2>1, <2>2
<1>9. ASSUME NEW p \in Proc, Refreshes(p)
      PROVE  AckInv' /\ KeepsAcks(disk.messages, disk'.messages)
  <2>1. PICK E : Refresh(p, E)
    BY <1>9 DEF Refreshes
  <2>2. UNCHANGED <<up, messages>> /\ born' = born + 1
    BY <2>1 DEF Refresh
  <2>3. disk'.messages = disk.messages
    BY <1>1, <2>1 DEF Refresh, Disks
  <2>4. \A ms \in Seq(Message) : Sound(ms, born) => Sound(ms, born + 1)
    <3> SUFFICES ASSUME NEW ms \in Seq(Message), Past(ms, born) PROVE Past(ms, born + 1)
      BY DEF Sound
    <3>1. \A i \in 1 .. Len(ms) : ms[i].id \in Nat
      BY IdsAreNumbers
    <3> QED BY <1>1, <3>1 DEF Past
  <2> QED BY <1>1, <1>2, <1>3, <2>2, <2>3, <2>4 DEF AckInv, OneOpen
<1>10. ASSUME NEW p \in Proc, Logs(p)
       PROVE  AckInv' /\ KeepsAcks(disk.messages, disk'.messages)
  <2>1. PICK S, e : LogsAs(p, S, e)
    BY <1>10, LogsAre DEF Logs
  <2>2. /\ UNCHANGED <<up, messages>> /\ born' = born + 1
        /\ disk'.messages \in {disk.messages, Upsert(disk.messages, << >>, MessageKey)}
    BY <2>1 DEF LogsAs, Written
  <2>3. Upsert(disk.messages, << >>, MessageKey) = disk.messages
    <3>1. << >> \in Seq(Message) /\ Apart(disk.messages, << >>, MessageKey)
      BY EmptySeq DEF Apart
    <3>2. Upsert(disk.messages, << >>, MessageKey) = disk.messages \o << >>
      BY <1>1, <3>1, UpsertFresh
    <3> QED BY <1>1, <3>2, ConcatEmptySeq
  <2>4. \A ms \in Seq(Message) : Sound(ms, born) => Sound(ms, born + 1)
    <3> SUFFICES ASSUME NEW ms \in Seq(Message), Past(ms, born) PROVE Past(ms, born + 1)
      BY DEF Sound
    <3>1. \A i \in 1 .. Len(ms) : ms[i].id \in Nat
      BY IdsAreNumbers
    <3> QED BY <1>1, <3>1 DEF Past
  <2>5. disk'.messages = disk.messages
    BY <2>2, <2>3
  <2> QED BY <1>1, <1>2, <1>3, <2>2, <2>4, <2>5 DEF AckInv, OneOpen
<1>11. ASSUME NEW p \in Proc, Posts(p)
       PROVE  AckInv' /\ KeepsAcks(disk.messages, disk'.messages)
  <2>1. PICK ss, mails, new : PostsAs(p, ss, mails, new)
    BY <1>11, PostsAre
  <2>2. /\ p \in up /\ UNCHANGED up /\ new \in Seq(Message) /\ born' = born + Len(new)
        /\ messages' = [messages EXCEPT ![p] = messages[p] \o new]
        /\ disk'.messages \in {disk.messages, Upsert(disk.messages, new, MessageKey)}
    BY <2>1 DEF PostsAs, Written
  <2>3. FreshIds(new, born) /\ Unstamped(new)
    BY <2>1 DEF PostsAs, FreshIds, Unstamped
  <2>4. PICK ms \in Seq(Message), table \in Seq(Message), n \in Nat :
          ms = messages[p] /\ table = disk.messages /\ n = born
    BY <1>1
  <2>5. Sound(ms, n) /\ Sound(table, n) /\ Agrees(ms, table) /\ FreshIds(new, n)
    BY <1>2, <2>2, <2>3, <2>4
  <2>6. /\ Sound(ms \o new, n + Len(new)) /\ Sound(table, n + Len(new))
        /\ Agrees(ms \o new, table) /\ KeepsAcks(table, table)
        /\ Upsert(table, new, MessageKey) = table \o new
        /\ Sound(table \o new, n + Len(new))
        /\ Agrees(ms \o new, table \o new) /\ KeepsAcks(table, table \o new)
    BY <2>2, <2>3, <2>5, PostedSound
  <2>7. messages'[p] = ms \o new /\ disk'.messages \in {table, table \o new} /\ born' = n + Len(new)
    BY <1>1, <2>2, <2>4, <2>6
  <2>8. /\ Sound(messages[p], born)' /\ Sound(disk.messages, born)'
        /\ Agrees(messages[p], disk.messages)' /\ KeepsAcks(disk.messages, disk'.messages)
    BY <2>4, <2>6, <2>7
  <2> QED BY <1>2, <2>2, <2>8, AckInvIs
<1>12. ASSUME NEW p \in Proc, Acks(p)
       PROVE  AckInv' /\ KeepsAcks(disk.messages, disk'.messages)
  <2>1. PICK i, m : AcksAs(p, i, m)
    BY <1>12, AcksAre
  <2>2. /\ p \in up /\ UNCHANGED up /\ m \in Message /\ i \in 1 .. Len(messages[p])
        /\ messages' = [messages EXCEPT ![p] = [messages[p] EXCEPT ![i] = m]] /\ born' = born
        /\ disk'.messages \in {disk.messages, Upsert(disk.messages, <<m>>, MessageKey)}
    BY <2>1 DEF AcksAs, Written
  <2>3. Stamped(messages[p], i, m)
    BY <2>1 DEF AcksAs, Stamped, Message
  <2>4. PICK ms \in Seq(Message), table \in Seq(Message), n \in Nat :
          ms = messages[p] /\ table = disk.messages /\ n = born
    BY <1>1, <2>2
  <2>5. Sound(ms, n) /\ Sound(table, n) /\ Agrees(ms, table) /\ Stamped(ms, i, m) /\ i \in 1 .. Len(ms)
    BY <1>2, <2>2, <2>3, <2>4
  <2>6. PICK then, u : then = [ms EXCEPT ![i] = m] /\ u = Upsert(table, <<m>>, MessageKey)
    OBVIOUS
  <2>7. /\ Sound(then, n) /\ Agrees(then, table) /\ KeepsAcks(table, table)
        /\ Sound(u, n) /\ Agrees(then, u) /\ KeepsAcks(table, u)
    BY <2>2, <2>5, <2>6, AckedSound
  <2>8. messages'[p] = then /\ disk'.messages \in {table, u} /\ born' = n
    BY <1>1, <2>2, <2>4, <2>6
  <2>9. /\ Sound(messages[p], born)' /\ Sound(disk.messages, born)'
        /\ Agrees(messages[p], disk.messages)' /\ KeepsAcks(disk.messages, disk'.messages)
    BY <2>4, <2>5, <2>7, <2>8
  <2> QED BY <1>2, <2>2, <2>9, AckInvIs
<1> QED BY <1>5, <1>6, <1>7, <1>8, <1>9, <1>10, <1>11, <1>12 DEF Moves

\* While one process at a time has the mirror open, a stored ack keeps its first
\* stamp: ack never stamps again (engine.ack), the process's memory has every
\* stamp there is, and no later message takes its row; whatever writes fail.
THEOREM FirstAckStays == ASSUME MaxOpen = 1 PROVE TelemetrySpec => AckOnce
<1>1. TelemetryInit => Types /\ AckInv
  <2>1. ASSUME TelemetryInit PROVE AckInv
    <3>1. Len(<< >>) = 0
      BY EmptySeq
    <3> QED BY <2>1, <3>1 DEF TelemetryInit, Init, AckInv, OneOpen, Sound, Unique, Past
  <2> QED BY <2>1, TypesInit, AssumptionsHold
<1>2. Types /\ AckInv /\ [TelemetryNext]_telemetryVars =>
        (Types /\ AckInv)' /\ KeepsAcks(disk.messages, disk'.messages)
  <2> SUFFICES ASSUME Types, AckInv, [TelemetryNext]_telemetryVars
               PROVE  (Types /\ AckInv)' /\ KeepsAcks(disk.messages, disk'.messages)
    OBVIOUS
  <2>1. Types'
    BY TypesKept, AssumptionsHold
  <2>2. Stays \/ \E p \in Proc : Moves(p)
    BY Steps, AssumptionsHold
  <2> QED BY <2>1, <2>2, AckKept, AssumptionsHold DEF Types
<1>3. Types /\ Types' /\ KeepsAcks(disk.messages, disk'.messages) =>
        [\A i \in DOMAIN disk.messages :
           /\ i \in DOMAIN disk'.messages
           /\ disk'.messages[i].id = disk.messages[i].id
           /\ disk.messages[i].acked # Nobody => disk'.messages[i] = disk.messages[i]]_disk
  <2> SUFFICES ASSUME Types, Types', KeepsAcks(disk.messages, disk'.messages)
               PROVE  \A i \in DOMAIN disk.messages :
                        /\ i \in DOMAIN disk'.messages
                        /\ disk'.messages[i].id = disk.messages[i].id
                        /\ disk.messages[i].acked # Nobody => disk'.messages[i] = disk.messages[i]
    OBVIOUS
  <2>1. disk.messages \in Seq(Message) /\ disk'.messages \in Seq(Message)
    BY DEF Types, Memory, Disks
  <2>2. DOMAIN disk.messages = 1 .. Len(disk.messages) /\ DOMAIN disk'.messages = 1 .. Len(disk'.messages)
    BY <2>1, LenProperties
  <2> QED BY <2>2 DEF KeepsAcks
<1> QED BY <1>1, <1>2, <1>3, PTL DEF TelemetrySpec, AckOnce

-----------------------------------------------------------------------------
(***************************************************************************)
(* The mirror and the memory, when one process at a time has the mirror    *)
(* open, no write failed and every anchor is known.                        *)
(***************************************************************************)
\* Every seed leaves each row of the catalog once.
LEMMA SeedsOnce ==
  ASSUME NEW c
  PROVE  Seed(c, Len(CatalogTables)) = SeededOnce
<1>1. /\ Len(CatalogTables) = 6 /\ DOMAIN CatalogTables = 1 .. 6
      /\ CatalogTables[1] = "agents" /\ CatalogTables[2] = "models" /\ CatalogTables[3] = "environments"
      /\ CatalogTables[4] = "capabilities" /\ CatalogTables[5] = "env_capabilities"
      /\ CatalogTables[6] = "offerings"
  BY DEF CatalogTables
<1>2. ASSUME NEW i \in 1 .. 6 PROVE Reseeded(c[CatalogTables[i]], CatalogTables[i]) = 1
  <2>1. i = 1 \/ i = 2 \/ i = 3 \/ i = 4 \/ i = 5 \/ i = 6
    OBVIOUS
  <2>2. CatalogKey[CatalogTables[i]] \subseteq SeedColumns[CatalogTables[i]]
    BY <1>1, <2>1 DEF CatalogKey, SeedColumns
  <2> QED BY <2>2 DEF Reseeded
<1>3. \A table \in ToSet(CatalogTables) :
        \E i \in 1 .. Len(CatalogTables) : CatalogTables[i] = table /\ Reseeded(c[table], table) = 1
  BY <1>1, <1>2 DEF ToSet
<1> QED BY <1>3 DEF Seed, SeededOnce

\* Nothing to write.
LEMMA UpsertNothing ==
  ASSUME NEW S, NEW table \in Seq(S), NEW key
  PROVE  Upsert(table, << >>, key) = table
<1>1. << >> \in Seq(S) /\ Apart(table, << >>, key)
  BY EmptySeq DEF Apart
<1>2. Upsert(table, << >>, key) = table \o << >>
  BY <1>1, UpsertFresh
<1> QED BY <1>2, ConcatEmptySeq

\* Each event's idx is below the number of its session's events, so that number is
\* free; new events are numbered from there.
Dense(es) == \A i \in 1 .. Len(es) : es[i].idx < Count(es, es[i].session)

Numbered(es, ss, new) ==
  /\ Len(new) = Len(ss)
  /\ \A j \in 1 .. Len(ss) : new[j].session = ss[j] /\ new[j].idx = Count(es, ss[j]) + Before(ss, j)

\* Events are told apart by their session and idx.
LEMMA SameEvent ==
  \A x, y : Same(x, y, EventKey) <=> x.session = y.session /\ x.idx = y.idx
BY DEF Same, EventKey

\* Numbered events are appended: none takes the place of another.
LEMMA NumberedEvents ==
  ASSUME NEW es \in Seq(Event), NEW new \in Seq(Event), NEW ss, Dense(es), Numbered(es, ss, new)
  PROVE  Upsert(es, new, EventKey) = es \o new /\ Dense(es \o new)
<1>1. /\ Len(es) \in Nat /\ Len(new) \in Nat
      /\ \A i \in 1 .. Len(es) : es[i].idx \in Nat
      /\ \A s : Count(es, s) \in Nat
  <2>1. ASSUME NEW i \in 1 .. Len(es) PROVE es[i].idx \in Nat
    <3>1. es[i] \in Event
      BY ElementOfSeq
    <3> QED BY <3>1 DEF Event
  <2> QED BY <2>1, LenProperties, CountIsNat
<1>2. \A j \in 1 .. Len(new) : /\ new[j].session = ss[j] /\ new[j].idx = Count(es, ss[j]) + Before(ss, j)
                               /\ Before(ss, j) \in Nat
  BY <1>1, BeforeIsNat DEF Numbered
<1>3. Upsert(es, new, EventKey) = es \o new
  <2>1. ASSUME NEW i \in 1 .. Len(es), NEW j \in 1 .. Len(new), new[j].session = es[i].session
        PROVE  new[j].idx # es[i].idx
    <3>1. es[i].idx < Count(es, ss[j]) /\ es[i].idx \in Nat /\ Count(es, ss[j]) \in Nat
      BY <1>1, <1>2, <2>1 DEF Dense
    <3>2. new[j].idx = Count(es, ss[j]) + Before(ss, j) /\ Before(ss, j) \in Nat
      BY <1>2
    <3> QED BY <3>1, <3>2
  <2>2. Apart(es, new, EventKey)
    BY <2>1, SameEvent DEF Apart
  <2> QED BY <2>2, UpsertFresh
<1>4. PICK all \in Seq(Event) : all = es \o new /\ Joins(es, new, all)
  BY ConcatJoins
<1>5. \A s : Count(all, s) >= Count(es, s) /\ Count(all, s) \in Nat
  <2>1. \A s : Count(es \o new, s) >= Count(es, s)
    BY CountConcat
  <2>2. \A s : Count(all, s) \in Nat
    BY CountIsNat
  <2> QED BY <1>4, <2>1, <2>2
<1>6. \A j \in 1 .. Len(new) : Count(all, ss[j]) >= Count(es, ss[j]) + Before(ss, j) + 1
  <2>1. \A j : j \in 1 .. Len(new) /\ (\A i \in 1 .. Len(new) : new[i].session = ss[i])
                 => Count(es \o new, ss[j]) >= Count(es, ss[j]) + Before(ss, j) + 1
    BY CountConcat
  <2> QED BY <1>2, <1>4, <2>1
<1>7. ASSUME NEW i \in 1 .. Len(all) PROVE all[i].idx < Count(all, all[i].session)
  <2>1. CASE i \in 1 .. Len(es)
    <3>1. all[i] = es[i] /\ es[i].idx < Count(es, es[i].session) /\ es[i].idx \in Nat
      BY <1>1, <1>4, <2>1 DEF Joins, Dense
    <3>2. Count(all, es[i].session) >= Count(es, es[i].session)
      BY <1>5
    <3>3. Count(all, es[i].session) \in Nat /\ Count(es, es[i].session) \in Nat
      BY <1>1, <1>5
    <3> QED BY <3>1, <3>2, <3>3
  <2>2. CASE i \notin 1 .. Len(es)
    <3>1. PICK j \in 1 .. Len(new) : all[i] = new[j]
      BY <1>4, <2>2 DEF Joins
    <3>2. /\ new[j].session = ss[j] /\ new[j].idx = Count(es, ss[j]) + Before(ss, j)
          /\ Before(ss, j) \in Nat
      BY <1>2
    <3>3. Count(all, ss[j]) >= Count(es, ss[j]) + Before(ss, j) + 1
      BY <1>6
    <3>4. Count(all, ss[j]) \in Nat /\ Count(es, ss[j]) \in Nat
      BY <1>1, <1>5
    <3> QED BY <3>1, <3>2, <3>3, <3>4
  <2> QED BY <2>1, <2>2
<1>8. Dense(all)
  BY <1>7 DEF Dense
<1> QED BY <1>3, <1>4, <1>8

\* One event, numbered next.
LEMMA NextEvent ==
  ASSUME NEW es \in Seq(Event), Dense(es), NEW e \in Event, e.idx = Count(es, e.session)
  PROVE  Upsert(es, <<e>>, EventKey) = es \o <<e>> /\ Dense(es \o <<e>>)
<1>1. PICK new \in Seq(Event) : new = <<e>> /\ Len(new) = 1 /\ new[1] = e
  <2>1. <<e>> \in Seq(Event) /\ Len(<<e>>) = 1 /\ <<e>>[1] = e
    OBVIOUS
  <2> QED BY <2>1
<1>2. PICK s \in Session : s = e.session
  BY DEF Event
<1>3. PICK ss \in Seq(Session) : Len(ss) = 1 /\ ss[1] = s
  <2>1. <<s>> \in Seq(Session) /\ Len(<<s>>) = 1 /\ <<s>>[1] = s
    OBVIOUS
  <2> QED BY <2>1
<1>4. Numbered(es, ss, new)
  <2>1. Before(ss, 1) = 0
    <3>1. {i \in 1 .. 1 - 1 : ss[i] = ss[1]} = {}
      OBVIOUS
    <3> QED BY <3>1, FS_EmptySet, Zenon DEF Before
  <2>2. Count(es, s) \in Nat
    BY CountIsNat
  <2> QED BY <1>1, <1>2, <1>3, <2>1, <2>2 DEF Numbered
<1>5. Upsert(es, new, EventKey) = es \o new /\ Dense(es \o new)
  BY <1>4, NumberedEvents
<1> QED BY <1>1, <1>5

Synced(p) ==
  /\ disk.rows = rows[p] /\ disk.events = events[p] /\ disk.messages = messages[p]
  /\ disk.probed = probed[p] /\ disk.catalog = SeededOnce

SyncInv == sinkFails = 0 => Dense(disk.events) /\ \A p \in up : Synced(p)

\* The mails have the sessions and the ids of the messages.
Matching(mails, new) ==
  /\ Len(new) = Len(mails)
  /\ \A j \in 1 .. Len(mails) :
       mails[j].kind = "mail" /\ new[j].session = mails[j].session /\ new[j].id = mails[j].id

\* What becomes of the two logs when every write is taken.
LogStays == disk'.events = disk.events /\ disk'.messages = disk.messages
LogGrows ==
  \E e \in Event : e.kind # "mail" /\ disk'.events = disk.events \o <<e>> /\ disk'.messages = disk.messages
LogPosts ==
  \E mails \in Seq(Event), new \in Seq(Message) :
    /\ Matching(mails, new)
    /\ disk'.events = disk.events \o mails /\ disk'.messages = disk.messages \o new
LogAcks ==
  \E i \in 1 .. Len(disk.messages), m \in Message :
    /\ m.id = disk.messages[i].id /\ m.session = disk.messages[i].session
    /\ disk'.events = disk.events /\ disk'.messages = [disk.messages EXCEPT ![i] = m]

\* No dispatched session leaves the mirror.
RowsStay == \A s \in Session : disk.rows[s] # "none" => disk'.rows[s] # "none"

\* The rows a taken write leaves are those of the memory.
LEMMA RowsWritten ==
  ASSUME Memory, Memory', NEW p \in Proc, NEW S \in SUBSET Session, RowsMove(p, S), disk.rows = rows[p],
         NEW evs, NEW msgs, Written(p, S, evs, msgs), sinkFails' = 0
  PROVE  disk'.rows = rows'[p]
<1>1. disk'.rows \in Rows /\ rows'[p] \in Rows
  BY DEF Memory, Disks
<1>2. \A s \in Session : disk'.rows[s] = rows'[p][s]
  BY DEF Written, RowsMove
<1> QED BY <1>1, <1>2 DEF Rows

\* Every step that is written keeps the mirror as the memory.
LEMMA SyncKept ==
  ASSUME Assumptions, MaxOpen = 1, Unknown = {}, Memory, Memory', AckInv, SyncInv,
         Stays \/ (\E p \in Proc : Moves(p)), sinkFails' = 0
  PROVE  /\ sinkFails = 0 /\ Dense(disk'.events) /\ \A p \in up' : Synced(p)'
         /\ RowsStay /\ (LogStays \/ LogGrows \/ LogPosts \/ LogAcks)
<1> DEFINE Goal == /\ sinkFails = 0 /\ Dense(disk'.events) /\ \A p \in up' : Synced(p)'
                   /\ RowsStay /\ (LogStays \/ LogGrows \/ LogPosts \/ LogAcks)
<1>1. /\ up \subseteq Proc /\ rows \in [Proc -> Rows] /\ events \in [Proc -> Seq(Event)]
      /\ messages \in [Proc -> Seq(Message)] /\ probed \in [Proc -> Probes] /\ disk \in Disks
      /\ disk.events \in Seq(Event) /\ disk.messages \in Seq(Message) /\ born \in Nat
      /\ sinkFails \in Nat
  BY DEF Memory, Disks, Assumptions, MessagingAssumption
<1>2. OneOpen /\ \A p \in up : Sound(messages[p], born)
  BY DEF AckInv
<1>3. sinkFails = 0 => Dense(disk.events) /\ \A p \in up : Synced(p)
  BY DEF SyncInv
<1>4. ASSUME NEW p \in Proc, p \in up, UNCHANGED up, Synced(p)' PROVE \A q \in up' : Synced(q)'
  <2>1. \A q \in up' : q = p
    BY <1>2, <1>4 DEF OneOpen
  <2> QED BY <1>4, <2>1
<1>5. ASSUME Stays PROVE Goal
  BY <1>3, <1>5 DEF Stays, Synced, LogStays, RowsStay
<1>6. ASSUME NEW p \in Proc, Open(p) PROVE Goal
  <2>1. /\ up = {} /\ up' = up \cup {p} /\ sinkFails' = sinkFails
        /\ disk' = [disk EXCEPT !.catalog = Seed(@, Len(CatalogTables))]
        /\ rows' = [rows EXCEPT ![p] = disk.rows] /\ events' = [events EXCEPT ![p] = disk.events]
        /\ messages' = [messages EXCEPT ![p] = disk.messages] /\ probed' = [probed EXCEPT ![p] = disk.probed]
    BY <1>2, <1>6, OpensAlone DEF Open
  <2>2. /\ up' = {p} /\ rows'[p] = disk.rows /\ events'[p] = disk.events
        /\ messages'[p] = disk.messages /\ probed'[p] = disk.probed
    BY <1>1, <2>1
  <2>3. /\ disk'.rows = disk.rows /\ disk'.events = disk.events /\ disk'.messages = disk.messages
        /\ disk'.probed = disk.probed /\ disk'.catalog = Seed(disk.catalog, Len(CatalogTables))
    BY <1>1, <2>1 DEF Disks
  <2>4. disk'.catalog = SeededOnce
    BY <2>3, SeedsOnce
  <2> QED BY <1>3, <2>1, <2>2, <2>3, <2>4 DEF Synced, LogStays, RowsStay
<1>7. ASSUME NEW p \in Proc, OpenFails(p) PROVE FALSE
  BY <1>1, <1>7 DEF OpenFails
<1>8. ASSUME NEW p \in Proc, Close(p) PROVE Goal
  <2>1. /\ up' = up \ {p} /\ UNCHANGED <<disk, sinkFails>>
        /\ rows' = [rows EXCEPT ![p] = NoRows] /\ events' = [events EXCEPT ![p] = << >>]
        /\ messages' = [messages EXCEPT ![p] = << >>] /\ probed' = [probed EXCEPT ![p] = NeverProbed]
    BY <1>8 DEF Close
  <2>2. \A q \in up' : /\ q \in up /\ rows'[q] = rows[q] /\ events'[q] = events[q]
                       /\ messages'[q] = messages[q] /\ probed'[q] = probed[q]
    BY <1>1, <2>1
  <2> QED BY <1>3, <2>1, <2>2 DEF Synced, LogStays, RowsStay
<1>9. ASSUME NEW p \in Proc, Refreshes(p) PROVE Goal
  <2>1. PICK E : Refresh(p, E)
    BY <1>9 DEF Refreshes
  <2>2. /\ p \in up /\ sinkFails = 0 /\ probed' = [probed EXCEPT ![p] = Stamp(@, E, born')]
        /\ disk' = [disk EXCEPT !.probed = Stamp(@, E, born')]
        /\ UNCHANGED <<up, rows, events, messages>>
    BY <1>1, <2>1 DEF Refresh, Managers
  <2>3. /\ disk'.rows = disk.rows /\ disk'.events = disk.events /\ disk'.messages = disk.messages
        /\ disk'.probed = Stamp(disk.probed, E, born') /\ disk'.catalog = disk.catalog
        /\ probed'[p] = Stamp(probed[p], E, born')
    BY <1>1, <2>2 DEF Disks
  <2>4. Synced(p)'
    BY <1>3, <2>2, <2>3 DEF Synced
  <2> QED BY <1>3, <1>4, <2>2, <2>3, <2>4 DEF LogStays, RowsStay
<1>10. ASSUME NEW p \in Proc, Logs(p) PROVE Goal
  <2>1. PICK S, e : LogsAs(p, S, e)
    BY <1>10, LogsAre DEF Logs
  <2>2. /\ p \in up /\ RowsMove(p, S) /\ S \in SUBSET Session /\ e \in Event /\ e.kind # "mail"
        /\ e.idx = Count(events[p], e.session) /\ <<e>> \in Seq(Event)
        /\ events' = [events EXCEPT ![p] = events[p] \o <<e>>]
        /\ Written(p, S, <<e>>, << >>) /\ UNCHANGED <<up, probed, messages>>
    BY <2>1 DEF LogsAs
  <2>3. /\ sinkFails = 0 /\ disk'.probed = disk.probed /\ disk'.catalog = disk.catalog
        /\ disk'.events = Upsert(disk.events, <<e>>, EventKey)
        /\ disk'.messages = Upsert(disk.messages, << >>, MessageKey)
    BY <2>2 DEF Written
  <2>4. Synced(p) /\ Dense(disk.events)
    BY <1>3, <2>2, <2>3
  <2>5. disk'.messages = disk.messages
    BY <1>1, <2>3, UpsertNothing
  <2>6. disk'.rows = rows'[p]
    BY <2>2, <2>4, RowsWritten DEF Synced
  <2>11. disk'.events = disk.events \o <<e>> /\ Dense(disk'.events)
    <3>1. e.idx = Count(disk.events, e.session)
      BY <2>2, <2>4 DEF Synced
    <3> QED BY <1>1, <2>2, <2>3, <2>4, <3>1, NextEvent
  <2>12. events'[p] = events[p] \o <<e>>
    BY <1>1, <2>2
  <2>13. Synced(p)'
    BY <2>2, <2>3, <2>4, <2>5, <2>6, <2>11, <2>12 DEF Synced
  <2>14. RowsStay
    BY <2>2, <2>4, <2>6 DEF Synced, RowsMove, RowsStay
  <2> QED BY <1>4, <2>2, <2>3, <2>5, <2>11, <2>13, <2>14 DEF LogGrows
<1>11. ASSUME NEW p \in Proc, Posts(p) PROVE Goal
  <2>1. PICK ss, mails, new : PostsAs(p, ss, mails, new)
    BY <1>11, PostsAre
  <2>2. /\ p \in up /\ mails \in Seq(Event) /\ Len(mails) = Len(ss) /\ Len(ss) \in Nat
        /\ \A j \in 1 .. Len(ss) :
             /\ mails[j].session = ss[j] /\ mails[j].id = born + j /\ mails[j].kind = "mail"
             /\ mails[j].idx = Count(events[p], ss[j]) + Before(ss, j)
        /\ new \in Seq(Message) /\ Len(new) = Len(ss)
        /\ \A j \in 1 .. Len(ss) :
             new[j].session = ss[j] /\ new[j].id = born + j /\ new[j].acked = Nobody
    BY <2>1 DEF PostsAs
  <2>3. /\ events' = [events EXCEPT ![p] = events[p] \o mails]
        /\ messages' = [messages EXCEPT ![p] = messages[p] \o new]
        /\ Written(p, {}, mails, new) /\ UNCHANGED <<up, probed, rows>>
    BY <2>1 DEF PostsAs
  <2>4. /\ sinkFails = 0 /\ disk'.probed = disk.probed /\ disk'.catalog = disk.catalog
        /\ disk'.events = Upsert(disk.events, mails, EventKey)
        /\ disk'.messages = Upsert(disk.messages, new, MessageKey)
    BY <2>3 DEF Written
  <2>5. Synced(p) /\ Dense(disk.events)
    BY <1>3, <2>2, <2>4
  <2>6. disk'.rows = rows'[p]
    <3>1. {} \in SUBSET Session /\ RowsMove(p, {})
      BY <2>3, SameRowsMove
    <3> QED BY <2>3, <2>5, <3>1, RowsWritten DEF Synced
  <2>7. PICK es \in Seq(Event), ms \in Seq(Message), n \in Nat :
          es = disk.events /\ ms = disk.messages /\ n = born
    BY <1>1
  <2>8. Numbered(es, ss, mails) /\ Dense(es)
    BY <2>2, <2>5, <2>7 DEF Numbered, Synced
  <2>9. Upsert(es, mails, EventKey) = es \o mails /\ Dense(es \o mails)
    BY <2>2, <2>8, NumberedEvents
  <2>10. Upsert(ms, new, MessageKey) = ms \o new
    <3>1. Sound(ms, n)
      BY <1>2, <2>2, <2>5, <2>7 DEF Synced
    <3>2. Past(ms, n) /\ Agrees(ms, ms)
      BY <3>1 DEF Sound, Unique, Agrees
    <3>3. FreshIds(new, n) /\ Unstamped(new)
      BY <2>2, <2>7 DEF FreshIds, Unstamped
    <3> QED BY <2>2, <3>2, <3>3, PostedTables
  <2>11. /\ disk'.events = disk.events \o mails /\ Dense(disk'.events)
         /\ disk'.messages = disk.messages \o new
    BY <2>4, <2>7, <2>9, <2>10
  <2>12. events'[p] = events[p] \o mails /\ messages'[p] = messages[p] \o new
    BY <1>1, <2>3
  <2>13. Synced(p)'
    BY <2>3, <2>4, <2>5, <2>6, <2>11, <2>12 DEF Synced
  <2>14. Matching(mails, new)
    BY <2>2 DEF Matching
  <2>15. LogPosts
    BY <2>2, <2>11, <2>14 DEF LogPosts
  <2>16. RowsStay
    BY <2>3, <2>5, <2>6 DEF Synced, RowsStay
  <2> QED BY <1>4, <2>2, <2>3, <2>4, <2>11, <2>13, <2>15, <2>16
<1>12. ASSUME NEW p \in Proc, Acks(p) PROVE Goal
  <2>1. PICK i, m : AcksAs(p, i, m)
    BY <1>12, AcksAre
  <2>2. /\ p \in up /\ m \in Message /\ i \in 1 .. Len(messages[p])
        /\ messages' = [messages EXCEPT ![p] = [messages[p] EXCEPT ![i] = m]]
        /\ Written(p, {}, << >>, <<m>>) /\ UNCHANGED <<up, probed, rows, events>>
    BY <2>1 DEF AcksAs
  <2>3. m.id = messages[p][i].id /\ m.session = messages[p][i].session
    BY <2>1 DEF AcksAs, Message
  <2>4. /\ sinkFails = 0 /\ disk'.probed = disk.probed /\ disk'.catalog = disk.catalog
        /\ disk'.events = Upsert(disk.events, << >>, EventKey)
        /\ disk'.messages = Upsert(disk.messages, <<m>>, MessageKey)
    BY <2>2 DEF Written
  <2>5. Synced(p) /\ Dense(disk.events)
    BY <1>3, <2>2, <2>4
  <2>6. disk'.rows = rows'[p]
    <3>1. {} \in SUBSET Session /\ RowsMove(p, {})
      BY <2>2, SameRowsMove
    <3> QED BY <2>2, <2>5, <3>1, RowsWritten DEF Synced
  <2>7. disk'.events = disk.events
    BY <1>1, <2>4, UpsertNothing
  <2>8. PICK ms \in Seq(Message) : ms = disk.messages
    BY <1>1
  <2>9. i \in 1 .. Len(ms) /\ Unique(ms) /\ m.id = ms[i].id
    BY <1>2, <2>2, <2>3, <2>5, <2>8 DEF Synced, Sound
  <2>10. Only(ms, i, m, MessageKey)
    BY <2>9, SameMessage DEF Only, Unique
  <2>11. Upsert(ms, <<m>>, MessageKey) = [ms EXCEPT ![i] = m]
    BY <2>2, <2>9, <2>10, UpsertReplaces
  <2>12. disk'.messages = [disk.messages EXCEPT ![i] = m]
    BY <2>4, <2>8, <2>11
  <2>13. messages'[p] = [messages[p] EXCEPT ![i] = m]
    BY <1>1, <2>2
  <2>14. Synced(p)'
    BY <2>2, <2>4, <2>5, <2>6, <2>7, <2>12, <2>13 DEF Synced
  <2>15. LogAcks
    <3>1. messages[p] = disk.messages
      BY <2>5 DEF Synced
    <3>2. /\ i \in 1 .. Len(disk.messages) /\ m \in Message
          /\ m.id = disk.messages[i].id /\ m.session = disk.messages[i].session
      BY <2>2, <2>3, <3>1
    <3> QED BY <2>7, <2>12, <3>2 DEF LogAcks
  <2>16. RowsStay
    BY <2>2, <2>5, <2>6 DEF Synced, RowsStay
  <2> QED BY <1>4, <2>2, <2>4, <2>5, <2>7, <2>14, <2>15, <2>16
<1> HIDE DEF Goal
<1>13. Goal
  BY <1>5, <1>6, <1>7, <1>8, <1>9, <1>10, <1>11, <1>12 DEF Moves
<1> QED BY <1>13 DEF Goal

\* A log that grows has the old one as its prefix.
LEMMA GrownPrefix ==
  ASSUME NEW S, NEW s \in Seq(S), NEW new \in Seq(S)
  PROVE  IsPrefix(s, s \o new)
<1>1. PICK all \in Seq(S) : all = s \o new /\ Joins(s, new, all)
  BY ConcatJoins
<1>2. Len(s) \in Nat /\ Len(new) \in Nat /\ Len(all) = Len(s) + Len(new)
  BY <1>1, LenProperties DEF Joins
<1>3. SubSeq(all, 1, Len(s)) = SubSeq(s, 1, Len(s))
  <2>1. SubSeq(all, 1, Len(s)) = [i \in 1 .. Len(s) |-> all[i]]
    BY <1>1, <1>2, SubSeqProperties
  <2>2. SubSeq(s, 1, Len(s)) = [i \in 1 .. Len(s) |-> s[i]]
    BY <1>2, SubSeqProperties
  <2> QED BY <1>1, <2>1, <2>2 DEF Joins
<1> QED BY <1>1, <1>2, <1>3 DEF IsPrefix

\* The sessions and ids of a log, and of a log that grew.
Tags(log) == [i \in DOMAIN log |-> <<log[i].session, log[i].id>>]

\* The tags of a log that grew.
LEMMA TagsConcat ==
  ASSUME NEW S, NEW a \in Seq(S), NEW b \in Seq(S)
  PROVE  Tags(a \o b) = Tags(a) \o Tags(b)
<1> DEFINE T == {<<x.session, x.id>> : x \in S}
           tag(x) == <<x.session, x.id>>
<1>1. ASSUME NEW c \in Seq(S)
      PROVE  /\ Tags(c) \in Seq(T) /\ Len(Tags(c)) = Len(c)
             /\ \A i \in 1 .. Len(c) : Tags(c)[i] = tag(c[i])
  <2>1. Len(c) \in Nat /\ DOMAIN c = 1 .. Len(c) /\ \A i \in 1 .. Len(c) : c[i] \in S
    BY LenProperties, ElementOfSeq
  <2>2. Tags(c) = [i \in 1 .. Len(c) |-> tag(c[i])] /\ \A i \in 1 .. Len(c) : tag(c[i]) \in T
    BY <2>1 DEF Tags
  <2> HIDE DEF T, tag
  <2> QED BY <2>1, <2>2
<1> HIDE DEF T, tag
<1>2. PICK all \in Seq(S) : all = a \o b /\ Joins(a, b, all)
  BY ConcatJoins
<1>3. PICK ta \in Seq(T), tb \in Seq(T), tall \in Seq(T) :
        ta = Tags(a) /\ tb = Tags(b) /\ tall = Tags(all)
  BY <1>1
<1>4. PICK joined \in Seq(T) : joined = ta \o tb /\ Joins(ta, tb, joined)
  BY ConcatJoins
<1>5. /\ Len(ta) = Len(a) /\ Len(tb) = Len(b) /\ Len(tall) = Len(all)
      /\ \A i \in 1 .. Len(a) : ta[i] = tag(a[i])
      /\ \A i \in 1 .. Len(b) : tb[i] = tag(b[i])
      /\ \A i \in 1 .. Len(all) : tall[i] = tag(all[i])
  BY <1>1, <1>3
<1>6. Len(tall) = Len(joined)
  BY <1>2, <1>4, <1>5 DEF Joins
<1>7. ASSUME NEW i \in 1 .. Len(tall) PROVE tall[i] = joined[i]
  <2>1. i \in 1 .. Len(all) /\ i \in 1 .. Len(joined) /\ tall[i] = tag(all[i])
    BY <1>5, <1>6, <1>7
  <2>2. CASE i \in 1 .. Len(a)
    BY <1>2, <1>4, <1>5, <2>1, <2>2 DEF Joins
  <2>3. CASE i \notin 1 .. Len(a)
    <3>1. i - Len(a) \in 1 .. Len(b) /\ all[i] = b[i - Len(a)]
      BY <1>2, <2>1, <2>3 DEF Joins
    <3>2. joined[i] = tb[i - Len(a)]
      BY <1>4, <1>5, <2>1, <2>3 DEF Joins
    <3> QED BY <1>5, <2>1, <3>1, <3>2
  <2> QED BY <2>2, <2>3
<1>8. tall = joined
  BY <1>6, <1>7, SeqEqual
<1> QED BY <1>2, <1>3, <1>4, <1>8

\* The mails of a log, of the events there are.
MailEvents == {e \in Event : e.kind = "mail"}

\* Mails, by the set of all mails there can be.
LEMMA MailsAre ==
  ASSUME NEW log \in Seq(Event)
  PROVE  Mails(log) = Tags(Keep(log, MailEvents))
<1> DEFINE T == {e \in ToSet(log) : e.kind = "mail"}
<1>1. ToSet(log) \subseteq Event /\ log \in Seq(ToSet(log))
  <2>1. log \in [1 .. Len(log) -> Event] /\ DOMAIN log = 1 .. Len(log) /\ Len(log) \in Nat
    BY LenProperties
  <2>2. ToSet(log) = {log[i] : i \in 1 .. Len(log)}
    BY <2>1 DEF ToSet
  <2> QED BY <2>1, <2>2
<1>2. \A e \in ToSet(log) : e \in T <=> e \in MailEvents
  BY <1>1 DEF MailEvents
<1>3. Keep(log, T) = Keep(log, MailEvents)
  <2> HIDE DEF T
  <2> QED BY <1>1, <1>2, KeepAgrees
<1> QED BY <1>3 DEF Mails, Tags

\* Each message with its breadcrumb, in the mirror.
MailInv == sinkFails = 0 => Tags(Keep(disk.events, MailEvents)) = Tags(disk.messages)

\* Every step adds a message to the one log and its mail to the other, or neither.
LEMMA MailKept ==
  ASSUME disk.events \in Seq(Event), disk.messages \in Seq(Message),
         Tags(Keep(disk.events, MailEvents)) = Tags(disk.messages),
         LogStays \/ LogGrows \/ LogPosts \/ LogAcks
  PROVE  Tags(Keep(disk'.events, MailEvents)) = Tags(disk'.messages)
<1>1. PICK es \in Seq(Event), ms \in Seq(Message) : es = disk.events /\ ms = disk.messages
  OBVIOUS
<1>2. Tags(Keep(es, MailEvents)) = Tags(ms)
  BY <1>1
<1>3. CASE LogStays
  BY <1>3 DEF LogStays
<1>4. CASE LogGrows
  <2>1. PICK e \in Event : e.kind # "mail" /\ disk'.events = es \o <<e>> /\ disk'.messages = ms
    BY <1>1, <1>4 DEF LogGrows
  <2>2. PICK new \in Seq(Event) : new = <<e>>
    <3>1. <<e>> \in Seq(Event)
      OBVIOUS
    <3> QED BY <3>1
  <2>3. Keep(es \o new, MailEvents) = Keep(es, MailEvents) \o Keep(new, MailEvents)
    BY KeepConcat, SMTT(30)
  <2>4. Keep(new, MailEvents) = << >>
    BY <2>1, <2>2, KeepOne DEF MailEvents
  <2>5. Keep(es, MailEvents) \in Seq(Event)
    BY KeepSeq
  <2>6. Keep(es \o new, MailEvents) = Keep(es, MailEvents)
    BY <2>3, <2>4, <2>5, ConcatEmptySeq
  <2> QED BY <1>2, <2>1, <2>2, <2>6
<1>5. CASE LogPosts
  <2>1. PICK mails \in Seq(Event), new \in Seq(Message) :
          Matching(mails, new) /\ disk'.events = es \o mails /\ disk'.messages = ms \o new
    BY <1>1, <1>5 DEF LogPosts
  <2>2. Keep(es \o mails, MailEvents) = Keep(es, MailEvents) \o mails
    <3>1. mails \in Seq(MailEvents)
      <4>1. Len(mails) \in Nat /\ mails = [i \in 1 .. Len(mails) |-> mails[i]]
        BY LenProperties
      <4>2. \A i \in 1 .. Len(mails) : mails[i] \in MailEvents
        BY <2>1, ElementOfSeq DEF Matching, MailEvents
      <4>3. PICK n \in Nat : n = Len(mails)
        BY <4>1
      <4>4. [i \in 1 .. n |-> mails[i]] \in Seq(MailEvents)
        BY <4>2, <4>3
      <4> QED BY <4>1, <4>3, <4>4, Zenon
    <3>2. Keep(mails, MailEvents) = mails
      BY <3>1, KeepAll
    <3>3. Keep(es \o mails, MailEvents) = Keep(es, MailEvents) \o Keep(mails, MailEvents)
      BY KeepConcat, SMTT(30)
    <3> QED BY <3>2, <3>3
  <2>3. PICK kept \in Seq(Event) : kept = Keep(es, MailEvents)
    BY KeepSeq
  <2>4. Tags(kept \o mails) = Tags(kept) \o Tags(mails)
    BY TagsConcat
  <2>5. Tags(ms \o new) = Tags(ms) \o Tags(new)
    BY TagsConcat
  <2>6. Tags(new) = Tags(mails)
    <3>1. DOMAIN new = 1 .. Len(mails) /\ DOMAIN mails = 1 .. Len(mails)
      BY <2>1, LenProperties DEF Matching
    <3> QED BY <2>1, <3>1 DEF Matching, Tags
  <2> QED BY <1>2, <2>1, <2>2, <2>3, <2>4, <2>5, <2>6
<1>6. CASE LogAcks
  <2>1. PICK i \in 1 .. Len(ms), m \in Message :
          /\ m.id = ms[i].id /\ m.session = ms[i].session
          /\ disk'.events = es /\ disk'.messages = [ms EXCEPT ![i] = m]
    BY <1>1, <1>6 DEF LogAcks
  <2>2. PICK then : then = [ms EXCEPT ![i] = m]
    OBVIOUS
  <2>3. DOMAIN then = DOMAIN ms /\ \A j \in DOMAIN ms : then[j] = IF j = i THEN m ELSE ms[j]
    BY <2>2, LenProperties
  <2>4. Tags(then) = Tags(ms)
    BY <2>1, <2>3 DEF Tags
  <2> QED BY <1>2, <2>1, <2>2, <2>4
<1> QED BY <1>3, <1>4, <1>5, <1>6

\* The invariant of a process that is alone with its mirror.
Alone == Types /\ AckInv /\ SyncInv /\ MailInv

\* The invariant holds at first, ...
LEMMA AloneInit ==
  ASSUME Assumptions, TelemetryInit
  PROVE  Alone
<1>1. Len(<< >>) = 0 /\ << >> \in Seq(Event) /\ << >> \in Seq(Message)
  BY EmptySeq
<1>2. AckInv
  BY <1>1 DEF TelemetryInit, Init, AckInv, OneOpen, Sound, Unique, Past
<1>3. SyncInv
  BY <1>1 DEF TelemetryInit, Init, SyncInv, Dense
<1>4. MailInv
  <2>1. Keep(<< >>, MailEvents) = << >>
    BY KeepEmpty
  <2>2. disk.events = << >> /\ disk.messages = << >>
    BY DEF TelemetryInit, Init
  <2> QED BY <2>1, <2>2 DEF MailInv
<1> QED BY <1>2, <1>3, <1>4, TypesInit DEF Alone

\* ... and every step keeps it and, if written, extends the log.
LEMMA AloneKept ==
  ASSUME Assumptions, MaxOpen = 1, Unknown = {}, Alone, [TelemetryNext]_telemetryVars
  PROVE  Alone' /\ (sinkFails' = 0 => sinkFails = 0 /\ RowsStay
                                       /\ (LogStays \/ LogGrows \/ LogPosts \/ LogAcks))
<1>1. Types' /\ Types /\ AckInv /\ SyncInv /\ MailInv
  BY TypesKept DEF Alone
<1>2. (Stays \/ \E p \in Proc : Moves(p)) /\ Memory /\ Memory'
  BY <1>1, Steps DEF Types
<1>3. AckInv'
  BY <1>1, <1>2, AckKept
<1>4. sinkFails' = 0 => /\ sinkFails = 0 /\ Dense(disk'.events) /\ \A p \in up' : Synced(p)'
                        /\ RowsStay /\ (LogStays \/ LogGrows \/ LogPosts \/ LogAcks)
  BY <1>1, <1>2, SyncKept
<1>5. SyncInv'
  BY <1>4 DEF SyncInv
<1>6. MailInv'
  <2>1. disk.events \in Seq(Event) /\ disk.messages \in Seq(Message)
    BY <1>2 DEF Memory, Disks
  <2>2. ASSUME sinkFails' = 0 PROVE Tags(Keep(disk'.events, MailEvents)) = Tags(disk'.messages)
    <3>1. /\ Tags(Keep(disk.events, MailEvents)) = Tags(disk.messages)
          /\ LogStays \/ LogGrows \/ LogPosts \/ LogAcks
      BY <1>1, <1>4, <2>2 DEF MailInv
    <3> QED BY <2>1, <3>1, MailKept
  <2> QED BY <2>2 DEF MailInv
<1> QED BY <1>1, <1>3, <1>4, <1>5, <1>6 DEF Alone

\* The log is extended by every step that is mirrored.
LEMMA LogExtends ==
  ASSUME disk.events \in Seq(Event), LogStays \/ LogGrows \/ LogPosts \/ LogAcks
  PROVE  \E new \in Seq(Event) : disk'.events = disk.events \o new
<1>1. CASE LogStays \/ LogAcks
  BY <1>1, EmptySeq, ConcatEmptySeq DEF LogStays, LogAcks
<1>2. CASE LogGrows
  <2>1. PICK e \in Event : disk'.events = disk.events \o <<e>>
    BY <1>2 DEF LogGrows
  <2>2. <<e>> \in Seq(Event)
    OBVIOUS
  <2> QED BY <2>1, <2>2
<1>3. CASE LogPosts
  BY <1>3 DEF LogPosts
<1> QED BY <1>1, <1>2, <1>3

\* While one process at a time has the mirror open and no write fails, what it
\* serves is what the next one will read: open_with rehydrates every row, event,
\* idx, stamp and message, and the catalog is there once however often it was seeded.
THEOREM Rehydration ==
  ASSUME MaxOpen = 1, Unknown = {}
  PROVE  TelemetrySpec => []Rehydrates
<1>1. TelemetryInit => Alone
  BY AloneInit, AssumptionsHold
<1>2. Alone /\ [TelemetryNext]_telemetryVars => Alone'
  BY AloneKept, AssumptionsHold
<1>3. Alone => Rehydrates
  <2> SUFFICES ASSUME Alone, sinkFails = 0, NEW p \in up
               PROVE  disk = [rows |-> rows[p], events |-> events[p], messages |-> messages[p],
                              probed |-> probed[p], catalog |-> SeededOnce]
    BY DEF Rehydrates
  <2>1. disk \in Disks /\ Synced(p)
    BY DEF Alone, SyncInv, Types, Memory
  <2> QED BY <2>1 DEF Disks, Synced
<1> QED BY <1>1, <1>2, <1>3, PTL DEF TelemetrySpec

\* ... every message is with its breadcrumb, on the same timeline and in the same
\* order (project_mail) ...
THEOREM Breadcrumbs ==
  ASSUME MaxOpen = 1, Unknown = {}
  PROVE  TelemetrySpec => []MailMatchesMessages
<1>1. TelemetryInit => Alone
  BY AloneInit, AssumptionsHold
<1>2. Alone /\ [TelemetryNext]_telemetryVars => Alone'
  BY AloneKept, AssumptionsHold
<1>3. Alone => MailMatchesMessages
  <2> SUFFICES ASSUME Alone, sinkFails = 0, NEW p \in up
               PROVE  Mails(events[p]) = Inbox(messages[p])
    BY DEF MailMatchesMessages
  <2>1. Synced(p) /\ disk.events \in Seq(Event)
    BY DEF Alone, SyncInv, Types, Memory, Disks
  <2>2. Tags(Keep(disk.events, MailEvents)) = Tags(disk.messages)
    BY DEF Alone, MailInv
  <2>3. Mails(disk.events) = Tags(disk.messages)
    BY <2>1, <2>2, MailsAre
  <2> QED BY <2>1, <2>3 DEF Synced, Inbox, Tags
<1> QED BY <1>1, <1>2, <1>3, PTL DEF TelemetrySpec

\* ... and the stored timeline only grows: an idx that a process gives out is free.
THEOREM TimelineGrows ==
  ASSUME MaxOpen = 1, Unknown = {}
  PROVE  TelemetrySpec => AppendOnly
<1>1. TelemetryInit => Alone
  BY AloneInit, AssumptionsHold
<1>2. Alone /\ [TelemetryNext]_telemetryVars =>
        Alone' /\ (sinkFails' = 0 => LogStays \/ LogGrows \/ LogPosts \/ LogAcks)
  BY AloneKept, AssumptionsHold
<1>3. Alone /\ (sinkFails' = 0 => LogStays \/ LogGrows \/ LogPosts \/ LogAcks) =>
        [sinkFails' = 0 => IsPrefix(disk.events, disk'.events)]_disk
  <2> SUFFICES ASSUME Alone, LogStays \/ LogGrows \/ LogPosts \/ LogAcks
               PROVE  IsPrefix(disk.events, disk'.events)
    OBVIOUS
  <2>1. disk.events \in Seq(Event)
    BY DEF Alone, Types, Memory, Disks
  <2>2. PICK new \in Seq(Event) : disk'.events = disk.events \o new
    BY <2>1, LogExtends
  <2> QED BY <2>1, <2>2, GrownPrefix
<1> QED BY <1>1, <1>2, <1>3, PTL DEF TelemetrySpec, AppendOnly

-----------------------------------------------------------------------------
(***************************************************************************)
(* Telemetry.                                                              *)
(***************************************************************************)
StoredIn(es, s, kind) == Cardinality({i \in DOMAIN es : es[i].session = s /\ es[i].kind = kind})

\* A timeline that grows has no fewer events of a kind, ...
LEMMA StoredGrows ==
  ASSUME NEW S, NEW es \in Seq(S), NEW new \in Seq(S), NEW s, NEW kind
  PROVE  /\ StoredIn(es, s, kind) \in Nat /\ StoredIn(es \o new, s, kind) \in Nat
         /\ StoredIn(es \o new, s, kind) >= StoredIn(es, s, kind)
<1> DEFINE Of(t) == {i \in DOMAIN t : t[i].session = s /\ t[i].kind = kind}
<1>1. PICK all \in Seq(S) : all = es \o new /\ Joins(es, new, all)
  BY ConcatJoins
<1>2. ASSUME NEW t \in Seq(S) PROVE IsFiniteSet(Of(t)) /\ Cardinality(Of(t)) \in Nat
  <2>1. Len(t) \in Nat /\ DOMAIN t = 1 .. Len(t)
    BY LenProperties
  <2>2. \A i \in Of(t) : i \in 1 .. Len(t)
    BY <2>1
  <2> HIDE DEF Of
  <2> QED BY <2>1, <2>2, IndicesAreFinite
<1>3. Of(es) \in SUBSET Of(all)
  <2>1. DOMAIN es = 1 .. Len(es) /\ DOMAIN all = 1 .. Len(all)
    BY LenProperties
  <2> QED BY <1>1, <2>1 DEF Joins
<1> HIDE DEF Of
<1>4. Cardinality(Of(es)) <= Cardinality(Of(all))
  BY <1>2, <1>3, FS_Subset
<1>5. IsFiniteSet(Of(es)) /\ Cardinality(Of(es)) \in Nat /\ Cardinality(Of(all)) \in Nat
  BY <1>2
<1> QED BY <1>1, <1>4, <1>5 DEF StoredIn, Of

\* ... and one more of the kind of the event that was appended.
LEMMA StoredOneMore ==
  ASSUME NEW S, NEW es \in Seq(S), NEW e \in S
  PROVE  StoredIn(es \o <<e>>, e.session, e.kind) >= StoredIn(es, e.session, e.kind) + 1
<1> DEFINE Of(t) == {i \in DOMAIN t : t[i].session = e.session /\ t[i].kind = e.kind}
           n == Len(es) + 1
<1>1. PICK new \in Seq(S) : new = <<e>> /\ Len(new) = 1 /\ new[1] = e
  <2>1. <<e>> \in Seq(S) /\ Len(<<e>>) = 1 /\ <<e>>[1] = e
    OBVIOUS
  <2> QED BY <2>1
<1>2. PICK all \in Seq(S) : all = es \o new /\ Joins(es, new, all)
  BY ConcatJoins
<1>3. /\ Len(es) \in Nat /\ Len(all) \in Nat /\ Len(all) = n
      /\ DOMAIN es = 1 .. Len(es) /\ DOMAIN all = 1 .. Len(all)
  BY <1>1, <1>2, LenProperties DEF Joins
<1>4. n \in Of(all)
  <2>1. n \in 1 .. Len(all) /\ n \notin 1 .. Len(es) /\ n - Len(es) = 1
    BY <1>3
  <2>2. all[n] = e
    BY <1>1, <1>2, <2>1 DEF Joins
  <2> QED BY <1>3, <2>1, <2>2
<1>5. Of(es) \in SUBSET Of(all) /\ n \notin Of(es)
  BY <1>2, <1>3 DEF Joins
<1>6. IsFiniteSet(Of(es)) /\ Cardinality(Of(es)) \in Nat /\ IsFiniteSet(Of(all))
  <2>1. (\A i \in Of(es) : i \in 1 .. Len(es)) /\ (\A i \in Of(all) : i \in 1 .. Len(all))
    BY <1>3
  <2> HIDE DEF Of
  <2> QED BY <1>3, <2>1, IndicesAreFinite
<1> HIDE DEF Of, n
<1>7. Cardinality(Of(es) \cup {n}) = Cardinality(Of(es)) + 1
  BY <1>5, <1>6, FS_AddElement
<1>8. Of(es) \cup {n} \in SUBSET Of(all)
  BY <1>4, <1>5
<1>9. Cardinality(Of(es) \cup {n}) <= Cardinality(Of(all)) /\ Cardinality(Of(all)) \in Nat
  BY <1>6, <1>8, FS_Subset, FS_CardinalityType
<1> QED BY <1>1, <1>2, <1>6, <1>7, <1>9 DEF StoredIn, Of

\* The records of a session and kind among those that are left.
Left(records, s, kind) == Len(Keep(records, {[session |-> s, kind |-> kind]}))

\* What is left has a length, ...
LEMMA LeftIsNat ==
  ASSUME NEW S, NEW records \in Seq(S), NEW s, NEW kind
  PROVE  Left(records, s, kind) \in Nat
<1>1. Keep(records, {[session |-> s, kind |-> kind]}) \in Seq(S)
  BY KeepSeq
<1> QED BY <1>1, LenProperties DEF Left

\* ... which goes down by one when a record of that session and kind is taken.
LEMMA LeftOfTail ==
  ASSUME NEW records \in Seq(Arrived), records # << >>, NEW s, NEW kind
  PROVE  Left(records, s, kind) =
           IF Head(records).session = s /\ Head(records).kind = kind
           THEN 1 + Left(Tail(records), s, kind) ELSE Left(Tail(records), s, kind)
<1> DEFINE T == {[session |-> s, kind |-> kind]}
<1>1. PICK h \in Arrived, rest \in Seq(Arrived) : h = Head(records) /\ rest = Tail(records)
  BY HeadTailProperties
<1>2. h \in T <=> h.session = s /\ h.kind = kind
  BY DEF Arrived
<1> HIDE DEF T
<1>3. Keep(records, T) = (IF h \in T THEN <<h>> ELSE << >>) \o Keep(rest, T)
  BY <1>1, KeepHead
<1>4. PICK kept \in Seq(Arrived) : kept = Keep(rest, T)
  BY KeepSeq
<1>5. CASE h \in T
  <2>1. <<h>> \in Seq(Arrived) /\ Len(<<h>>) = 1
    OBVIOUS
  <2>2. Len(<<h>> \o kept) = Len(<<h>>) + Len(kept)
    BY <2>1, ConcatProperties
  <2> QED BY <1>1, <1>2, <1>3, <1>4, <1>5, <2>1, <2>2 DEF Left, T
<1>6. CASE h \notin T
  <2>1. << >> \o kept = kept
    BY ConcatEmptySeq
  <2> QED BY <1>1, <1>2, <1>3, <1>4, <1>6, <2>1 DEF Left, T
<1> QED BY <1>5, <1>6

\* What is parsed of an export: the records of its stamped resources, all of them.
Wired == {resource \in Resource : resource.stamp # NoSession}

\* One resource more, one list of records more.
LEMMA RecordListsAppend ==
  ASSUME TelemetryAssumption, NEW export \in Seq(Resource), NEW resource \in Resource
  PROVE  RecordLists(Append(export, resource)) = Append(RecordLists(export), Records(resource))
<1> DEFINE n == Len(export)
<1>1. /\ n \in Nat /\ Append(export, resource) \in Seq(Resource) /\ Len(Append(export, resource)) = n + 1
      /\ Append(export, resource)[n + 1] = resource
      /\ \A i \in 1 .. n : Append(export, resource)[i] = export[i]
  BY AppendProperties, LenProperties
<1>2. PICK more \in Seq(Resource) : more = Append(export, resource)
  BY <1>1
<1>3. Records(resource) \in Seq(Arrived)
  BY RecordsAre
<1>4. ASSUME NEW x \in Seq(Resource)
      PROVE  /\ RecordLists(x) \in Seq(Seq(Arrived)) /\ Len(RecordLists(x)) = Len(x)
             /\ \A i \in 1 .. Len(x) : RecordLists(x)[i] = Records(x[i])
  <2>1. Len(x) \in Nat /\ DOMAIN x = 1 .. Len(x)
    BY LenProperties
  <2>2. RecordLists(x) \in Seq(Seq(Arrived)) /\ DOMAIN RecordLists(x) = 1 .. Len(x)
    BY <2>1, RecordListsAre DEF RecordLists
  <2>3. Len(RecordLists(x)) = Len(x)
    BY <2>1, <2>2, LenProperties
  <2> QED BY <2>1, <2>2, <2>3 DEF RecordLists
<1>5. PICK lists \in Seq(Seq(Arrived)), all \in Seq(Seq(Arrived)), rs \in Seq(Arrived) :
        lists = RecordLists(export) /\ all = RecordLists(more) /\ rs = Records(resource)
  BY <1>3, <1>4
<1>6. /\ Append(lists, rs) \in Seq(Seq(Arrived)) /\ Len(Append(lists, rs)) = Len(lists) + 1
      /\ Append(lists, rs)[Len(lists) + 1] = rs
      /\ \A i \in 1 .. Len(lists) : Append(lists, rs)[i] = lists[i]
  BY AppendProperties, LenProperties
<1>7. PICK joined \in Seq(Seq(Arrived)) : joined = Append(lists, rs)
  BY <1>6
<1>8. Len(lists) = n /\ Len(all) = n + 1 /\ Len(joined) = n + 1
  BY <1>1, <1>2, <1>4, <1>5, <1>6, <1>7
<1>9. ASSUME NEW i \in 1 .. Len(all) PROVE all[i] = joined[i]
  <2>1. all[i] = Records(more[i])
    BY <1>2, <1>4, <1>5, <1>8, <1>1
  <2>2. CASE i \in 1 .. n
    BY <1>1, <1>2, <1>4, <1>5, <1>6, <1>7, <1>8, <2>1, <2>2
  <2>3. CASE i = n + 1
    BY <1>1, <1>2, <1>5, <1>6, <1>7, <1>8, <2>1, <2>3
  <2> QED BY <1>1, <1>8, <2>2, <2>3
<1>10. all = joined
  BY <1>8, <1>9, SeqEqual
<1> QED BY <1>2, <1>5, <1>7, <1>10

\* What has no stamp has no record of a session.
LEMMA StampedKeepTheirs ==
  ASSUME TelemetryAssumption, MessagingAssumption, NEW export \in Seq(Resource), NEW s \in Session, NEW kind
  PROVE  Keep(FlattenSeq(RecordLists(Keep(export, Wired))), {[session |-> s, kind |-> kind]}) =
         Keep(FlattenSeq(RecordLists(export)), {[session |-> s, kind |-> kind]})
<1> DEFINE T == {[session |-> s, kind |-> kind]}
           Theirs(x) == Keep(FlattenSeq(RecordLists(x)), T)
           M == {x \in Seq(Resource) : Theirs(Keep(x, Wired)) = Theirs(x)}
<1>1. << >> \in M
  BY EmptySeq, KeepEmpty
<1>2. ASSUME NEW x \in Seq(Resource), NEW r \in Resource, x \in M PROVE Append(x, r) \in M
  <2>1. ASSUME NEW y \in Seq(Resource) PROVE Theirs(Append(y, r)) = Theirs(y) \o Keep(Records(r), T)
    <3>1. PICK rs \in Seq(Arrived), lists \in Seq(Seq(Arrived)) : rs = Records(r) /\ lists = RecordLists(y)
      BY RecordsAre, RecordListsAre
    <3>2. RecordLists(Append(y, r)) = Append(lists, rs)
      BY <3>1, RecordListsAppend
    <3>3. FlattenSeq(Append(lists, rs)) = FlattenSeq(lists) \o rs
      BY FlattenAppend
    <3>4. PICK flat \in Seq(Arrived) : flat = FlattenSeq(lists)
      BY FlattenType
    <3>5. Keep(flat \o rs, T) = Keep(flat, T) \o Keep(rs, T)
      <4> HIDE DEF T, Theirs, M
      <4> QED BY KeepConcat, SMTT(30)
    <3> QED BY <3>1, <3>2, <3>3, <3>4, <3>5
  <2>2. Keep(Append(x, r), Wired) = IF r \in Wired THEN Append(Keep(x, Wired), r) ELSE Keep(x, Wired)
    BY KeepAppend
  <2>3. Keep(x, Wired) \in Seq(Resource) /\ Append(x, r) \in Seq(Resource)
    BY KeepSeq, AppendProperties
  <2>4. Theirs(Append(x, r)) = Theirs(x) \o Keep(Records(r), T)
    BY <2>1
  <2>5. CASE r \in Wired
    <3>1. Theirs(Append(Keep(x, Wired), r)) = Theirs(Keep(x, Wired)) \o Keep(Records(r), T)
      BY <2>1, <2>3
    <3> HIDE DEF Theirs
    <3> QED BY <1>2, <2>2, <2>3, <2>4, <2>5, <3>1
  <2>6. CASE r \notin Wired
    <3>1. Keep(Records(r), T) = << >>
      <4>1. PICK rs \in Seq(Arrived) : rs = Records(r) /\ \A i \in 1 .. Len(rs) : rs[i].session = NoSession
        BY <2>6, RecordsAre DEF Wired
      <4> DEFINE D == {a \in Arrived : a.session = NoSession}
      <4>2. rs \in Seq(D)
        <5>1. Len(rs) \in Nat /\ rs = [i \in 1 .. Len(rs) |-> rs[i]] /\ \A i \in 1 .. Len(rs) : rs[i] \in D
          BY <4>1, LenProperties, ElementOfSeq
        <5> QED BY <5>1
      <4>3. D \cap T = {}
        BY DEF MessagingAssumption
      <4> HIDE DEF D, T
      <4> QED BY <4>1, <4>2, <4>3, KeepNone
    <3>2. Theirs(x) \in Seq(Arrived)
      <4>1. RecordLists(x) \in Seq(Seq(Arrived))
        BY RecordListsAre
      <4>2. FlattenSeq(RecordLists(x)) \in Seq(Arrived)
        BY <4>1, FlattenType
      <4> QED BY <4>2, KeepSeq
    <3>3. Theirs(x) \o << >> = Theirs(x)
      <4> HIDE DEF Theirs
      <4> QED BY <3>2, ConcatEmptySeq
    <3> HIDE DEF Theirs
    <3> QED BY <1>2, <2>2, <2>3, <2>4, <2>6, <3>1, <3>3
  <2> QED BY <2>5, <2>6
<1>3. Seq(Resource) \subseteq M
  <2> HIDE DEF M
  <2> QED BY <1>1, <1>2, SeqInduction
<1> QED BY <1>3

\* Of names, those of a kind are the records of that kind.
RecordFor(s) == [name \in STRING |-> [session |-> s, kind |-> MapEvent(name)]]
Named        == {name \in STRING : name # ""}
OfKind(kind) == {name \in STRING : name # "" /\ MapEvent(name) = kind}

LEMMA NamesCount ==
  ASSUME NEW s \in Stamps, NEW kind, NEW names \in Seq(STRING)
  PROVE  Len(Keep(Mapped(RecordFor(s), Keep(names, Named)), {[session |-> s, kind |-> kind]})) =
         Len(Keep(names, OfKind(kind)))
<1> DEFINE T == {[session |-> s, kind |-> kind]}
           Tally(x) == Len(Keep(Mapped(RecordFor(s), Keep(x, Named)), T))
           M == {x \in Seq(STRING) : Tally(x) = Len(Keep(x, OfKind(kind)))}
<1>1. RecordFor(s) \in [STRING -> Arrived]
  BY DEF RecordFor, Arrived, MapEvent, EventKind
<1>2. << >> \in M
  <2>1. Keep(<< >>, Named) = << >> /\ Keep(<< >>, OfKind(kind)) = << >> /\ Keep(<< >>, T) = << >>
    BY KeepEmpty
  <2>2. Mapped(RecordFor(s), << >>) = << >>
    <3>1. << >> \in Seq(STRING) /\ Len(<< >>) = 0
      BY EmptySeq
    <3>2. PICK none \in Seq(STRING) : none = << >>
      BY <3>1
    <3>3. MapOf(Mapped(RecordFor(s), none), RecordFor(s), none, Arrived)
      BY <1>1, MappedIs
    <3>4. Mapped(RecordFor(s), none) \in Seq(Arrived) /\ Len(Mapped(RecordFor(s), none)) = 0
      BY <3>1, <3>2, <3>3 DEF MapOf
    <3> QED BY <3>2, <3>4, EmptySeq
  <2> QED BY <2>1, <2>2, EmptySeq
<1>3. ASSUME NEW x \in Seq(STRING), NEW name \in STRING, x \in M PROVE Append(x, name) \in M
  <2>1. PICK named \in Seq(STRING), kept \in Seq(STRING) :
          named = Keep(x, Named) /\ kept = Keep(x, OfKind(kind))
    BY KeepSeq
  <2>12. Keep(Append(x, name), Named) = IF name \in Named THEN Append(named, name) ELSE named
    BY <2>1, KeepAppend
  <2>13. PICK K : K = OfKind(kind)
    OBVIOUS
  <2>14. Keep(Append(x, name), K) = IF name \in K THEN Append(Keep(x, K), name) ELSE Keep(x, K)
    BY KeepAppend
  <2>2. /\ Keep(Append(x, name), Named) = IF name \in Named THEN Append(named, name) ELSE named
        /\ Keep(Append(x, name), OfKind(kind)) = IF name \in OfKind(kind) THEN Append(kept, name) ELSE kept
    BY <2>1, <2>12, <2>13, <2>14
  <2>3. PICK records \in Seq(Arrived), new \in Arrived :
          records = Mapped(RecordFor(s), named) /\ new = RecordFor(s)[name]
    BY <1>1, <2>1, MappedIs DEF MapOf
  <2>4. Mapped(RecordFor(s), Append(named, name)) = Append(records, new)
    BY <1>1, <2>3, MappedAppend
  <2>5. PICK counted \in Seq(Arrived) : counted = Keep(records, T)
    BY KeepSeq
  <2>6. Keep(Append(records, new), T) = IF new \in T THEN Append(counted, new) ELSE counted
    BY <2>5, KeepAppend
  <2>7. Len(counted) = Len(kept)
    BY <1>3, <2>1, <2>3, <2>5
  <2>8. new \in T <=> MapEvent(name) = kind
    BY <2>3 DEF RecordFor
  <2>9. Len(Append(counted, new)) = Len(counted) + 1 /\ Len(Append(kept, name)) = Len(kept) + 1
    BY AppendProperties
  <2>10. Append(x, name) \in Seq(STRING)
    BY AppendProperties
  <2>11. Tally(Append(x, name)) = Len(Keep(Append(x, name), OfKind(kind)))
    <3> HIDE DEF T
    <3>1. CASE name \notin Named
      <4>1. name \notin OfKind(kind)
        BY <3>1 DEF Named, OfKind
      <4> QED BY <2>2, <2>3, <2>5, <2>7, <3>1, <4>1
    <3>2. CASE name \in Named /\ new \in T
      <4>1. name \in OfKind(kind)
        BY <2>8, <3>2 DEF Named, OfKind
      <4> QED BY <2>2, <2>4, <2>6, <2>7, <2>9, <3>2, <4>1
    <3>3. CASE name \in Named /\ new \notin T
      <4>1. name \notin OfKind(kind)
        BY <2>8, <3>3 DEF OfKind
      <4> QED BY <2>2, <2>4, <2>6, <2>7, <3>3, <4>1
    <3> QED BY <3>1, <3>2, <3>3
  <2> HIDE DEF Tally
  <2> QED BY <2>10, <2>11
<1>4. Seq(STRING) \subseteq M
  <2> HIDE DEF M
  <2> QED BY <1>2, <1>3, SeqInduction
<1> QED BY <1>4

\* The records of a resource are those it holds that have a name.
LEMMA ResourceCounts ==
  ASSUME TelemetryAssumption, NEW resource \in Resource, NEW s, NEW kind
  PROVE  Len(Keep(Records(resource), {[session |-> s, kind |-> kind]})) = Len(Exported(resource, s, kind))
<1>1. PICK names \in Seq(STRING) : names = resource.records
  BY DEF TelemetryAssumption, Resource
<1>2. names \in Seq(ToSet(names)) /\ ToSet(names) \subseteq STRING
  <2>1. /\ Len(names) \in Nat /\ DOMAIN names = 1 .. Len(names) /\ names = [i \in 1 .. Len(names) |-> names[i]]
        /\ \A i \in 1 .. Len(names) : names[i] \in STRING
    BY LenProperties, ElementOfSeq
  <2> QED BY <2>1 DEF ToSet
<1>3. Keep(names, {name \in ToSet(names) : name # ""}) = Keep(names, Named)
  <2> DEFINE U == {name \in ToSet(names) : name # ""}
  <2>1. \A e \in ToSet(names) : e \in U <=> e \in Named
    BY <1>2 DEF Named
  <2> HIDE DEF U
  <2>2. Keep(names, U) = Keep(names, Named)
    BY <1>2, <2>1, KeepAgrees
  <2> QED BY <2>2 DEF U
<1>4. PICK named \in Seq(STRING) : named = Keep(names, Named)
  BY KeepSeq
<1>5. Records(resource) = Mapped(RecordFor(resource.stamp), named)
  <2>1. DOMAIN named = 1 .. Len(named) /\ \A i \in 1 .. Len(named) : named[i] \in STRING
    BY LenProperties, ElementOfSeq
  <2>2. Records(resource) = [i \in DOMAIN named |-> [session |-> resource.stamp, kind |-> MapEvent(named[i])]]
    BY <1>1, <1>3, <1>4 DEF Records
  <2> QED BY <2>1, <2>2 DEF Mapped, RecordFor
<1>6. CASE resource.stamp = s
  <2>1. Keep(names, {name \in ToSet(names) : name # "" /\ MapEvent(name) = kind}) = Keep(names, OfKind(kind))
    <3> DEFINE U == {name \in ToSet(names) : name # "" /\ MapEvent(name) = kind}
    <3>1. PICK K : K = OfKind(kind)
      OBVIOUS
    <3>2. \A e \in ToSet(names) : e \in U <=> e \in K
      BY <1>2, <3>1 DEF OfKind
    <3> HIDE DEF U
    <3>3. Keep(names, U) = Keep(names, K)
      BY <1>2, <3>2, KeepAgrees
    <3> QED BY <3>1, <3>3 DEF U
  <2>2. Exported(resource, s, kind) = Keep(names, OfKind(kind))
    BY <1>1, <1>6, <2>1 DEF Exported
  <2>3. s \in Stamps
    BY <1>6 DEF Stamps
  <2> QED BY <1>4, <1>5, <1>6, <2>2, <2>3, NamesCount
<1>7. CASE resource.stamp # s
  <2>1. Exported(resource, s, kind) = << >>
    BY <1>7 DEF Exported
  <2>2. PICK records \in Seq(Arrived) :
          records = Records(resource) /\ \A i \in 1 .. Len(records) : records[i].session = resource.stamp
    BY RecordsAre
  <2> DEFINE D == {a \in Arrived : a.session # s}
             T == {[session |-> s, kind |-> kind]}
  <2>3. records \in Seq(D)
    <3>1. Len(records) \in Nat /\ records = [i \in 1 .. Len(records) |-> records[i]]
          /\ \A i \in 1 .. Len(records) : records[i] \in D
      BY <1>7, <2>2, LenProperties, ElementOfSeq
    <3> QED BY <3>1
  <2>4. D \cap T = {}
    OBVIOUS
  <2> HIDE DEF D
  <2>5. Keep(records, T) = << >>
    <3> HIDE DEF T
    <3> QED BY <2>3, <2>4, KeepNone
  <2> QED BY <2>1, <2>2, <2>5
<1> QED BY <1>6, <1>7

\* So are those of an export.
LEMMA ExportCounts ==
  ASSUME TelemetryAssumption, NEW export \in Seq(Resource), NEW s, NEW kind
  PROVE  Len(Keep(FlattenSeq(RecordLists(export)), {[session |-> s, kind |-> kind]})) =
         Delivered(export, s, kind)
<1> DEFINE T == {[session |-> s, kind |-> kind]}
           Theirs(x) == Len(Keep(FlattenSeq(RecordLists(x)), T))
           M == {x \in Seq(Resource) : Theirs(x) = Delivered(x, s, kind)}
<1>1. << >> \in M
  <2>1. RecordLists(<< >>) = << >>
    BY EmptySeq DEF RecordLists
  <2>2. Theirs(<< >>) = 0
    BY <2>1, FlattenEmpty, KeepEmpty, EmptySeq
  <2>3. [i \in DOMAIN << >> |-> Exported(<< >>[i], s, kind)] = << >>
    BY EmptySeq
  <2>4. Delivered(<< >>, s, kind) = 0
    BY <2>3, FlattenEmpty, EmptySeq DEF Delivered
  <2> HIDE DEF Theirs
  <2> QED BY <2>2, <2>4, EmptySeq
<1>2. ASSUME NEW x \in Seq(Resource), NEW r \in Resource, x \in M PROVE Append(x, r) \in M
  <2>1. PICK more \in Seq(Resource) : more = Append(x, r)
    BY AppendProperties
  <2>2. PICK rs \in Seq(Arrived), lists \in Seq(Seq(Arrived)) : rs = Records(r) /\ lists = RecordLists(x)
    BY RecordsAre, RecordListsAre
  <2>3. PICK flat \in Seq(Arrived) : flat = FlattenSeq(lists)
    BY FlattenType
  <2>4. FlattenSeq(RecordLists(more)) = flat \o rs
    <3>1. RecordLists(more) = Append(lists, rs)
      BY <2>1, <2>2, RecordListsAppend
    <3>2. FlattenSeq(Append(lists, rs)) = FlattenSeq(lists) \o rs
      BY FlattenAppend
    <3> QED BY <2>3, <3>1, <3>2
  <2>5. Theirs(more) = Theirs(x) + Len(Keep(rs, T))
    <3>1. Keep(flat \o rs, T) = Keep(flat, T) \o Keep(rs, T)
      <4> HIDE DEF T
      <4> QED BY KeepConcat, SMTT(30)
    <3>2. PICK a \in Seq(Arrived), b \in Seq(Arrived) : a = Keep(flat, T) /\ b = Keep(rs, T)
      BY KeepSeq
    <3>3. Len(a \o b) = Len(a) + Len(b)
      BY ConcatProperties
    <3>4. Theirs(more) = Len(a \o b) /\ Theirs(x) = Len(a)
      BY <2>2, <2>3, <2>4, <3>1, <3>2
    <3> HIDE DEF Theirs
    <3> QED BY <3>2, <3>3, <3>4
  <2>6. Delivered(more, s, kind) = Delivered(x, s, kind) + Len(Exported(r, s, kind))
    <3>1. PICK f \in [Resource -> Seq(STRING)] : f = ExportedBy(s, kind)
      BY ExportedByIs
    <3>2. PICK names \in Seq(Seq(STRING)), new \in Seq(STRING) : names = Mapped(f, x) /\ new = f[r]
      BY <3>1, MappedIs DEF MapOf
    <3>3. Mapped(f, more) = Append(names, new)
      BY <2>1, <3>1, <3>2, MappedAppend
    <3>4. FlattenSeq(Append(names, new)) = FlattenSeq(names) \o new
      BY FlattenAppend
    <3>5. PICK all \in Seq(STRING) : all = FlattenSeq(names)
      BY FlattenType
    <3>6. Len(all \o new) = Len(all) + Len(new)
      BY ConcatProperties
    <3>7. Delivered(more, s, kind) = Len(all \o new) /\ Delivered(x, s, kind) = Len(all)
      BY <3>1, <3>2, <3>3, <3>4, <3>5, DeliveredIs
    <3>8. new = Exported(r, s, kind)
      BY <3>1, <3>2 DEF ExportedBy
    <3> QED BY <3>6, <3>7, <3>8
  <2>7. Len(Keep(rs, T)) = Len(Exported(r, s, kind))
    BY <2>2, ResourceCounts
  <2>8. Theirs(x) = Delivered(x, s, kind)
    BY <1>2
  <2> HIDE DEF Theirs, T
  <2> QED BY <2>1, <2>5, <2>6, <2>7, <2>8
<1>3. Seq(Resource) \subseteq M
  <2> HIDE DEF M
  <2> QED BY <1>1, <1>2, SeqInduction
<1> QED BY <1>3

\* An export parsed holds what its exporter will believe delivered, ...
LEMMA ParsedDelivers ==
  ASSUME Assumptions, NEW export \in Seq(Resource), NEW s \in Session, NEW kind
  PROVE  Left(ParseLogsExport(export), s, kind) = Delivered(export, s, kind)
<1>1. Keep(export, {resource \in ToSet(export) : resource.stamp # NoSession}) = Keep(export, Wired)
  <2> DEFINE T == {resource \in ToSet(export) : resource.stamp # NoSession}
  <2>1. ToSet(export) \subseteq Resource /\ export \in Seq(ToSet(export))
    <3>1. export \in [1 .. Len(export) -> Resource] /\ DOMAIN export = 1 .. Len(export) /\ Len(export) \in Nat
      BY LenProperties
    <3>2. ToSet(export) = {export[i] : i \in 1 .. Len(export)}
      BY <3>1 DEF ToSet
    <3> QED BY <3>1, <3>2
  <2>2. \A r \in ToSet(export) : r \in T <=> r \in Wired
    BY <2>1 DEF Wired
  <2> HIDE DEF T
  <2>3. Keep(export, T) = Keep(export, Wired)
    BY <2>1, <2>2, KeepAgrees
  <2> QED BY <2>3 DEF T
<1>2. ParseLogsExport(export) = FlattenSeq(RecordLists(Keep(export, Wired)))
  BY <1>1 DEF ParseLogsExport, RecordLists
<1>3. Delivered(export, s, kind) = Len(Keep(FlattenSeq(RecordLists(export)), {[session |-> s, kind |-> kind]}))
  BY ExportCounts DEF Assumptions
<1>4. Keep(FlattenSeq(RecordLists(Keep(export, Wired))), {[session |-> s, kind |-> kind]}) =
      Keep(FlattenSeq(RecordLists(export)), {[session |-> s, kind |-> kind]})
  BY StampedKeepTheirs DEF Assumptions
<1> QED BY <1>2, <1>3, <1>4 DEF Left

\* ... and only records of the workers its resources name.
LEMMA ParsedFrom ==
  ASSUME Assumptions, NEW export \in Seq(Resource), NEW Q,
         \A i \in 1 .. Len(export) : export[i].stamp \in Q
  PROVE  ParseLogsExport(export) \in Seq({record \in Arrived : record.session \in Q})
<1> DEFINE R == {resource \in Resource : resource.stamp \in Q}
           A == {record \in Arrived : record.session \in Q}
           T == {resource \in ToSet(export) : resource.stamp # NoSession}
<1>1. export \in Seq(R)
  <2>1. Len(export) \in Nat /\ export = [i \in 1 .. Len(export) |-> export[i]]
    BY LenProperties
  <2>2. \A i \in 1 .. Len(export) : export[i] \in R
    BY ElementOfSeq
  <2> QED BY <2>1, <2>2
<1>2. Keep(export, T) \in Seq(R)
  <2> HIDE DEF R, T
  <2> QED BY <1>1, KeepSeq
<1>3. PICK kept \in Seq(R) : kept = Keep(export, T)
  BY <1>2
<1>4. ASSUME NEW r \in R PROVE Records(r) \in Seq(A)
  <2>1. PICK rs \in Seq(Arrived) : rs = Records(r) /\ \A i \in 1 .. Len(rs) : rs[i].session = r.stamp
    <3>1. Records(r) \in Seq(Arrived) /\ \A i \in 1 .. Len(Records(r)) : Records(r)[i].session = r.stamp
      BY RecordsAre DEF Assumptions
    <3> QED BY <3>1
  <2>2. Len(rs) \in Nat /\ rs = [i \in 1 .. Len(rs) |-> rs[i]] /\ \A i \in 1 .. Len(rs) : rs[i] \in A
    BY <2>1, LenProperties, ElementOfSeq
  <2> QED BY <2>1, <2>2
<1>5. RecordLists(kept) \in Seq(Seq(A))
  <2> HIDE DEF R, A
  <2>1. Len(kept) \in Nat /\ DOMAIN kept = 1 .. Len(kept) /\ \A i \in 1 .. Len(kept) : kept[i] \in R
    BY LenProperties, ElementOfSeq
  <2>2. RecordLists(kept) = [i \in 1 .. Len(kept) |-> Records(kept[i])]
    BY <2>1 DEF RecordLists
  <2>3. \A i \in 1 .. Len(kept) : Records(kept[i]) \in Seq(A)
    BY <1>4, <2>1
  <2> QED BY <2>1, <2>2, <2>3
<1>6. FlattenSeq(RecordLists(kept)) \in Seq(A)
  <2> HIDE DEF A
  <2> QED BY <1>5, FlattenType
<1> QED BY <1>3, <1>6 DEF ParseLogsExport, RecordLists

\* An empty export delivers nothing.
LEMMA NothingDelivered ==
  ASSUME NEW s, NEW kind
  PROVE  Delivered(<< >>, s, kind) = 0 /\ Left(<< >>, s, kind) = 0
<1>1. [i \in DOMAIN << >> |-> Exported(<< >>[i], s, kind)] = << >>
  BY EmptySeq
<1>2. Delivered(<< >>, s, kind) = 0
  BY <1>1, FlattenEmpty, EmptySeq DEF Delivered
<1> QED BY <1>2, KeepEmpty, EmptySeq DEF Left

\* Every export delivers a number of records.
LEMMA DeliveredIsNat ==
  ASSUME Assumptions, NEW export \in Seq(Resource), NEW s, NEW kind
  PROVE  Delivered(export, s, kind) \in Nat
BY DeliveredCounts DEF Assumptions

(***************************************************************************)
(* What is owed to exporters is stored, and what is being taken is stored  *)
(* or left; what is left is of sessions that were dispatched.              *)
(***************************************************************************)
Paid(owing, es) == \A s \in Session, kind \in EventKind : owing[s][kind] <= StoredIn(es, s, kind)

Accounted(owing, body, left, es) ==
  \A s \in Session, kind \in EventKind :
    owing[s][kind] + Delivered(body, s, kind) <= StoredIn(es, s, kind) + Left(left, s, kind)

\* What may be left: strangers, and sessions with a row.
Held(onDisk)  == {stamp \in Stamps : stamp \in Session => onDisk[stamp] # "none"}
ArrivedFor(Q) == {record \in Arrived : record.session \in Q}

StoredInv ==
  sinkFails = 0 =>
    /\ Paid(owed, disk.events)
    /\ \A p \in Proc : /\ Accounted(owed, serving[p].body, serving[p].left, disk.events)
                       /\ serving[p].left \in Seq(ArrivedFor(Held(disk.rows)))

\* A mirror that grows keeps its accounts.
LEMMA GrownAccounts ==
  ASSUME NEW es \in Seq(Event), NEW new \in Seq(Event),
         NEW owing \in [Session -> [EventKind -> Nat]], Paid(owing, es)
  PROVE  /\ Paid(owing, es \o new)
         /\ \A body \in Seq(Resource), left \in Seq(Arrived) :
              Assumptions /\ Accounted(owing, body, left, es) => Accounted(owing, body, left, es \o new)
<1>1. ASSUME NEW s \in Session, NEW kind \in EventKind
      PROVE  /\ StoredIn(es, s, kind) \in Nat /\ StoredIn(es \o new, s, kind) \in Nat
             /\ StoredIn(es \o new, s, kind) >= StoredIn(es, s, kind) /\ owing[s][kind] \in Nat
  BY StoredGrows
<1>2. Paid(owing, es \o new)
  <2> SUFFICES ASSUME NEW s \in Session, NEW kind \in EventKind
               PROVE  owing[s][kind] <= StoredIn(es \o new, s, kind)
    BY DEF Paid
  <2>1. owing[s][kind] <= StoredIn(es, s, kind)
    BY DEF Paid
  <2> QED BY <1>1, <2>1
<1>3. ASSUME NEW body \in Seq(Resource), NEW left \in Seq(Arrived), Assumptions, Accounted(owing, body, left, es)
      PROVE  Accounted(owing, body, left, es \o new)
  <2> SUFFICES ASSUME NEW s \in Session, NEW kind \in EventKind
               PROVE  owing[s][kind] + Delivered(body, s, kind) <= StoredIn(es \o new, s, kind) + Left(left, s, kind)
    BY DEF Accounted
  <2>1. owing[s][kind] + Delivered(body, s, kind) <= StoredIn(es, s, kind) + Left(left, s, kind)
    BY <1>3 DEF Accounted
  <2>2. Delivered(body, s, kind) \in Nat /\ Left(left, s, kind) \in Nat
    BY <1>3, DeliveredIsNat, LeftIsNat
  <2> QED BY <1>1, <2>1, <2>2
<1> QED BY <1>2, <1>3

\* A record taken: stored, or of a stranger.
LEMMA TakenAccounts ==
  ASSUME Assumptions, NEW es \in Seq(Event), NEW owing \in [Session -> [EventKind -> Nat]],
         NEW body \in Seq(Resource), NEW left \in Seq(Arrived), left # << >>,
         Accounted(owing, body, left, es)
  PROVE  /\ \A e \in Event : e.session = Head(left).session /\ e.kind = Head(left).kind
              => Accounted(owing, body, Tail(left), es \o <<e>>)
         /\ Head(left).session \notin Session => Accounted(owing, body, Tail(left), es)
<1>0. Tail(left) \in Seq(Arrived)
  BY HeadTailProperties
<1>1. ASSUME NEW s \in Session, NEW kind \in EventKind
      PROVE  /\ owing[s][kind] \in Nat /\ Delivered(body, s, kind) \in Nat
             /\ StoredIn(es, s, kind) \in Nat /\ Left(Tail(left), s, kind) \in Nat
             /\ owing[s][kind] + Delivered(body, s, kind) <= StoredIn(es, s, kind) + Left(left, s, kind)
  <2>1. StoredIn(es, s, kind) \in Nat
    BY EmptySeq, StoredGrows
  <2>2. Delivered(body, s, kind) \in Nat /\ Left(Tail(left), s, kind) \in Nat
    BY <1>0, DeliveredIsNat, LeftIsNat
  <2> QED BY <2>1, <2>2 DEF Accounted
<1>2. ASSUME NEW e \in Event, e.session = Head(left).session, e.kind = Head(left).kind
      PROVE  Accounted(owing, body, Tail(left), es \o <<e>>)
  <2> SUFFICES ASSUME NEW s \in Session, NEW kind \in EventKind
               PROVE  owing[s][kind] + Delivered(body, s, kind)
                        <= StoredIn(es \o <<e>>, s, kind) + Left(Tail(left), s, kind)
    BY DEF Accounted
  <2>1. StoredIn(es \o <<e>>, s, kind) \in Nat /\ StoredIn(es \o <<e>>, s, kind) >= StoredIn(es, s, kind)
    <3>1. <<e>> \in Seq(Event)
      OBVIOUS
    <3>2. PICK new \in Seq(Event) : new = <<e>>
      BY <3>1
    <3>3. StoredIn(es \o new, s, kind) \in Nat /\ StoredIn(es \o new, s, kind) >= StoredIn(es, s, kind)
      BY StoredGrows
    <3> QED BY <3>2, <3>3
  <2>2. CASE e.session = s /\ e.kind = kind
    <3>1. StoredIn(es \o <<e>>, s, kind) >= StoredIn(es, s, kind) + 1
      BY <2>2, StoredOneMore
    <3>2. Left(left, s, kind) = 1 + Left(Tail(left), s, kind)
      BY <1>2, <2>2, LeftOfTail
    <3> QED BY <1>1, <2>1, <3>1, <3>2
  <2>3. CASE ~(e.session = s /\ e.kind = kind)
    <3>1. Left(left, s, kind) = Left(Tail(left), s, kind)
      BY <1>2, <2>3, LeftOfTail
    <3> QED BY <1>1, <2>1, <3>1
  <2> QED BY <2>2, <2>3
<1>3. ASSUME Head(left).session \notin Session PROVE Accounted(owing, body, Tail(left), es)
  <2> SUFFICES ASSUME NEW s \in Session, NEW kind \in EventKind
               PROVE  owing[s][kind] + Delivered(body, s, kind) <= StoredIn(es, s, kind) + Left(Tail(left), s, kind)
    BY DEF Accounted
  <2>1. Left(left, s, kind) = Left(Tail(left), s, kind)
    BY <1>3, LeftOfTail
  <2> QED BY <1>1, <2>1
<1> QED BY <1>2, <1>3

\* Without a request there is nothing to account for.
LEMMA IdleAccounts ==
  ASSUME Assumptions, NEW es \in Seq(Event), NEW owing \in [Session -> [EventKind -> Nat]], Paid(owing, es)
  PROVE  Accounted(owing, << >>, << >>, es)
<1> SUFFICES ASSUME NEW s \in Session, NEW kind \in EventKind
             PROVE  owing[s][kind] + Delivered(<< >>, s, kind) <= StoredIn(es, s, kind) + Left(<< >>, s, kind)
  BY DEF Accounted
<1>1. Delivered(<< >>, s, kind) = 0 /\ Left(<< >>, s, kind) = 0
  BY NothingDelivered
<1>2. StoredIn(es, s, kind) \in Nat
  BY EmptySeq, StoredGrows
<1>3. owing[s][kind] \in Nat /\ owing[s][kind] <= StoredIn(es, s, kind)
  BY DEF Paid
<1> QED BY <1>1, <1>2, <1>3

\* More dispatched sessions, more that may be left.
LEMMA HeldGrows ==
  ASSUME RowsStay, NEW left \in Seq(ArrivedFor(Held(disk.rows)))
  PROVE  left \in Seq(ArrivedFor(Held(disk'.rows)))
<1>1. ArrivedFor(Held(disk.rows)) \subseteq ArrivedFor(Held(disk'.rows))
  BY DEF RowsStay, ArrivedFor, Held
<1> QED BY <1>1, SeqMonotonic

\* Every step that is written keeps the accounts.
LEMMA StoredKept ==
  ASSUME Assumptions, MaxOpen = 1, Unknown = {}, Alone, StoredInv, [TelemetryNext]_telemetryVars,
         sinkFails' = 0
  PROVE  /\ Paid(owed', disk'.events)
         /\ \A p \in Proc : /\ Accounted(owed', serving'[p].body, serving'[p].left, disk'.events)
                            /\ serving'[p].left \in Seq(ArrivedFor(Held(disk'.rows)))
<1> DEFINE Goal == /\ Paid(owed', disk'.events)
                   /\ \A p \in Proc : /\ Accounted(owed', serving'[p].body, serving'[p].left, disk'.events)
                                      /\ serving'[p].left \in Seq(ArrivedFor(Held(disk'.rows)))
<1>1. Types /\ AckInv /\ SyncInv /\ MailInv
  BY DEF Alone
<1>2. /\ Alone' /\ sinkFails = 0 /\ RowsStay
      /\ LogStays \/ LogGrows \/ LogPosts \/ LogAcks
  BY AloneKept
<1>3. /\ up \subseteq Proc /\ disk.events \in Seq(Event) /\ Memory
      /\ serving \in [Proc -> [busy : BOOLEAN, left : Seq(Arrived), body : Seq(Resource)]]
      /\ owed \in [Session -> [EventKind -> Nat]] /\ \A p \in Proc \ up : serving[p] = NoRequest
  BY <1>1 DEF Types, Receivers, Memory, Disks
<1>4. disk'.events \in Seq(Event) /\ owed' \in [Session -> [EventKind -> Nat]]
  BY <1>2 DEF Alone, Types, Receivers, Memory, Disks
<1>5. /\ Paid(owed, disk.events)
      /\ \A p \in Proc : /\ Accounted(owed, serving[p].body, serving[p].left, disk.events)
                         /\ serving[p].left \in Seq(ArrivedFor(Held(disk.rows)))
  BY <1>2 DEF StoredInv
<1>6. PICK new \in Seq(Event) : disk'.events = disk.events \o new
  BY <1>2, <1>3, LogExtends
<1>7. ASSUME owed' = owed
      PROVE  /\ Paid(owed', disk'.events)
             /\ \A p \in Proc : /\ Accounted(owed', serving[p].body, serving[p].left, disk'.events)
                                /\ serving[p].left \in Seq(ArrivedFor(Held(disk'.rows)))
  <2>1. Paid(owed, disk.events \o new)
    BY <1>3, <1>5, GrownAccounts
  <2>2. ASSUME NEW p \in Proc PROVE Accounted(owed, serving[p].body, serving[p].left, disk.events \o new)
    <3>1. PICK body \in Seq(Resource), left \in Seq(Arrived) : body = serving[p].body /\ left = serving[p].left
      BY <1>3
    <3>2. Accounted(owed, body, left, disk.events)
      BY <1>5, <3>1
    <3>3. Accounted(owed, body, left, disk.events \o new)
      BY <1>3, <1>5, <3>2, GrownAccounts
    <3> QED BY <3>1, <3>3
  <2>3. \A p \in Proc : serving[p].left \in Seq(ArrivedFor(Held(disk'.rows)))
    BY <1>2, <1>5, HeldGrows
  <2> QED BY <1>6, <1>7, <2>1, <2>2, <2>3
<1>8. ASSUME NEW p \in Proc, Paid(owed', disk'.events), serving'[p] = NoRequest
      PROVE  /\ Accounted(owed', serving'[p].body, serving'[p].left, disk'.events)
             /\ serving'[p].left \in Seq(ArrivedFor(Held(disk'.rows)))
  <2>1. serving'[p].body = << >> /\ serving'[p].left = << >>
    BY <1>8 DEF NoRequest
  <2>2. Accounted(owed', << >>, << >>, disk'.events)
    BY <1>4, <1>8, IdleAccounts
  <2> QED BY <2>1, <2>2, EmptySeq
<1>9. CASE Next /\ serving' = [p \in Proc |-> IF p \in up' THEN serving[p] ELSE NoRequest] /\ UNCHANGED owed
  <2>1. \A p \in Proc : serving'[p] = serving[p] \/ serving'[p] = NoRequest
    BY <1>9
  <2> QED BY <1>7, <1>8, <1>9, <2>1
<1>10. ASSUME NEW p \in Proc, NEW export \in Exports, Request(p, export) PROVE Goal
  <2>1. /\ UNCHANGED <<disk, owed>>
        /\ \A i \in DOMAIN export : export[i].stamp \in Session => disk.rows[export[i].stamp] # "none"
        /\ serving' = [serving EXCEPT ![p] = [busy |-> TRUE, left |-> ParseLogsExport(export), body |-> export]]
    BY <1>10 DEF Request, vars
  <2>2. export \in Seq(Resource)
    BY ExportsAreRead DEF Assumptions
  <2>3. \A i \in 1 .. Len(export) : export[i].stamp \in Held(disk.rows)
    <3>1. DOMAIN export = 1 .. Len(export) /\ \A i \in 1 .. Len(export) : export[i] \in Resource
      BY <2>2, LenProperties, ElementOfSeq
    <3> QED BY <2>1, <3>1 DEF Held, Stamps
  <2>4. ParseLogsExport(export) \in Seq(ArrivedFor(Held(disk.rows)))
    BY <2>2, <2>3, ParsedFrom DEF ArrivedFor
  <2>5. Accounted(owed, export, ParseLogsExport(export), disk.events)
    <3> SUFFICES ASSUME NEW s \in Session, NEW kind \in EventKind
                 PROVE  owed[s][kind] + Delivered(export, s, kind)
                          <= StoredIn(disk.events, s, kind) + Left(ParseLogsExport(export), s, kind)
      BY DEF Accounted
    <3>1. Left(ParseLogsExport(export), s, kind) = Delivered(export, s, kind)
      BY <2>2, ParsedDelivers
    <3>2. Delivered(export, s, kind) \in Nat /\ StoredIn(disk.events, s, kind) \in Nat
      BY <1>3, <2>2, DeliveredIsNat, StoredGrows
    <3>3. owed[s][kind] \in Nat /\ owed[s][kind] <= StoredIn(disk.events, s, kind)
      BY <1>3, <1>5 DEF Paid
    <3> QED BY <3>1, <3>2, <3>3
  <2>6. serving'[p].body = export /\ serving'[p].left = ParseLogsExport(export)
    BY <1>3, <2>1
  <2>7. \A q \in Proc \ {p} : serving'[q] = serving[q]
    BY <1>3, <2>1
  <2> QED BY <1>7, <2>1, <2>4, <2>5, <2>6, <2>7
<1>11. ASSUME NEW p \in Proc, Ingest(p) PROVE Goal
  <2>1. PICK left \in Seq(Arrived), body \in Seq(Resource) : left = serving[p].left /\ body = serving[p].body
    BY <1>3
  <2>2. /\ p \in up /\ left # << >> /\ UNCHANGED owed
        /\ serving' = [serving EXCEPT ![p].left = Tail(@)]
    BY <1>11, <2>1 DEF Ingest
  <2>3. Synced(p) /\ Dense(disk.events)
    BY <1>1, <1>2, <2>2 DEF SyncInv
  <2>4. serving'[p].left = Tail(left) /\ serving'[p].body = body
    BY <1>3, <2>1, <2>2
  <2>5. \A q \in Proc \ {p} : serving'[q] = serving[q]
    BY <1>3, <2>2
  <2>6. Head(left) \in ArrivedFor(Held(disk.rows)) /\ Tail(left) \in Seq(ArrivedFor(Held(disk.rows)))
    <3>1. left \in Seq(ArrivedFor(Held(disk.rows)))
      BY <1>5, <2>1
    <3> QED BY <2>2, <3>1, HeadTailProperties
  <2>7. Tail(left) \in Seq(ArrivedFor(Held(disk'.rows)))
    BY <1>2, <2>6, HeldGrows
  <2>8. Accounted(owed, body, left, disk.events)
    BY <1>5, <2>1
  <2>9. Accounted(owed, body, Tail(left), disk'.events)
    <3>1. CASE Head(left).session \in Known(p)
      <4>1. Head(left) \in Arrived
        BY <2>6 DEF ArrivedFor
      <4>2. PICK s \in Session, kind \in EventKind \ {"mail"} : s = Head(left).session /\ kind = Head(left).kind
        BY <3>1, <4>1 DEF Known, Arrived
      <4>3. /\ Push(p, NewEvents(p, <<s>>, kind)) /\ Mirror(p, {}, NewEvents(p, <<s>>, kind), << >>)
            /\ UNCHANGED <<up, probed, rows, messages>>
        BY <1>11, <2>1, <3>1, <4>2 DEF Ingest
      <4>4. RowsMove(p, {}) /\ {} \in SUBSET Session
        BY <1>3, <4>3, SameRowsMove
      <4>5. PICK e \in Event : LogsAs(p, {}, e) /\ e.session = s /\ e.kind = kind
        <5>1. PICK S \in SUBSET Session : S = {} /\ RowsMove(p, S) /\ Mirror(p, S, NewEvents(p, <<s>>, kind), << >>)
          BY <4>3, <4>4
        <5>2. \E e \in Event : LogsAs(p, S, e) /\ e.session = s /\ e.kind = kind
          <6>1. UNCHANGED <<up, probed, messages>> /\ Push(p, NewEvents(p, <<s>>, kind)) /\ Memory /\ p \in up
            BY <1>3, <2>2, <4>3
          <6> QED BY <5>1, <6>1, LogsAre
        <5> QED BY <5>1, <5>2
      <4>6. disk'.events = Upsert(disk.events, <<e>>, EventKey)
        BY <4>5 DEF LogsAs, Written
      <4>7. e.idx = Count(disk.events, e.session)
        BY <2>3, <4>5 DEF LogsAs, Synced
      <4>8. disk'.events = disk.events \o <<e>>
        BY <1>3, <2>3, <4>6, <4>7, NextEvent
      <4>9. Accounted(owed, body, Tail(left), disk.events \o <<e>>)
        BY <1>3, <2>2, <2>8, <4>2, <4>5, TakenAccounts
      <4> QED BY <4>8, <4>9
    <3>2. CASE Head(left).session \notin Known(p)
      <4>1. Head(left).session \notin Session
        BY <2>3, <2>6, <3>2 DEF ArrivedFor, Held, Known, Synced
      <4>2. UNCHANGED disk
        BY <1>11, <2>1, <3>2 DEF Ingest
      <4>3. Accounted(owed, body, Tail(left), disk.events)
        BY <1>3, <2>2, <2>8, <4>1, TakenAccounts
      <4> QED BY <4>2, <4>3
    <3> QED BY <3>1, <3>2
  <2> QED BY <1>7, <2>2, <2>4, <2>5, <2>7, <2>9
<1>12. ASSUME NEW p \in Proc, Respond(p) PROVE Goal
  <2>1. PICK left \in Seq(Arrived), body \in Seq(Resource) : left = serving[p].left /\ body = serving[p].body
    BY <1>3
  <2>2. /\ p \in up /\ left = << >> /\ UNCHANGED disk /\ serving' = [serving EXCEPT ![p] = NoRequest]
        /\ owed' = [s \in Session |-> [kind \in EventKind |-> owed[s][kind] + Delivered(body, s, kind)]]
    BY <1>12, <2>1 DEF Respond, vars
  <2>3. Paid(owed', disk'.events)
    <3> SUFFICES ASSUME NEW s \in Session, NEW kind \in EventKind
                 PROVE  owed'[s][kind] <= StoredIn(disk.events, s, kind)
      BY <2>2 DEF Paid
    <3>1. owed'[s][kind] = owed[s][kind] + Delivered(body, s, kind)
      BY <2>2
    <3>2. owed[s][kind] + Delivered(body, s, kind) <= StoredIn(disk.events, s, kind) + Left(<< >>, s, kind)
      BY <1>5, <2>1, <2>2 DEF Accounted
    <3>3. Left(<< >>, s, kind) = 0 /\ StoredIn(disk.events, s, kind) \in Nat
      BY <1>3, NothingDelivered, StoredGrows
    <3> QED BY <3>1, <3>2, <3>3
  <2>4. \A q \in Proc : serving'[q] = NoRequest
    <3>1. \A q \in Proc \ {p} : q \notin up
      BY <1>1, <2>2 DEF AckInv, OneOpen
    <3> QED BY <1>3, <2>2, <3>1
  <2> QED BY <1>8, <2>3, <2>4
<1>13. CASE UNCHANGED telemetryVars
  BY <1>7, <1>13 DEF telemetryVars, vars
<1> HIDE DEF Goal
<1>14. Goal
  BY <1>9, <1>10, <1>11, <1>12, <1>13 DEF TelemetryNext, Goal
<1> QED BY <1>14 DEF Goal

\* While one process at a time has the mirror open and no write fails, an export that
\* was answered with ok is stored: each of its records of a dispatched session that has
\* a name has its event (the sink of start_otel), across deaths between two records and
\* retries.  Of records without a name it says nothing: parse_logs_export drops them.
THEOREM AnsweredIsStored ==
  ASSUME MaxOpen = 1, Unknown = {}
  PROVE  TelemetrySpec => []AcceptedIsStored
<1>1. TelemetryInit => Alone /\ StoredInv
  <2>1. ASSUME TelemetryInit PROVE StoredInv
    <3>1. /\ disk.events = << >> /\ owed \in [Session -> [EventKind -> Nat]]
          /\ \A p \in Proc : serving[p].body = << >> /\ serving[p].left = << >>
          /\ \A s \in Session, kind \in EventKind : owed[s][kind] = 0
      BY <2>1 DEF TelemetryInit, Init, NoRequest
    <3>2. << >> \in Seq(Event)
      BY EmptySeq
    <3>3. Paid(owed, << >>)
      <4>1. \A s \in Session, kind \in EventKind : StoredIn(<< >>, s, kind) \in Nat
        BY <3>2, StoredGrows
      <4> QED BY <3>1, <4>1 DEF Paid
    <3>4. Accounted(owed, << >>, << >>, << >>)
      BY <3>1, <3>2, <3>3, IdleAccounts, AssumptionsHold
    <3> QED BY <3>1, <3>3, <3>4, EmptySeq DEF StoredInv
  <2> QED BY <2>1, AloneInit, AssumptionsHold
<1>2. Alone /\ StoredInv /\ [TelemetryNext]_telemetryVars => (Alone /\ StoredInv)'
  <2> SUFFICES ASSUME Alone, StoredInv, [TelemetryNext]_telemetryVars PROVE Alone' /\ StoredInv'
    OBVIOUS
  <2>1. Alone'
    BY AloneKept, AssumptionsHold
  <2>2. sinkFails' = 0 =>
          /\ Paid(owed', disk'.events)
          /\ \A p \in Proc : /\ Accounted(owed', serving'[p].body, serving'[p].left, disk'.events)
                             /\ serving'[p].left \in Seq(ArrivedFor(Held(disk'.rows)))
    BY StoredKept, AssumptionsHold
  <2> QED BY <2>1, <2>2 DEF StoredInv
<1>3. StoredInv => AcceptedIsStored
  BY DEF StoredInv, Paid, AcceptedIsStored, Stored, StoredIn
<1> QED BY <1>1, <1>2, <1>3, PTL DEF TelemetrySpec
=============================================================================
