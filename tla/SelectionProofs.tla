---------------------------- MODULE SelectionProofs ----------------------------
(***************************************************************************)
(* Induction in the form the provers can use, over sets instead of         *)
(* predicates, and with it what Keep does to every sequence.               *)
(***************************************************************************)
EXTENDS Selection, Functions, SequenceTheorems, WellFoundedInduction, TLAPS

(***************************************************************************)
(* Induction.                                                              *)
(***************************************************************************)
\* A set of numbers has a least one.
LEMMA LeastNumber ==
  ASSUME NEW M, M \subseteq Nat, M # {}
  PROVE  \E x \in M : \A y \in M : x <= y
<1> DEFINE R == OpToRel(<, Nat)
<1>1. IsWellFoundedOn(R, Nat)
  BY NatLessThanWellFounded
<1>2. \A x, y \in Nat : y < x => <<y, x>> \in R
  BY DEF OpToRel
<1> HIDE DEF R
<1>3. PICK x \in M : \A y \in M : <<y, x>> \notin R
  BY <1>1, WFMin
<1>4. \A y \in M : x \in Nat /\ y \in Nat /\ ~(y < x)
  BY <1>2, <1>3
<1> QED BY <1>4

\* A set with 0 and with the successor of each of its numbers has them all.
LEMMA SetInduction ==
  ASSUME NEW M, 0 \in M, \A n \in Nat : n \in M => n + 1 \in M
  PROVE  Nat \subseteq M
<1> SUFFICES ASSUME Nat \ M # {} PROVE FALSE
  OBVIOUS
<1>1. PICK x \in Nat \ M : \A y \in Nat \ M : x <= y
  BY LeastNumber
<1>2. x # 0 /\ x - 1 \in Nat
  BY <1>1
<1>3. x - 1 \in M
  BY <1>1, <1>2
<1> QED BY <1>1, <1>2, <1>3

\* ... and so for sequences, which grow at their end.
LEMMA SeqInduction ==
  ASSUME NEW S, NEW M, << >> \in M, \A s \in Seq(S) : \A e \in S : s \in M => Append(s, e) \in M
  PROVE  Seq(S) \subseteq M
<1> DEFINE Lengths == {n \in Nat : \A s \in Seq(S) : Len(s) = n => s \in M}
<1>1. 0 \in Lengths
  BY EmptySeq
<1>2. ASSUME NEW n \in Nat, n \in Lengths PROVE n + 1 \in Lengths
  <2> SUFFICES ASSUME NEW s \in Seq(S), Len(s) = n + 1 PROVE s \in M
    OBVIOUS
  <2>1. s # << >>
    BY <1>2
  <2>2. PICK t \in Seq(S), e \in S : s = Append(t, e)
    BY <2>1, SequenceEmptyOrAppend
  <2>3. Len(t) = n
    BY <2>2, AppendProperties, LenProperties
  <2> QED BY <1>2, <2>2, <2>3
<1>3. Nat \subseteq Lengths
  <2> HIDE DEF Lengths
  <2> QED BY <1>1, <1>2, SetInduction
<1> QED BY <1>3, LenProperties

(***************************************************************************)
(* Keep.                                                                   *)
(***************************************************************************)
\* f follows the recursion of Keep on the first n elements of s.
Follows(f, s, T, n) ==
  /\ f[0] = << >>
  /\ \A i \in 1 .. n : f[i] = IF s[i] \in T THEN Append(f[i - 1], s[i]) ELSE f[i - 1]

LEMMA FollowerExists ==
  ASSUME NEW s, NEW T, NEW n \in Nat
  PROVE  \E f : f = [i \in 0 .. n |-> f[i]] /\ Follows(f, s, T, n)
<1> DEFINE M == {m \in Nat : \E f : f = [i \in 0 .. m |-> f[i]] /\ Follows(f, s, T, m)}
<1>1. 0 \in M
  <2> DEFINE g == [i \in 0 .. 0 |-> << >>]
  <2>1. g = [i \in 0 .. 0 |-> g[i]] /\ Follows(g, s, T, 0)
    BY DEF Follows
  <2> HIDE DEF g
  <2> QED BY <2>1
<1>2. ASSUME NEW m \in Nat, m \in M PROVE m + 1 \in M
  <2>1. PICK f : f = [i \in 0 .. m |-> f[i]] /\ Follows(f, s, T, m)
    BY <1>2
  <2> DEFINE g == [i \in 0 .. m + 1 |->
                     IF i <= m THEN f[i] ELSE IF s[i] \in T THEN Append(f[m], s[i]) ELSE f[m]]
  <2>2. g[0] = << >>
    BY <2>1 DEF Follows
  <2>3. ASSUME NEW i \in 1 .. m + 1
        PROVE  g[i] = IF s[i] \in T THEN Append(g[i - 1], s[i]) ELSE g[i - 1]
    <3>1. g[i - 1] = f[i - 1]
      OBVIOUS
    <3>2. CASE i = m + 1
      BY <3>1, <3>2
    <3>3. CASE i \in 1 .. m
      <4>1. g[i] = f[i]
        BY <3>3
      <4> QED BY <2>1, <3>1, <3>3, <4>1 DEF Follows
    <3> QED BY <3>2, <3>3
  <2>4. g = [i \in 0 .. m + 1 |-> g[i]]
    OBVIOUS
  <2> HIDE DEF g
  <2>5. Follows(g, s, T, m + 1)
    BY <2>2, <2>3 DEF Follows
  <2> QED BY <2>4, <2>5
<1>3. Nat \subseteq M
  <2> HIDE DEF M
  <2> QED BY <1>1, <1>2, SetInduction
<1> QED BY <1>3

LEMMA FollowerIsUnique ==
  ASSUME NEW s, NEW t, NEW T, NEW n \in Nat, NEW f, NEW g, Follows(f, s, T, n), Follows(g, t, T, n),
         \A i \in 1 .. n : s[i] = t[i]
  PROVE  f[n] = g[n]
<1> DEFINE M == {m \in Nat : m <= n => f[m] = g[m]}
<1>1. 0 \in M
  BY DEF Follows
<1>2. ASSUME NEW m \in Nat, m \in M PROVE m + 1 \in M
  <2> SUFFICES ASSUME m + 1 <= n PROVE f[m + 1] = g[m + 1]
    OBVIOUS
  <2>1. m + 1 \in 1 .. n /\ (m + 1) - 1 = m /\ f[m] = g[m]
    BY <1>2
  <2> QED BY <2>1 DEF Follows
<1>3. Nat \subseteq M
  <2> HIDE DEF M
  <2> QED BY <1>1, <1>2, SetInduction
<1> QED BY <1>3

\* Keep is the end of its recursion.
LEMMA KeepFollows ==
  ASSUME NEW S, NEW s \in Seq(S), NEW T, NEW f, Follows(f, s, T, Len(s))
  PROVE  Keep(s, T) = f[Len(s)]
<1> DEFINE Step(g) == [n \in 0 .. Len(s) |->
                         IF n = 0 THEN << >>
                         ELSE IF s[n] \in T THEN Append(g[n - 1], s[n]) ELSE g[n - 1]]
           kept == CHOOSE g : g = Step(g)
<1>1. Len(s) \in Nat
  BY LenProperties
<1>2. PICK h : h = [i \in 0 .. Len(s) |-> h[i]] /\ Follows(h, s, T, Len(s))
  BY <1>1, FollowerExists
<1>3. h = Step(h)
  <2>1. ASSUME NEW i \in 0 .. Len(s) PROVE h[i] = Step(h)[i]
    <3>1. CASE i = 0
      BY <1>2, <3>1 DEF Follows
    <3>2. CASE i # 0
      <4>1. i \in 1 .. Len(s)
        BY <1>1, <3>2
      <4> QED BY <1>2, <3>2, <4>1 DEF Follows
    <3> QED BY <3>1, <3>2
  <2>2. h = [i \in 0 .. Len(s) |-> Step(h)[i]]
    BY <1>2, <2>1
  <2> QED BY <2>2
<1>4. kept = Step(kept)
  BY <1>3
<1>5. Keep(s, T) = kept[Len(s)]
  BY DEF Keep
<1>6. Follows(kept, s, T, Len(s))
  <2> HIDE DEF kept
  <2>1. \A i \in 0 .. Len(s) : kept[i] = Step(kept)[i]
    BY <1>4
  <2>2. kept[0] = << >>
    BY <1>1, <2>1
  <2>3. ASSUME NEW i \in 1 .. Len(s)
        PROVE  kept[i] = IF s[i] \in T THEN Append(kept[i - 1], s[i]) ELSE kept[i - 1]
    <3>1. i \in 0 .. Len(s) /\ i # 0
      BY <1>1
    <3> QED BY <2>1, <3>1
  <2> QED BY <2>2, <2>3 DEF Follows
<1> HIDE DEF kept
<1> QED BY <1>1, <1>5, <1>6, FollowerIsUnique

LEMMA KeepEmpty == ASSUME NEW T PROVE Keep(<< >>, T) = << >>
<1>1. << >> \in Seq({}) /\ Len(<< >>) = 0
  BY EmptySeq
<1>2. PICK f : Follows(f, << >>, T, Len(<< >>))
  BY <1>1, FollowerExists
<1>3. Keep(<< >>, T) = f[Len(<< >>)]
  BY <1>1, <1>2, KeepFollows
<1> QED BY <1>1, <1>2, <1>3 DEF Follows

LEMMA KeepAppend ==
  ASSUME NEW S, NEW s \in Seq(S), NEW e \in S, NEW T
  PROVE  Keep(Append(s, e), T) = IF e \in T THEN Append(Keep(s, T), e) ELSE Keep(s, T)
<1> DEFINE t == Append(s, e)
<1>1. /\ Len(s) \in Nat /\ t \in Seq(S) /\ Len(t) = Len(s) + 1 /\ Len(t) \in Nat
      /\ t[Len(t)] = e /\ \A i \in 1 .. Len(s) : t[i] = s[i]
  BY AppendProperties, LenProperties
<1> HIDE DEF t
<1>2. PICK f : Follows(f, t, T, Len(t))
  BY <1>1, FollowerExists
<1>3. Follows(f, s, T, Len(s))
  BY <1>1, <1>2 DEF Follows
<1>4. Keep(s, T) = f[Len(s)] /\ Keep(t, T) = f[Len(t)]
  BY <1>1, <1>2, <1>3, KeepFollows
<1>5. f[Len(t)] = IF e \in T THEN Append(f[Len(s)], e) ELSE f[Len(s)]
  BY <1>1, <1>2 DEF Follows
<1> QED BY <1>4, <1>5 DEF t

\* What is kept is of the sequence and of the set.
LEMMA KeepType ==
  ASSUME NEW S, NEW s \in Seq(S), NEW T
  PROVE  Keep(s, T) \in Seq(S \cap T)
<1> DEFINE M == {t \in Seq(S) : Keep(t, T) \in Seq(S \cap T)}
<1>1. << >> \in M
  BY EmptySeq, KeepEmpty
<1>2. ASSUME NEW t \in Seq(S), NEW e \in S, t \in M PROVE Append(t, e) \in M
  <2>1. Keep(Append(t, e), T) = IF e \in T THEN Append(Keep(t, T), e) ELSE Keep(t, T)
    BY KeepAppend
  <2>2. Append(t, e) \in Seq(S) /\ Keep(t, T) \in Seq(S \cap T)
    BY <1>2, AppendProperties
  <2>3. CASE e \in T
    BY <2>1, <2>2, <2>3, AppendProperties
  <2>4. CASE e \notin T
    BY <2>1, <2>2, <2>4
  <2> QED BY <2>3, <2>4
<1>3. Seq(S) \subseteq M
  <2> HIDE DEF M
  <2> QED BY <1>1, <1>2, SeqInduction
<1> QED BY <1>3

\* Keeping goes element by element.
LEMMA KeepConcat ==
  ASSUME NEW S, NEW s \in Seq(S), NEW t \in Seq(S), NEW T
  PROVE  Keep(s \o t, T) = Keep(s, T) \o Keep(t, T)
<1> DEFINE M == {u \in Seq(S) : Keep(s \o u, T) = Keep(s, T) \o Keep(u, T)}
<1>0. Keep(s, T) \in Seq(S \cap T)
  BY KeepType
<1>1. << >> \in M
  BY <1>0, EmptySeq, KeepEmpty, ConcatEmptySeq
<1>2. ASSUME NEW u \in Seq(S), NEW e \in S, u \in M PROVE Append(u, e) \in M
  <2>1. Keep(Append(u, e), T) = IF e \in T THEN Append(Keep(u, T), e) ELSE Keep(u, T)
    BY KeepAppend
  <2>2. s \o u \in Seq(S) /\ s \o Append(u, e) = Append(s \o u, e)
    BY ConcatProperties, AppendIsConcat, ConcatAssociative, AppendProperties
  <2>3. Keep(s \o Append(u, e), T) = IF e \in T THEN Append(Keep(s \o u, T), e) ELSE Keep(s \o u, T)
    BY <2>2, KeepAppend
  <2>4. Keep(u, T) \in Seq(S \cap T)
    BY KeepType
  <2>5. e \in T => Keep(s, T) \o Append(Keep(u, T), e) = Append(Keep(s, T) \o Keep(u, T), e)
    BY <1>0, <2>4, ConcatProperties, AppendIsConcat, ConcatAssociative, AppendProperties
  <2> QED BY <1>2, <2>1, <2>3, <2>5, AppendProperties
<1>3. Seq(S) \subseteq M
  <2> HIDE DEF M
  <2> QED BY <1>1, <1>2, SeqInduction
<1> QED BY <1>3

\* A sequence of members is kept as it is, and one of others goes altogether.
LEMMA KeepAll ==
  ASSUME NEW S, NEW T, S \subseteq T, NEW s \in Seq(S)
  PROVE  Keep(s, T) = s
<1> DEFINE M == {t \in Seq(S) : Keep(t, T) = t}
<1>1. << >> \in M
  BY EmptySeq, KeepEmpty
<1>2. ASSUME NEW t \in Seq(S), NEW e \in S, t \in M PROVE Append(t, e) \in M
  BY <1>2, KeepAppend, AppendProperties
<1>3. Seq(S) \subseteq M
  <2> HIDE DEF M
  <2> QED BY <1>1, <1>2, SeqInduction
<1> QED BY <1>3

LEMMA KeepNone ==
  ASSUME NEW S, NEW T, S \cap T = {}, NEW s \in Seq(S)
  PROVE  Keep(s, T) = << >>
<1>1. Keep(s, T) \in Seq({})
  BY KeepType
<1> QED BY <1>1, LenProperties, EmptySeq

\* Only what the sequence has matters of the set.
LEMMA KeepAgrees ==
  ASSUME NEW S, NEW s \in Seq(S), NEW T, NEW U, \A e \in S : e \in T <=> e \in U
  PROVE  Keep(s, T) = Keep(s, U)
<1> DEFINE M == {t \in Seq(S) : Keep(t, T) = Keep(t, U)}
<1>1. << >> \in M
  BY EmptySeq, KeepEmpty
<1>2. ASSUME NEW t \in Seq(S), NEW e \in S, t \in M PROVE Append(t, e) \in M
  <2>1. /\ Keep(Append(t, e), T) = IF e \in T THEN Append(Keep(t, T), e) ELSE Keep(t, T)
        /\ Keep(Append(t, e), U) = IF e \in U THEN Append(Keep(t, U), e) ELSE Keep(t, U)
    BY KeepAppend
  <2>2. Append(t, e) \in Seq(S)
    BY AppendProperties
  <2>3. Keep(t, T) = Keep(t, U) /\ (e \in T <=> e \in U)
    BY <1>2
  <2>4. Keep(Append(t, e), T) = Keep(Append(t, e), U)
    BY <2>1, <2>3, Zenon
  <2> QED BY <2>2, <2>4
<1>3. Seq(S) \subseteq M
  <2> HIDE DEF M
  <2> QED BY <1>1, <1>2, SeqInduction
<1> QED BY <1>3

\* No member is lost.
LEMMA KeepKeeps ==
  ASSUME NEW S, NEW s \in Seq(S), NEW T, NEW i \in 1 .. Len(s), s[i] \in T
  PROVE  \E j \in 1 .. Len(Keep(s, T)) : Keep(s, T)[j] = s[i]
<1> DEFINE M == {t \in Seq(S) : \A k \in 1 .. Len(t) :
                   t[k] \in T => \E j \in 1 .. Len(Keep(t, T)) : Keep(t, T)[j] = t[k]}
<1>1. << >> \in M
  BY EmptySeq
<1>2. ASSUME NEW t \in Seq(S), NEW e \in S, t \in M PROVE Append(t, e) \in M
  <2>1. Keep(Append(t, e), T) = IF e \in T THEN Append(Keep(t, T), e) ELSE Keep(t, T)
    BY KeepAppend
  <2>2. Keep(t, T) \in Seq(S \cap T)
    BY KeepType
  <2>3. ASSUME NEW k \in 1 .. Len(t) + 1, Append(t, e)[k] \in T
        PROVE  \E j \in 1 .. Len(Keep(Append(t, e), T)) : Keep(Append(t, e), T)[j] = Append(t, e)[k]
    <3>1. CASE k = Len(t) + 1
      <4>1. Append(t, e)[k] = e
        BY <3>1, AppendProperties
      <4>2. Len(Keep(t, T)) + 1 \in 1 .. Len(Append(Keep(t, T), e))
        BY <2>2, <2>3, <4>1, AppendProperties, LenProperties
      <4> QED BY <2>1, <2>2, <2>3, <4>1, <4>2, AppendProperties
    <3>2. CASE k \in 1 .. Len(t)
      <4>1. Append(t, e)[k] = t[k]
        BY <3>2, AppendProperties
      <4>2. PICK j \in 1 .. Len(Keep(t, T)) : Keep(t, T)[j] = t[k]
        BY <1>2, <2>3, <3>2, <4>1
      <4> QED BY <2>1, <2>2, <4>1, <4>2, AppendProperties, LenProperties
    <3> QED BY <3>1, <3>2, LenProperties
  <2>4. Append(t, e) \in Seq(S) /\ Len(Append(t, e)) = Len(t) + 1
    BY AppendProperties
  <2> QED BY <2>3, <2>4
<1>3. Seq(S) \subseteq M
  <2> HIDE DEF M
  <2> QED BY <1>1, <1>2, SeqInduction
<1> QED BY <1>3
(***************************************************************************)
(* The elements of a sequence.                                             *)
(***************************************************************************)
LEMMA RangeOfSequence ==
  ASSUME NEW S, NEW s \in Seq(S)
  PROVE  Range(s) = {s[i] : i \in 1 .. Len(s)} /\ Range(s) \subseteq S
BY LenProperties DEF Range

LEMMA RangeOfAppend ==
  ASSUME NEW S, NEW s \in Seq(S), NEW e \in S
  PROVE  Range(Append(s, e)) = Range(s) \cup {e}
<1>1. /\ Append(s, e) \in Seq(S) /\ Len(Append(s, e)) = Len(s) + 1 /\ Len(s) \in Nat
      /\ Append(s, e)[Len(s) + 1] = e /\ \A i \in 1 .. Len(s) : Append(s, e)[i] = s[i]
  BY AppendProperties, LenProperties
<1>2. /\ Range(Append(s, e)) = {Append(s, e)[i] : i \in 1 .. Len(s) + 1}
      /\ Range(s) = {s[i] : i \in 1 .. Len(s)}
  BY <1>1, RangeOfSequence
<1>3. 1 .. Len(s) + 1 = 1 .. Len(s) \cup {Len(s) + 1}
  BY <1>1
<1> QED BY <1>1, <1>2, <1>3

LEMMA RangeOfHead ==
  ASSUME NEW S, NEW s \in Seq(S), s # << >>
  PROVE  Range(s) = {Head(s)} \cup Range(Tail(s))
<1>1. /\ Tail(s) \in Seq(S) /\ Len(Tail(s)) = Len(s) - 1 /\ Len(s) \in Nat /\ Len(s) # 0
      /\ Head(s) = s[1] /\ \A i \in 1 .. Len(Tail(s)) : Tail(s)[i] = s[i + 1]
  BY HeadTailProperties, LenProperties, EmptySeq
<1>2. Range(s) = {s[i] : i \in 1 .. Len(s)} /\ Range(Tail(s)) = {Tail(s)[i] : i \in 1 .. Len(Tail(s))}
  BY <1>1, RangeOfSequence
<1>3. ASSUME NEW i \in 1 .. Len(s), i # 1 PROVE s[i] \in Range(Tail(s))
  <2>1. i - 1 \in 1 .. Len(Tail(s)) /\ (i - 1) + 1 = i
    BY <1>1, <1>3
  <2>2. Tail(s)[i - 1] = s[i]
    BY <1>1, <2>1
  <2> QED BY <1>2, <2>1, <2>2
<1>4. ASSUME NEW i \in 1 .. Len(Tail(s)) PROVE Tail(s)[i] \in Range(s)
  <2>1. i + 1 \in 1 .. Len(s)
    BY <1>1
  <2> QED BY <1>1, <1>2, <2>1
<1>5. Head(s) \in Range(s)
  BY <1>1, <1>2
<1> QED BY <1>1, <1>2, <1>3, <1>4, <1>5

(***************************************************************************)
(* Keep, from the front.                                                   *)
(***************************************************************************)
LEMMA KeepSeq ==
  ASSUME NEW S, NEW s \in Seq(S), NEW T
  PROVE  Keep(s, T) \in Seq(S)
<1>1. Keep(s, T) \in Seq(S \cap T)
  BY KeepType
<1> QED BY <1>1, SeqMonotonic

LEMMA KeepOne ==
  ASSUME NEW e, NEW T
  PROVE  Keep(<<e>>, T) = IF e \in T THEN <<e>> ELSE << >>
<1> DEFINE S == {e}
<1>1. << >> \in Seq(S) /\ <<e>> = Append(<< >>, e) /\ e \in S
  BY EmptySeq
<1> HIDE DEF S
<1>2. Keep(Append(<< >>, e), T) = IF e \in T THEN Append(Keep(<< >>, T), e) ELSE Keep(<< >>, T)
  BY <1>1, KeepAppend
<1> QED BY <1>1, <1>2, KeepEmpty

LEMMA KeepHead ==
  ASSUME NEW S, NEW s \in Seq(S), s # << >>, NEW T
  PROVE  Keep(s, T) = (IF Head(s) \in T THEN <<Head(s)>> ELSE << >>) \o Keep(Tail(s), T)
<1>1. Head(s) = s[1] /\ Head(s) \in S /\ Tail(s) \in Seq(S) /\ Len(s) \in Nat /\ Len(s) # 0
  BY HeadTailProperties, LenProperties, EmptySeq
<1>2. s = <<Head(s)>> \o Tail(s)
  <2>1. SubSeq(s, 1, Len(s)) = <<s[1]>> \o SubSeq(s, 1 + 1, Len(s))
    BY <1>1, SubSeqRecursiveFirst
  <2> QED BY <1>1, <2>1, SubSeqFull, TailIsSubSeq
<1>3. PICK h \in S, t \in Seq(S) : h = Head(s) /\ t = Tail(s)
  BY <1>1
<1>4. <<h>> \in Seq(S)
  BY <1>3
<1> DEFINE o == <<h>>
<1>5. o \in Seq(S)
  BY <1>4
<1> HIDE DEF o
<1>6. Keep(o \o t, T) = Keep(o, T) \o Keep(t, T)
  BY <1>5, KeepConcat
<1>7. Keep(s, T) = Keep(o, T) \o Keep(t, T)
  BY <1>2, <1>3, <1>6 DEF o
<1>8. Keep(o, T) = IF h \in T THEN <<h>> ELSE << >>
  BY KeepOne DEF o
<1> QED BY <1>3, <1>7, <1>8
=============================================================================
