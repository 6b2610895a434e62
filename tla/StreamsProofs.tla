----------------------------- MODULE StreamsProofs -----------------------------
(***************************************************************************)
(* Event streams and driver plans, for every set of sessions, streams and  *)
(* threads, every page size and every length of the log.                   *)
(***************************************************************************)
EXTENDS Streams, SelectionProofs

Logged == [of : Session, kind : Kinds, n : Nat]

EngineType ==
  /\ log \in Seq(Logged) /\ order \in Seq(Session)
  /\ \A i \in 1 .. Len(log) : log[i].of \in Range(order)

(***************************************************************************)
(* What a step may do to the engine: append, in the log and in the order   *)
(* of dispatch.                                                            *)
(***************************************************************************)
Grows ==
  /\ \E new \in Seq(Logged) : log' = log \o new
  /\ order' = order \/ \E s \in Session \ Range(order) : order' = Append(order, s)

\* The engine's operations append to the log.
LEMMA EngineSteps ==
  ASSUME EngineType, NEW s \in Session,
         Dispatch(s) \/ Observe(s) \/ Cancel(s) \/ FoldExit(s) \/ FoldLateExit(s)
  PROVE  EngineType' /\ Grows /\ UNCHANGED <<streamVars, plan, wait>>
<1>1. Len(log) \in Nat
  BY LenProperties DEF EngineType
<1>2. ASSUME NEW kind \in Kinds, NEW n \in Nat PROVE Event(s, kind, n) \in Logged /\ Event(s, kind, n).of = s
  BY DEF Event, Logged
<1>3. ASSUME NEW new \in Seq(Logged), log' = log \o new, \A i \in 1 .. Len(new) : new[i].of = s,
             order' \in Seq(Session), Range(order) \cup {s} \subseteq Range(order')
      PROVE  EngineType'
  <2>1. log' \in Seq(Logged)
    BY <1>3, ConcatProperties DEF EngineType
  <2>3. ASSUME NEW i \in 1 .. Len(log') PROVE log'[i].of \in Range(order')
    <3>1. i \in 1 .. Len(log) + Len(new) /\ log'[i] = IF i <= Len(log) THEN log[i] ELSE new[i - Len(log)]
      BY <1>3, ConcatProperties DEF EngineType
    <3>2. CASE i <= Len(log)
      BY <1>1, <1>3, <3>1, <3>2 DEF EngineType
    <3>3. CASE i > Len(log)
      <4>1. i - Len(log) \in 1 .. Len(new)
        BY <1>1, <3>1, <3>3, LenProperties
      <4> QED BY <1>1, <1>3, <3>1, <3>3, <4>1
    <3> QED BY <1>1, <3>1, <3>2, <3>3
  <2> QED BY <1>3, <2>1, <2>3 DEF EngineType
<1>4. ASSUME NEW kind \in Kinds, Push(s, kind), order' \in Seq(Session), Range(order) \cup {s} \subseteq Range(order')
      PROVE  EngineType' /\ \E new \in Seq(Logged) : log' = log \o new
  <2> DEFINE e == Event(s, kind, Len(log) + 1)
  <2>1. e \in Logged /\ e.of = s
    BY <1>1, <1>2
  <2>2. log' = Append(log, e)
    BY <1>4 DEF Push
  <2> HIDE DEF e
  <2>3. <<e>> \in Seq(Logged) /\ log' = log \o <<e>> /\ \A i \in 1 .. Len(<<e>>) : <<e>>[i].of = s
    BY <2>1, <2>2, AppendIsConcat DEF EngineType
  <2> QED BY <1>3, <1>4, <2>1, <2>3
<1>5. CASE Dispatch(s)
  <2>1. s \notin Range(order) /\ order' = Append(order, s) /\ Push(s, "state") /\ UNCHANGED <<streamVars, plan, wait>>
    BY <1>5 DEF Dispatch
  <2>2. order' \in Seq(Session) /\ Range(order') = Range(order) \cup {s}
    BY <2>1, AppendProperties, RangeOfAppend DEF EngineType
  <2>3. "state" \in Kinds
    BY DEF Kinds
  <2> QED BY <1>4, <2>1, <2>2, <2>3 DEF Grows
<1>6. ASSUME NEW kind \in Kinds, Push(s, kind), order' = order, s \in Range(order), UNCHANGED <<streamVars, plan, wait>>
      PROVE  EngineType' /\ Grows /\ UNCHANGED <<streamVars, plan, wait>>
  <2>1. order' \in Seq(Session) /\ Range(order) \cup {s} \subseteq Range(order')
    BY <1>6 DEF EngineType
  <2> QED BY <1>4, <1>6, <2>1 DEF Grows
<1>7. CASE Observe(s) \/ Cancel(s) \/ FoldLateExit(s)
  BY <1>6, <1>7 DEF Observe, Cancel, FoldLateExit, Open, Kinds
<1>8. CASE FoldExit(s)
  <2> DEFINE a == Event(s, "exit", Len(log) + 1)
             b == Event(s, "state", Len(log) + 2)
  <2>1. a \in Logged /\ a.of = s /\ b \in Logged /\ b.of = s
    BY <1>1, <1>2 DEF Kinds
  <2>2. log' = log \o <<a, b>> /\ order' = order /\ s \in Range(order) /\ UNCHANGED <<streamVars, plan, wait>>
    BY <1>8 DEF FoldExit, Open
  <2> HIDE DEF a, b
  <2>3. <<a, b>> \in Seq(Logged) /\ \A i \in 1 .. Len(<<a, b>>) : <<a, b>>[i].of = s
    BY <2>1
  <2>4. order' \in Seq(Session) /\ Range(order) \cup {s} \subseteq Range(order')
    BY <2>2 DEF EngineType
  <2> QED BY <1>3, <2>2, <2>3, <2>4 DEF Grows
<1> QED BY <1>5, <1>7, <1>8

(***************************************************************************)
(* What a stream matches: the log's growth leaves its beginning as it is.  *)
(***************************************************************************)
LEMMA MatchingType ==
  ASSUME EngineType, NEW e
  PROVE  Matching(e) \in Seq(Logged) /\ Len(Matching(e)) \in Nat
<1>1. Matching(e) \in Seq(Logged \cap [of : Session, kind : OnlyKinds[e], n : Nat])
  BY KeepType DEF EngineType, Matching
<1>2. Matching(e) \in Seq(Logged)
  BY <1>1, SeqMonotonic
<1> QED BY <1>2, LenProperties

\* m is the beginning of n.
Begins(m, n) == Len(m) <= Len(n) /\ \A i \in 1 .. Len(m) : n[i] = m[i]

LEMMA MatchingGrows ==
  ASSUME EngineType, Grows, NEW e
  PROVE  Begins(Matching(e), Matching(e)')
<1>1. PICK new \in Seq(Logged) : log' = log \o new
  BY DEF Grows
<1> DEFINE Matched == [of : Session, kind : OnlyKinds[e], n : Nat]
           m == Matching(e)
           k == Keep(new, Matched)
<1>2. Matching(e)' = m \o k
  BY <1>1, KeepConcat DEF EngineType, Matching
<1>3. k \in Seq(Logged \cap Matched)
  BY KeepType
<1>4. k \in Seq(Logged)
  <2> HIDE DEF k
  <2> QED BY <1>3, SeqMonotonic
<1>5. m \in Seq(Logged)
  BY MatchingType
<1> HIDE DEF m, k
<1>6. /\ Len(m) \in Nat /\ Len(k) \in Nat /\ Len(m \o k) = Len(m) + Len(k)
      /\ \A i \in 1 .. Len(m) + Len(k) : (m \o k)[i] = IF i <= Len(m) THEN m[i] ELSE k[i - Len(m)]
  BY <1>4, <1>5, ConcatProperties, LenProperties
<1> QED BY <1>2, <1>6 DEF Begins, m

\* Sequences that begin the same have the same first n elements.
LEMMA SameStart ==
  ASSUME NEW S, NEW m \in Seq(S), NEW k \in Seq(S), Begins(m, k), NEW n \in 0 .. Len(m)
  PROVE  SubSeq(k, 1, n) = SubSeq(m, 1, n)
<1>1. /\ Len(m) \in Nat /\ Len(k) \in Nat /\ n <= Len(k)
      /\ \A i \in 1 .. n : m[i] \in S /\ k[i] = m[i] /\ k[i] \in S
  BY ElementOfSeq, LenProperties DEF Begins
<1>2. /\ SubSeq(m, 1, n) \in Seq(S) /\ Len(SubSeq(m, 1, n)) = n
      /\ \A i \in 1 .. n : SubSeq(m, 1, n)[i] = m[i]
  BY <1>1, SubSeqProperties
<1>3. /\ SubSeq(k, 1, n) \in Seq(S) /\ Len(SubSeq(k, 1, n)) = n
      /\ \A i \in 1 .. n : SubSeq(k, 1, n)[i] = k[i]
  BY <1>1, SubSeqProperties
<1> QED BY <1>1, <1>2, <1>3, SeqEqual

\* The page is what m has after its first `after` elements.
Piece(m, after, page) ==
  /\ after + Len(page) <= Len(m)
  /\ \A j \in 1 .. Len(page) : page[j] = m[after + j]

LEMMA PieceFollows ==
  ASSUME NEW S, NEW m \in Seq(S), NEW after \in Nat, NEW page \in Seq(S), Piece(m, after, page)
  PROVE  SubSeq(m, 1, after + Len(page)) = SubSeq(m, 1, after) \o page
<1> DEFINE a == SubSeq(m, 1, after)
           b == SubSeq(m, 1, after + Len(page))
<1>1. /\ Len(m) \in Nat /\ Len(page) \in Nat /\ after + Len(page) <= Len(m)
      /\ \A i \in 1 .. after + Len(page) : m[i] \in S
  BY ElementOfSeq, LenProperties DEF Piece
<1>2. a \in Seq(S) /\ Len(a) = after /\ \A i \in 1 .. after : a[i] = m[i]
  BY <1>1, SubSeqProperties
<1>3. /\ b \in Seq(S) /\ Len(b) = after + Len(page)
      /\ \A i \in 1 .. after + Len(page) : b[i] = m[i]
  BY <1>1, SubSeqProperties
<1> HIDE DEF a, b
<1>4. /\ a \o page \in Seq(S) /\ Len(a \o page) = after + Len(page)
      /\ \A i \in 1 .. after + Len(page) : (a \o page)[i] = IF i <= after THEN a[i] ELSE page[i - after]
  BY <1>2, ConcatProperties
<1>5. ASSUME NEW i \in 1 .. after + Len(page) PROVE (a \o page)[i] = b[i]
  <2>1. i \in Nat /\ (a \o page)[i] = (IF i <= after THEN a[i] ELSE page[i - after]) /\ b[i] = m[i]
    BY <1>1, <1>3, <1>4
  <2>2. CASE i <= after
    BY <1>2, <2>1, <2>2
  <2>3. CASE ~(i <= after)
    <3>1. i - after \in 1 .. Len(page) /\ after + (i - after) = i
      BY <1>1, <2>1, <2>3
    <3>2. page[i - after] = m[after + (i - after)]
      BY <3>1 DEF Piece
    <3> QED BY <2>1, <2>3, <3>1, <3>2
  <2> QED BY <2>2, <2>3
<1> QED BY <1>3, <1>4, <1>5, SeqEqual DEF a, b

\* The engine's answer is such a page.
LEMMA PageIsPiece ==
  ASSUME NEW S, NEW m \in Seq(S), NEW after \in 0 .. Len(m), NEW limit \in Nat
  PROVE  Page(m, after, limit) \in Seq(S) /\ Piece(m, after, Page(m, after, limit))
<1> DEFINE last == IF after + limit < Len(m) THEN after + limit ELSE Len(m)
<1>1. Len(m) \in Nat /\ last \in Nat /\ after <= last /\ last <= Len(m)
  BY LenProperties
<1>2. \A i \in after + 1 .. last : m[i] \in S
  BY <1>1, ElementOfSeq
<1>3. /\ SubSeq(m, after + 1, last) \in Seq(S) /\ Len(SubSeq(m, after + 1, last)) = last - after
      /\ \A j \in 1 .. last - after : SubSeq(m, after + 1, last)[j] = m[after + j]
  BY <1>1, <1>2, SubSeqProperties
<1>4. Page(m, after, limit) = SubSeq(m, after + 1, last)
  BY DEF Page, last
<1> HIDE DEF last
<1> QED BY <1>1, <1>3, <1>4 DEF Piece

(***************************************************************************)
(* The feed.  ExactFeed is not inductive: between the read of the cursor   *)
(* and its advance, other threads move it, also back.  What each poll      *)
(* holds is added: the events before the place where it read the cursor    *)
(* have been had by then, and its page is what the log still has behind    *)
(* that place.                                                             *)
(***************************************************************************)
FeedType ==
  /\ cursor \in [Stream -> Nat]
  /\ buffer \in [Stream -> Seq(Logged)] /\ got \in [Stream -> Seq(Logged)]
  /\ call \in [Poller -> [at : {"idle", "read", "fetched", "advanced"}, after : Nat, page : Seq(Logged)]]

Had(e, ev) ==
  EventOut(ev) =>
    \/ ev \in Range(got[e]) \cup Range(buffer[e])
    \/ \E p \in PollersOf(e) : call[p].at = "advanced" /\ ev \in Range(call[p].page)

HadUpTo(e, n) == n <= Len(Matching(e)) /\ \A i \in 1 .. n : Had(e, Matching(e)[i])

Holds(p) ==
  /\ call[p].at \in {"read", "fetched"} => HadUpTo(Polls[p], call[p].after)
  /\ call[p].at \in {"fetched", "advanced"} => Piece(Matching(Polls[p]), call[p].after, call[p].page)

Coming(p) == IF call[p].at = "advanced" THEN call[p].page ELSE << >>

Alone(p) ==
  PollersOf(Polls[p]) = {p} =>
    /\ call[p].at \in {"read", "fetched"} => cursor[Polls[p]] = call[p].after
    /\ got[Polls[p]] \o Keep(buffer[Polls[p]] \o Coming(p), Sayable) = Said(Polls[p], cursor[Polls[p]])

FeedInv ==
  /\ EngineType /\ FeedType
  /\ \A e \in Stream : HadUpTo(e, cursor[e])
  /\ \A p \in Poller : Holds(p) /\ Alone(p)

LEMMA FeedImplies == FeedInv => ExactFeed
<1> SUFFICES ASSUME FeedInv PROVE ExactFeed
  OBVIOUS
<1>1. OnceInOrder
  <2> SUFFICES ASSUME NEW e \in Stream, NEW p \in Poller, PollersOf(e) = {p}
               PROVE  got[e] \o Keep(buffer[e] \o Coming(p), Sayable) = Said(e, cursor[e])
    BY DEF OnceInOrder, Coming
  <2>1. Polls[p] = e
    BY DEF PollersOf
  <2> QED BY <2>1 DEF FeedInv, Alone
<1>2. NoneSkipped
  BY DEF FeedInv, HadUpTo, Had, NoneSkipped
<1> QED BY <1>1, <1>2 DEF ExactFeed

\* What is said of the first n events does not change as the log grows.
LEMMA SaidIs ==
  ASSUME EngineType, NEW e, NEW n \in 0 .. Len(Matching(e))
  PROVE  Said(e, n) = Keep(SubSeq(Matching(e), 1, n), Sayable)
<1>1. Len(Matching(e)) \in Nat
  BY MatchingType
<1>2. Page(Matching(e), 0, n) = SubSeq(Matching(e), 1, n)
  BY <1>1 DEF Page
<1> QED BY <1>2 DEF Said

LEMMA FeedStarts == Init => FeedInv
<1> SUFFICES ASSUME Init PROVE FeedInv
  OBVIOUS
<1>1. EngineType
  BY EmptySeq DEF Init, EngineType
<1>2. << >> \in Seq(Logged) /\ Len(<< >>) = 0
  BY EmptySeq
<1>3. FeedType
  BY <1>2 DEF Init, FeedType, Idle
<1>4. ASSUME NEW e PROVE Len(Matching(e)) \in Nat /\ Said(e, 0) = << >>
  <2>1. Len(Matching(e)) \in Nat /\ Matching(e) \in Seq(Logged)
    BY <1>1, MatchingType
  <2>2. Said(e, 0) = Keep(SubSeq(Matching(e), 1, 0), Sayable)
    BY <1>1, <2>1, SaidIs
  <2>3. SubSeq(Matching(e), 1, 0) = << >>
    BY SubSeqEmpty
  <2> QED BY <2>1, <2>2, <2>3, KeepEmpty
<1>5. ASSUME NEW e \in Stream PROVE HadUpTo(e, cursor[e])
  <2>1. cursor[e] = 0
    BY DEF Init
  <2> QED BY <1>4, <2>1 DEF HadUpTo
<1>6. ASSUME NEW p \in Poller PROVE Holds(p) /\ Alone(p)
  <2>1. call[p].at = "idle" /\ Polls[p] \in Stream
    BY StreamsAssumption DEF Init, Idle
  <2>2. cursor[Polls[p]] = 0 /\ got[Polls[p]] = << >> /\ buffer[Polls[p]] = << >> /\ Coming(p) = << >>
    BY <2>1 DEF Init, Coming
  <2>3. << >> \o << >> = << >>
    BY <1>2, ConcatEmptySeq
  <2> QED BY <1>4, <2>1, <2>2, <2>3, KeepEmpty DEF Holds, Alone
<1> QED BY <1>1, <1>3, <1>5, <1>6 DEF FeedInv

\* The engine's steps leave the feeds as they are, of a longer log.
LEMMA FeedLives ==
  ASSUME FeedInv, Grows, EngineType', UNCHANGED streamVars
  PROVE  FeedInv'
<1>1. ASSUME NEW e
      PROVE  /\ Matching(e) \in Seq(Logged) /\ Len(Matching(e)) \in Nat
             /\ Matching(e)' \in Seq(Logged) /\ Len(Matching(e)') \in Nat
             /\ Begins(Matching(e), Matching(e)')
  <2>1. Matching(e)' \in Seq(Logged \cap [of : Session, kind : OnlyKinds[e], n : Nat])
    BY KeepType DEF EngineType, Matching
  <2>2. Matching(e)' \in Seq(Logged)
    BY <2>1, SeqMonotonic
  <2> QED BY <2>2, MatchingType, MatchingGrows, LenProperties DEF FeedInv
<1>2. ASSUME NEW e, NEW ev PROVE Had(e, ev)' = Had(e, ev)
  BY DEF Had, streamVars, PollersOf
<1>3. ASSUME NEW e, NEW n \in Nat, HadUpTo(e, n) PROVE HadUpTo(e, n)'
  <2>1. n <= Len(Matching(e)') /\ \A i \in 1 .. n : Matching(e)'[i] = Matching(e)[i]
    BY <1>1, <1>3 DEF HadUpTo, Begins
  <2> QED BY <1>2, <1>3, <2>1 DEF HadUpTo
<1>4. ASSUME NEW e, NEW after \in Nat, NEW page \in Seq(Logged), Piece(Matching(e), after, page)
      PROVE  Piece(Matching(e)', after, page)
  <2>1. Len(page) \in Nat
    BY LenProperties
  <2>2. \A j \in 1 .. Len(page) : after + j \in 1 .. Len(Matching(e))
    BY <1>1, <1>4, <2>1 DEF Piece
  <2> QED BY <1>1, <1>4, <2>1, <2>2 DEF Piece, Begins
<1>5. ASSUME NEW e, NEW n \in Nat, HadUpTo(e, n) PROVE Said(e, n)' = Said(e, n)
  <2>1. n \in 0 .. Len(Matching(e)) /\ n \in 0 .. Len(Matching(e)')
    BY <1>1, <1>5 DEF HadUpTo, Begins
  <2>2. SubSeq(Matching(e)', 1, n) = SubSeq(Matching(e), 1, n)
    BY <1>1, <2>1, SameStart
  <2>3. Page(Matching(e), 0, n) = SubSeq(Matching(e), 1, n) /\ Page(Matching(e)', 0, n) = SubSeq(Matching(e)', 1, n)
    BY <1>1, <2>1 DEF Page
  <2> QED BY <2>2, <2>3 DEF Said
<1>6. FeedType'
  BY DEF FeedInv, FeedType, streamVars
<1>7. ASSUME NEW e \in Stream PROVE HadUpTo(e, cursor[e])'
  BY <1>3 DEF FeedInv, FeedType, streamVars
<1>8. ASSUME NEW p \in Poller PROVE Holds(p)' /\ Alone(p)'
  <2>1. Polls[p] \in Stream /\ call[p].after \in Nat /\ call[p].page \in Seq(Logged) /\ call' = call
    BY StreamsAssumption DEF FeedInv, FeedType, streamVars
  <2>2. Holds(p)'
    BY <1>3, <1>4, <2>1 DEF FeedInv, Holds
  <2>3. cursor[Polls[p]] \in Nat /\ HadUpTo(Polls[p], cursor[Polls[p]])
    BY <2>1 DEF FeedInv, FeedType
  <2>4. Said(Polls[p], cursor[Polls[p]])' = Said(Polls[p], cursor[Polls[p]])
    BY <1>5, <2>3 DEF streamVars
  <2> QED BY <2>1, <2>2, <2>4 DEF FeedInv, Alone, Coming, PollersOf, streamVars
<1> QED BY <1>6, <1>7, <1>8 DEF FeedInv

\* A page comes from the place where its poll read the cursor.
PollStep(p) == Take(p) \/ ReadCursor(p) \/ Fetch(p) \/ Advance(p) \/ Extend(p)

LEMMA PollTypes ==
  ASSUME FeedInv, NEW p \in Poller, PollStep(p)
  PROVE  FeedType' /\ UNCHANGED <<engineVars, plan, wait>>
<1> DEFINE e == Polls[p]
<1>1. e \in Stream /\ call[p].after \in Nat /\ call[p].page \in Seq(Logged) /\ cursor[e] \in Nat
  BY StreamsAssumption DEF FeedInv, FeedType
<1>2. << >> \in Seq(Logged)
  BY EmptySeq
<1>3. CASE Take(p)
  <2>1. Head(buffer[e]) \in Logged /\ Tail(buffer[e]) \in Seq(Logged)
    BY <1>1, <1>3, HeadTailProperties DEF FeedInv, FeedType, Take
  <2>2. Append(got[e], Head(buffer[e])) \in Seq(Logged)
    BY <1>1, <2>1, AppendProperties DEF FeedInv, FeedType
  <2> QED BY <1>1, <1>3, <2>1, <2>2 DEF FeedInv, FeedType, Take
<1>4. CASE ReadCursor(p)
  BY <1>1, <1>2, <1>4 DEF FeedInv, FeedType, ReadCursor, Idle
<1>5. CASE Fetch(p)
  <2>1. Matching(e) \in Seq(Logged) /\ Len(Matching(e)) \in Nat
    BY MatchingType DEF FeedInv
  <2>2. call[p].after \in 0 .. Len(Matching(e))
    BY <1>1, <1>5, <2>1 DEF FeedInv, Fetch, Holds, HadUpTo
  <2>3. Events(e, call[p].after) \in Seq(Logged)
    BY <2>1, <2>2, PageIsPiece, StreamsAssumption DEF Events
  <2> QED BY <1>1, <1>2, <1>5, <2>3 DEF FeedInv, FeedType, Fetch, Idle
<1>6. CASE Advance(p)
  <2>1. Len(call[p].page) \in Nat
    BY <1>1, LenProperties
  <2>2. call[p].after + Len(call[p].page) \in Nat
    BY <1>1, <2>1
  <2> QED BY <1>1, <1>6, <2>2 DEF FeedInv, FeedType, Advance
<1>7. CASE Extend(p)
  <2>1. buffer[e] \o call[p].page \in Seq(Logged)
    BY <1>1, ConcatProperties DEF FeedInv, FeedType
  <2> QED BY <1>1, <1>2, <1>7, <2>1 DEF FeedInv, FeedType, Extend, Idle
<1>8. UNCHANGED <<engineVars, plan, wait>>
  BY DEF PollStep, Take, ReadCursor, Fetch, Advance, Extend
<1> QED BY <1>3, <1>4, <1>5, <1>6, <1>7, <1>8 DEF PollStep

\* What was had stays had: an event goes from a page to the buffer to the program.
LEMMA HadStays ==
  ASSUME FeedInv, NEW p \in Poller, PollStep(p), NEW e \in Stream, NEW ev, Had(e, ev)
  PROVE  Had(e, ev)'
<1> SUFFICES ASSUME EventOut(ev)
             PROVE  \/ ev \in Range(got'[e]) \cup Range(buffer'[e])
                    \/ \E q \in PollersOf(e) : call'[q].at = "advanced" /\ ev \in Range(call'[q].page)
  BY DEF Had, PollersOf
<1>1. /\ Polls[p] \in Stream /\ buffer[e] \in Seq(Logged) /\ got[e] \in Seq(Logged)
      /\ call[p].page \in Seq(Logged)
  BY StreamsAssumption DEF FeedInv, FeedType
<1>2. \/ ev \in Range(got[e]) \cup Range(buffer[e])
      \/ \E q \in PollersOf(e) : call[q].at = "advanced" /\ ev \in Range(call[q].page)
  BY DEF Had
<1>3. CASE Take(p)
  <2>1. call' = call
    BY <1>3 DEF Take
  <2>2. CASE e # Polls[p]
    BY <1>2, <1>3, <2>1, <2>2 DEF Take, FeedInv, FeedType
  <2>3. CASE e = Polls[p]
    <3>1. buffer[e] # << >> /\ buffer'[e] = Tail(buffer[e])
      BY <1>3, <2>3 DEF Take, FeedInv, FeedType
    <3>2. /\ Head(buffer[e]) \in Logged
          /\ got'[e] = IF EventOut(Head(buffer[e])) THEN Append(got[e], Head(buffer[e])) ELSE got[e]
      BY <1>1, <1>3, <2>3, <3>1, HeadTailProperties DEF Take, FeedInv, FeedType
    <3>3. Range(got[e]) \subseteq Range(got'[e])
      BY <1>1, <3>2, RangeOfAppend
    <3>4. Range(buffer[e]) = {Head(buffer[e])} \cup Range(Tail(buffer[e]))
      BY <1>1, <3>1, RangeOfHead
    <3>5. EventOut(Head(buffer[e])) => Head(buffer[e]) \in Range(got'[e])
      BY <1>1, <3>2, RangeOfAppend
    <3> QED BY <1>2, <2>1, <3>1, <3>3, <3>4, <3>5
  <2> QED BY <2>2, <2>3
<1>4. CASE ReadCursor(p) \/ Fetch(p) \/ Advance(p)
  <2>1. /\ UNCHANGED <<buffer, got>> /\ call[p].at # "advanced"
        /\ \A q \in Poller : q # p => call'[q] = call[q]
    BY <1>4 DEF ReadCursor, Fetch, Advance, FeedInv, FeedType
  <2> QED BY <1>2, <2>1 DEF PollersOf
<1>5. CASE Extend(p)
  <2>1. /\ got' = got /\ \A q \in Poller : q # p => call'[q] = call[q]
        /\ \A d \in Stream : buffer'[d] = IF d = Polls[p] THEN buffer[d] \o call[p].page ELSE buffer[d]
    BY <1>5 DEF Extend, FeedInv, FeedType
  <2>2. e = Polls[p] => Range(buffer'[e]) = Range(buffer[e]) \cup Range(call[p].page)
    BY <1>1, <2>1, RangeConcatenation
  <2> QED BY <1>2, <2>1, <2>2 DEF PollersOf
<1> QED BY <1>3, <1>4, <1>5 DEF PollStep

\* Taking the head of the buffer, and leaving it out when there is no word for it.
LEMMA GivenOn ==
  ASSUME NEW g \in Seq(Logged), NEW b \in Seq(Logged), b # << >>
  PROVE  /\ Head(b) \in Sayable => Append(g, Head(b)) \o Keep(Tail(b), Sayable) = g \o Keep(b, Sayable)
         /\ Head(b) \notin Sayable => g \o Keep(Tail(b), Sayable) = g \o Keep(b, Sayable)
<1>1. PICK h \in Logged, t \in Seq(Logged) : h = Head(b) /\ t = Tail(b)
  BY HeadTailProperties
<1> DEFINE o == <<h>>
           k == Keep(t, Sayable)
<1>2. o \in Seq(Logged) /\ k \in Seq(Logged) /\ Append(g, h) = g \o o
  BY KeepSeq, AppendIsConcat
<1>3. Keep(b, Sayable) = (IF h \in Sayable THEN o ELSE << >>) \o k
  BY <1>1, KeepHead
<1> HIDE DEF o, k
<1>4. o \in Seq(Logged) /\ k \in Seq(Logged)
  BY <1>2
<1>5. (g \o o) \o k = g \o (o \o k)
  BY <1>4, ConcatAssociative, SMTT(30)
<1>6. << >> \o k = k
  BY <1>4, ConcatEmptySeq
<1> QED BY <1>1, <1>2, <1>3, <1>5, <1>6 DEF k

\* What is said of sequences of logged events, and of two of them together.
Feed == Seq(Logged)

LEMMA SaidOfFeed == \A s \in Feed : Keep(s, Sayable) \in Feed
BY KeepSeq DEF Feed

LEMMA SaidOfBoth == \A s, t \in Feed : Keep(s \o t, Sayable) = Keep(s, Sayable) \o Keep(t, Sayable)
BY KeepConcat DEF Feed

Associative(s, t, u) == (s \o t) \o u = s \o (t \o u)

LEMMA FeedAssociative == \A s, t, u \in Feed : Associative(s, t, u)
BY ConcatAssociative DEF Feed, Associative

\* One thread's feed goes on where it was.
LEMMA FeedPolls ==
  ASSUME FeedInv, NEW p \in Poller, PollStep(p)
  PROVE  FeedInv'
<1> DEFINE e == Polls[p]
           m == Matching(e)
           c == call[p]
<1>1. FeedType' /\ UNCHANGED <<engineVars, plan, wait>>
  BY PollTypes
<1>2. EngineType' /\ \A d : Matching(d)' = Matching(d)
  BY <1>1 DEF FeedInv, EngineType, engineVars, Matching
<1>3. /\ e \in Stream /\ c.after \in Nat /\ c.page \in Seq(Logged) /\ cursor[e] \in Nat
      /\ got[e] \in Seq(Logged) /\ buffer[e] \in Seq(Logged)
      /\ m \in Seq(Logged) /\ Len(m) \in Nat /\ Len(c.page) \in Nat
  BY StreamsAssumption, MatchingType, LenProperties DEF FeedInv, FeedType
<1>4. ASSUME NEW d \in Stream, NEW n \in Nat, HadUpTo(d, n) PROVE HadUpTo(d, n)'
  BY <1>2, <1>4, HadStays DEF HadUpTo
<1>5. ASSUME NEW d, NEW n PROVE Said(d, n)' = Said(d, n)
  BY <1>2 DEF Said
<1>6. ASSUME NEW q \in Poller, q # p PROVE Holds(q)' /\ Alone(q)'
  <2>1. call'[q] = call[q] /\ Polls[q] \in Stream /\ call[q].after \in Nat
    BY <1>6, StreamsAssumption DEF PollStep, Take, ReadCursor, Fetch, Advance, Extend, FeedInv, FeedType
  <2>2. Holds(q)'
    BY <1>2, <1>4, <1>6, <2>1 DEF FeedInv, Holds
  <2>3. PollersOf(Polls[q]) = {q} => Polls[q] # e
    BY <1>6 DEF PollersOf
  <2>4. /\ Polls[q] # e => /\ cursor'[Polls[q]] = cursor[Polls[q]] /\ buffer'[Polls[q]] = buffer[Polls[q]]
                           /\ got'[Polls[q]] = got[Polls[q]]
    BY <2>1 DEF PollStep, Take, ReadCursor, Fetch, Advance, Extend, FeedInv, FeedType
  <2>5. Alone(q)'
    BY <1>5, <1>6, <2>1, <2>3, <2>4 DEF FeedInv, Alone, Coming, PollersOf
  <2> QED BY <2>2, <2>5
<1>7. Holds(p) /\ Alone(p) /\ HadUpTo(e, cursor[e])
  BY <1>3 DEF FeedInv
<1>13. PICK cur \in Nat, after \in Nat, page \in Feed, given \in Feed, held \in Feed, match \in Feed :
         /\ cur = cursor[e] /\ after = c.after /\ page = c.page
         /\ given = got[e] /\ held = buffer[e] /\ match = m
  BY <1>3 DEF Feed
<1>8. CASE Take(p)
  <2>1. cursor' = cursor /\ call' = call /\ c.at = "idle" /\ buffer[e] # << >>
    BY <1>8 DEF Take
  <2> DEFINE h == Head(buffer[e])
             t == Tail(buffer[e])
  <2>2. /\ buffer'[e] = t /\ h \in Logged /\ t \in Seq(Logged)
        /\ got'[e] = IF EventOut(h) THEN Append(got[e], h) ELSE got[e]
    BY <1>3, <1>8, HeadTailProperties DEF Take, FeedInv, FeedType
  <2>3. Alone(p)'
    <3>1. Coming(p) = << >> /\ Coming(p)' = << >>
      BY <2>1 DEF Coming
    <3>2. buffer[e] \o << >> = buffer[e] /\ t \o << >> = t
      BY <1>3, <2>2, ConcatEmptySeq
    <3>3. h \in Sayable <=> EventOut(h)
      BY <2>2 DEF Logged, Sayable, EventOut
    <3>4. held # << >> /\ h = Head(held) /\ t = Tail(held)
      BY <1>13, <2>1
    <3>5. got'[e] \o Keep(t, Sayable) = got[e] \o Keep(buffer[e], Sayable)
      <4>1. /\ Head(held) \in Sayable => Append(given, Head(held)) \o Keep(Tail(held), Sayable) = given \o Keep(held, Sayable)
            /\ Head(held) \notin Sayable => given \o Keep(Tail(held), Sayable) = given \o Keep(held, Sayable)
        BY <3>4, GivenOn DEF Feed
      <4> QED BY <1>13, <2>2, <3>3, <3>4, <4>1
    <3> HIDE DEF h, t
    <3> QED BY <1>5, <1>7, <2>1, <2>2, <3>1, <3>2, <3>5 DEF Alone, PollersOf
  <2>4. Holds(p)'
    BY <1>2, <1>7, <2>1 DEF Holds
  <2>5. ASSUME NEW d \in Stream PROVE HadUpTo(d, cursor[d])'
    BY <1>4, <2>1 DEF FeedInv, FeedType
  <2> QED BY <1>1, <1>2, <1>6, <2>3, <2>4, <2>5 DEF FeedInv
<1>9. CASE ReadCursor(p)
  <2>1. /\ UNCHANGED <<cursor, buffer, got>> /\ c.at = "idle" /\ call'[p].at = "read"
        /\ call'[p].after = cursor[e]
    BY <1>9 DEF ReadCursor, Idle, FeedInv, FeedType
  <2>2. Holds(p)' /\ Alone(p)'
    <3>1. Coming(p) = << >> /\ Coming(p)' = << >>
      BY <2>1 DEF Coming
    <3>2. HadUpTo(e, cur)'
      BY <1>3, <1>4, <1>7, <1>13
    <3>3. call'[p].after = cur
      BY <1>13, <2>1
    <3> QED BY <1>3, <1>5, <1>7, <2>1, <3>1, <3>2, <3>3 DEF Alone, Holds, PollersOf
  <2>3. ASSUME NEW d \in Stream PROVE HadUpTo(d, cursor[d])'
    BY <1>4, <2>1 DEF FeedInv, FeedType
  <2> QED BY <1>1, <1>2, <1>6, <2>2, <2>3 DEF FeedInv
<1>10. CASE Fetch(p)
  <2> DEFINE events == Events(e, c.after)
  <2>1. /\ UNCHANGED <<cursor, buffer, got>> /\ c.at = "read"
        /\ \/ call'[p].at = "idle"
           \/ call'[p].at = "fetched" /\ call'[p].after = c.after /\ call'[p].page = events
    BY <1>10 DEF Fetch, Idle, FeedInv, FeedType
  <2>2. Piece(m, c.after, events)
    <3>1. c.after \in 0 .. Len(m)
      BY <1>3, <1>7, <2>1 DEF Holds, HadUpTo
    <3> QED BY <1>3, <3>1, PageIsPiece, StreamsAssumption DEF Events
  <2>3. Holds(p)' /\ Alone(p)'
    <3>1. Coming(p) = << >> /\ Coming(p)' = << >>
      BY <2>1 DEF Coming
    <3>2. HadUpTo(e, after)'
      BY <1>3, <1>4, <1>7, <1>13, <2>1 DEF Holds
    <3>3. m' = m /\ (call'[p].at = "fetched" => call'[p].after = after /\ Piece(m, after, call'[p].page))
      BY <1>2, <1>13, <2>1, <2>2
    <3> QED BY <1>3, <1>5, <1>7, <1>13, <2>1, <3>1, <3>2, <3>3 DEF Alone, Holds, PollersOf
  <2>4. ASSUME NEW d \in Stream PROVE HadUpTo(d, cursor[d])'
    BY <1>4, <2>1 DEF FeedInv, FeedType
  <2> QED BY <1>1, <1>2, <1>6, <2>3, <2>4 DEF FeedInv
<1>11. CASE Advance(p)
  <2>1. Len(page) \in Nat
    BY LenProperties DEF Feed
  <2>2. PICK n \in Nat : n = after + Len(page)
    BY <2>1
  <2>3. /\ UNCHANGED <<buffer, got>> /\ c.at = "fetched" /\ call'[p].at = "advanced"
        /\ call'[p].after = after /\ call'[p].page = page
        /\ \A d \in Stream : cursor'[d] = IF d = e THEN n ELSE cursor[d]
    BY <1>11, <1>13, <2>2 DEF Advance, FeedInv, FeedType
  <2>4. Piece(match, after, page) /\ HadUpTo(e, after)
    BY <1>7, <1>13, <2>3 DEF Holds
  <2>5. HadUpTo(e, after)' /\ m' = match
    BY <1>2, <1>3, <1>4, <1>13, <2>4
  <2>6. Len(match) \in Nat /\ after <= n /\ n <= Len(match)
    BY <2>1, <2>2, <2>4, LenProperties DEF Piece, Feed
  <2>7. HadUpTo(e, n)'
    <3>1. ASSUME NEW i \in 1 .. n PROVE Had(e, match[i])'
      <4>1. CASE i <= after
        BY <2>5, <4>1 DEF HadUpTo
      <4>2. CASE ~(i <= after)
        <5>1. i - after \in 1 .. Len(page) /\ after + (i - after) = i
          BY <2>1, <2>2, <4>2
        <5>2. match[i] \in Range(page)
          BY <2>4, <5>1, RangeOfSequence DEF Piece, Feed
        <5>3. call'[p].at = "advanced" /\ match[i] \in Range(call'[p].page) /\ p \in PollersOf(e)'
          BY <2>3, <5>2 DEF PollersOf
        <5> QED BY <5>3 DEF Had
      <4> QED BY <4>1, <4>2
    <3> QED BY <2>5, <2>6, <3>1 DEF HadUpTo
  <2>8. Holds(p)'
    BY <2>3, <2>4, <2>5 DEF Holds
  <2>9. ASSUME PollersOf(e) = {p} PROVE given \o Keep(held \o page, Sayable) = Said(e, n)
    <3>1. cursor[e] = after /\ given \o Keep(held \o << >>, Sayable) = Said(e, cursor[e])
      BY <1>7, <1>13, <2>3, <2>9 DEF Alone, Coming
    <3>2. held \o << >> = held
      BY ConcatEmptySeq DEF Feed
    <3>3. Said(e, after) = Keep(SubSeq(match, 1, after), Sayable)
      BY <1>13, <2>6, SaidIs DEF FeedInv
    <3>4. Said(e, n) = Keep(SubSeq(match, 1, n), Sayable)
      BY <1>13, <2>6, SaidIs DEF FeedInv
    <3>5. given \o Keep(held, Sayable) = Keep(SubSeq(match, 1, after), Sayable)
      BY <3>1, <3>2, <3>3
    <3>6. SubSeq(match, 1, n) = SubSeq(match, 1, after) \o page
      BY <2>2, <2>4, PieceFollows DEF Feed
    <3>7. SubSeq(match, 1, after) \in Seq(Logged)
      <4>1. \A i \in 1 .. after : match[i] \in Logged
        BY <2>6, ElementOfSeq DEF Feed
      <4> QED BY <4>1, SubSeqProperties
    <3>8. PICK a \in Feed : a = SubSeq(match, 1, after)
      BY <3>7 DEF Feed
    <3>10. PICK k \in Feed, l \in Feed : k = Keep(held, Sayable) /\ l = Keep(page, Sayable)
      BY SaidOfFeed
    <3>11. Keep(held \o page, Sayable) = k \o l
      BY <3>10, SaidOfBoth
    <3>12. Keep(a \o page, Sayable) = Keep(a, Sayable) \o l
      BY <3>10, SaidOfBoth
    <3>13. Associative(given, k, l)
      BY FeedAssociative
    <3> QED BY <3>4, <3>5, <3>6, <3>8, <3>10, <3>11, <3>12, <3>13 DEF Associative
  <2>10. Alone(p)'
    <3>1. Said(e, n)' = Said(e, n) /\ cursor'[e] = n /\ got'[e] = given /\ buffer'[e] = held
      BY <1>3, <1>5, <1>13, <2>3
    <3>2. call'[p].at = "advanced" /\ Coming(p)' = page
      BY <2>3 DEF Coming
    <3> QED BY <2>9, <3>1, <3>2 DEF Alone, PollersOf
  <2>11. ASSUME NEW d \in Stream PROVE HadUpTo(d, cursor[d])'
    <3>1. PICK k \in Nat : k = cursor[d]
      BY DEF FeedInv, FeedType
    <3>2. HadUpTo(d, k)'
      BY <1>4, <3>1 DEF FeedInv
    <3>3. cursor'[d] = IF d = e THEN n ELSE k
      BY <2>3, <3>1
    <3> QED BY <2>7, <3>2, <3>3
  <2> QED BY <1>1, <1>2, <1>6, <2>8, <2>10, <2>11 DEF FeedInv
<1>12. CASE Extend(p)
  <2>1. /\ UNCHANGED <<cursor, got>> /\ c.at = "advanced" /\ call'[p] = Idle
        /\ buffer'[e] = buffer[e] \o c.page
    BY <1>3, <1>12 DEF Extend, FeedInv, FeedType
  <2>2. Holds(p)'
    BY <2>1 DEF Holds, Idle
  <2>3. Alone(p)'
    <3>1. Coming(p) = c.page /\ Coming(p)' = << >>
      BY <2>1 DEF Coming, Idle
    <3>2. buffer[e] \o c.page \in Seq(Logged)
      BY <1>3, ConcatProperties
    <3>3. (buffer[e] \o c.page) \o << >> = buffer[e] \o c.page
      BY <3>2, ConcatEmptySeq
    <3>4. Said(e, cur)' = Said(e, cur) /\ cursor'[e] = cur /\ got'[e] = given
      BY <1>5, <1>13, <2>1
    <3>5. call'[p].at = "idle" /\ buffer'[e] \o Coming(p)' = buffer[e] \o c.page
      BY <2>1, <3>1, <3>3 DEF Idle
    <3>6. PollersOf(e) = {p} => given \o Keep(buffer[e] \o c.page, Sayable) = Said(e, cur)
      BY <1>7, <1>13, <3>1 DEF Alone
    <3> QED BY <3>4, <3>5, <3>6 DEF Alone, PollersOf
  <2>4. ASSUME NEW d \in Stream PROVE HadUpTo(d, cursor[d])'
    BY <1>4, <2>1 DEF FeedInv, FeedType
  <2> QED BY <1>1, <1>2, <1>6, <2>2, <2>3, <2>4 DEF FeedInv
<1> QED BY <1>8, <1>9, <1>10, <1>11, <1>12 DEF PollStep

LEMMA FeedNext == FeedInv /\ [Next]_vars => FeedInv'
<1> SUFFICES ASSUME FeedInv, [Next]_vars PROVE FeedInv'
  OBVIOUS
<1>1. ASSUME NEW s \in Session,
             Dispatch(s) \/ Observe(s) \/ Cancel(s) \/ FoldExit(s) \/ FoldLateExit(s)
      PROVE  FeedInv'
  <2>1. EngineType' /\ Grows /\ UNCHANGED <<streamVars, plan, wait>>
    BY <1>1, EngineSteps DEF FeedInv
  <2> QED BY <2>1, FeedLives
<1>2. ASSUME NEW p \in Poller, Poll(p) PROVE FeedInv'
  BY <1>2, FeedPolls DEF Poll, PollStep
<1>3. ASSUME UNCHANGED <<log, sess, order, reader, streamVars>> PROVE FeedInv'
  <2>1. EngineType'
    BY <1>3 DEF FeedInv, EngineType
  <2>2. log' = log \o << >> /\ << >> \in Seq(Logged)
    BY <1>3, EmptySeq, ConcatEmptySeq DEF FeedInv, EngineType
  <2>3. Grows
    BY <1>3, <2>2 DEF Grows
  <2> QED BY <1>3, <2>1, <2>3, FeedLives
<1>4. CASE (\E s \in Session : WaitBegin(s)) \/ PlanBegin \/ PlanStep \/ PlanDrop \/ WaitPoll
  BY <1>3, <1>4 DEF WaitBegin, PlanBegin, PlanStep, PlanDrop, WaitPoll, engineVars
<1>5. CASE UNCHANGED vars
  BY <1>3, <1>5 DEF vars, engineVars
<1> QED BY <1>1, <1>2, <1>4, <1>5 DEF Next

\* However the threads of a program poll (EventStream::poll) and the engine
\* appends, a stream's only thread is given each event once and in order, and no
\* event is lost between several.
THEOREM FeedIsExact == Spec => []ExactFeed
<1>1. Spec => []FeedInv
  BY FeedStarts, FeedNext, PTL DEF Spec
<1> QED BY <1>1, FeedImplies, PTL

(***************************************************************************)
(* The driver plan.  Of the pages taken so far, what counts is that they   *)
(* have every row of the beginning that the engine's present plan has in   *)
(* as many first places: rows only move back, by the rows of sessions that *)
(* are dispatched meanwhile.                                               *)
(***************************************************************************)
Row == {Table} \cup {SessionRow(s) : s \in Session} \cup [event : Nat, of : Session]

Laid ==
  /\ Statements \in Seq(Row) /\ Len(Statements) = 1 + Len(order) + Len(log)
  /\ Len(order) \in Nat /\ Len(log) \in Nat
  /\ \A i \in 1 .. Len(Statements) :
       Statements[i] = IF i = 1 THEN Table
                       ELSE IF i <= 1 + Len(order) THEN SessionRow(order[i - 1])
                       ELSE EventRow(i - 1 - Len(order))

\* Of which every step keeps true, as of EngineType.
LEMMA StatementsAre == EngineType => Laid
<1> SUFFICES ASSUME EngineType PROVE Laid
  OBVIOUS
<1> DEFINE a == <<Table>>
           b == [i \in 1 .. Len(order) |-> SessionRow(order[i])]
           c == [i \in 1 .. Len(log) |-> EventRow(i)]
<1>1. Len(order) \in Nat /\ Len(log) \in Nat
  BY LenProperties DEF EngineType
<1>2. a \in Seq(Row) /\ Len(a) = 1 /\ a[1] = Table
  BY DEF Row
<1>3. b \in Seq(Row) /\ Len(b) = Len(order)
  <2>1. \A i \in 1 .. Len(order) : SessionRow(order[i]) \in Row
    BY ElementOfSeq DEF EngineType, Row
  <2> QED BY <1>1, <2>1
<1>4. c \in Seq(Row) /\ Len(c) = Len(log)
  <2>1. ASSUME NEW i \in 1 .. Len(log) PROVE EventRow(i) \in Row
    <3>1. log[i] \in Logged /\ i \in Nat
      BY <1>1, ElementOfSeq DEF EngineType
    <3> QED BY <3>1 DEF Logged, EventRow, Row
  <2> QED BY <1>1, <2>1
<1>5. \A i \in 1 .. Len(order) : b[i] = SessionRow(order[i])
  OBVIOUS
<1>6. \A i \in 1 .. Len(log) : c[i] = EventRow(i)
  OBVIOUS
<1>7. Statements = (a \o b) \o c
  BY DEF Statements
<1> HIDE DEF a, b, c
<1>8. /\ a \o b \in Seq(Row) /\ Len(a \o b) = 1 + Len(order)
      /\ \A i \in 1 .. 1 + Len(order) : (a \o b)[i] = IF i <= 1 THEN a[i] ELSE b[i - 1]
  <2>1. PICK x \in Seq(Row), y \in Seq(Row) : x = a /\ y = b
    BY <1>2, <1>3
  <2>2. /\ x \o y \in Seq(Row) /\ Len(x \o y) = Len(x) + Len(y)
        /\ \A i \in 1 .. Len(x) + Len(y) : (x \o y)[i] = IF i <= Len(x) THEN x[i] ELSE y[i - Len(x)]
    BY ConcatProperties
  <2> QED BY <1>1, <1>2, <1>3, <2>1, <2>2
<1>9. PICK d \in Seq(Row) : d = a \o b
  BY <1>8
<1>10. /\ d \o c \in Seq(Row) /\ Len(d \o c) = Len(d) + Len(c)
       /\ \A i \in 1 .. Len(d) + Len(c) : (d \o c)[i] = IF i <= Len(d) THEN d[i] ELSE c[i - Len(d)]
  BY <1>4, ConcatProperties
<1>11. Statements \in Seq(Row) /\ Len(Statements) = 1 + Len(order) + Len(log)
  BY <1>4, <1>7, <1>8, <1>9, <1>10
<1>12. ASSUME NEW i \in 1 .. Len(Statements)
       PROVE  Statements[i] = IF i = 1 THEN Table
                              ELSE IF i <= 1 + Len(order) THEN SessionRow(order[i - 1])
                              ELSE EventRow(i - 1 - Len(order))
  <2>1. i \in 1 .. (1 + Len(order) + Len(log))
    BY <1>11
  <2>2. Statements[i] = IF i <= 1 + Len(order) THEN d[i] ELSE c[i - (1 + Len(order))]
    BY <1>4, <1>7, <1>8, <1>9, <1>10, <2>1
  <2>3. CASE i = 1
    BY <1>1, <1>2, <1>8, <1>9, <2>2, <2>3
  <2>4. CASE i # 1 /\ i <= 1 + Len(order)
    <3>1. i - 1 \in 1 .. Len(order) /\ i \in 1 .. 1 + Len(order) /\ ~(i <= 1)
      BY <1>1, <2>1, <2>4
    <3> QED BY <1>5, <1>8, <1>9, <2>2, <2>4, <3>1
  <2>5. CASE i # 1 /\ ~(i <= 1 + Len(order))
    <3>1. i - (1 + Len(order)) \in 1 .. Len(log) /\ i - (1 + Len(order)) = i - 1 - Len(order)
      BY <1>1, <2>1, <2>5
    <3> QED BY <1>6, <2>2, <2>5, <3>1
  <2> QED BY <2>3, <2>4, <2>5
<1> QED BY <1>1, <1>11, <1>12 DEF Laid

LEMMA StatementsStay == EngineType' => Laid'
BY StatementsAre, PTL

PlanType ==
  plan \in [at : {"idle", "paging", "done"}, items : Seq(Row), start : Seq(Row)]

\* The rows of the beginning among the first n of the present plan are had.
Kept(n) ==
  n <= Len(Statements)
  /\ \A i \in 1 .. n : Statements[i] \in Range(plan.start) => Statements[i] \in Range(plan.items)

PlanInv ==
  /\ EngineType /\ PlanType
  /\ plan.at # "idle" => Range(plan.start) \subseteq Range(Statements)
  /\ plan.at = "paging" => Kept(Len(plan.items)) /\ (plan.items = << >> \/ Len(plan.items) >= PlanPage)
  /\ PlanIsWhole

LEMMA PlanStarts == Init => PlanInv
<1> SUFFICES ASSUME Init PROVE PlanInv
  OBVIOUS
<1>1. EngineType
  BY EmptySeq DEF Init, EngineType
<1>2. plan.at = "idle" /\ plan = [at |-> "idle", items |-> << >>, start |-> << >>]
  BY DEF Init, NoPlan
<1> QED BY <1>1, <1>2, EmptySeq DEF PlanInv, PlanType, PlanIsWhole, PlanKeepsRows, OnePagePlan

\* A plan has each session's row, and an event's row after its session's.
LEMMA StatementsInOrder ==
  ASSUME EngineType
  PROVE  PageInOrder(Statements)
<1>1. /\ Statements \in Seq(Row) /\ Len(Statements) = 1 + Len(order) + Len(log)
      /\ Len(order) \in Nat /\ Len(log) \in Nat
  BY StatementsAre DEF Laid
<1> SUFFICES ASSUME NEW i \in 1 .. Len(Statements), "event" \in DOMAIN Statements[i]
             PROVE  \E j \in 1 .. i - 1 : Statements[j] = SessionRow(Statements[i].of)
  BY <1>1, LenProperties DEF PageInOrder
<1>2. ~(i <= 1 + Len(order)) /\ Statements[i] = EventRow(i - 1 - Len(order))
  <2>1. CASE i = 1
    BY <2>1, StatementsAre DEF Laid, Table
  <2>2. CASE i # 1 /\ i <= 1 + Len(order)
    <3>1. Statements[i] = SessionRow(order[i - 1])
      BY <2>2, StatementsAre DEF Laid
    <3>2. DOMAIN SessionRow(order[i - 1]) = {"session"}
      BY DEF SessionRow
    <3> QED BY <3>1, <3>2
  <2>3. CASE i # 1 /\ ~(i <= 1 + Len(order))
    BY <2>3, StatementsAre DEF Laid
  <2> QED BY <1>1, <2>1, <2>2, <2>3
<1>3. i - 1 - Len(order) \in 1 .. Len(log)
  BY <1>1, <1>2
<1>4. Statements[i].of = log[i - 1 - Len(order)].of
  BY <1>2 DEF EventRow
<1>5. PICK k \in 1 .. Len(order) : order[k] = Statements[i].of
  <2>1. Statements[i].of \in Range(order) /\ order \in Seq(Session)
    BY <1>3, <1>4 DEF EngineType
  <2> QED BY <2>1, RangeOfSequence
<1>6. k + 1 \in 1 .. Len(Statements) /\ k + 1 # 1 /\ k + 1 <= 1 + Len(order) /\ k + 1 - 1 = k /\ k + 1 \in 1 .. i - 1
  BY <1>1, <1>2
<1>7. Statements[k + 1] = SessionRow(order[k])
  BY <1>6, StatementsAre DEF Laid
<1> QED BY <1>5, <1>6, <1>7

\* A page that is not full goes to the end.
LEMMA PageIsLong ==
  ASSUME NEW S, NEW m \in Seq(S), NEW after \in 0 .. Len(m), NEW limit \in Nat
  PROVE  /\ Len(Page(m, after, limit)) \in Nat
         /\ Len(Page(m, after, limit)) < limit => after + Len(Page(m, after, limit)) = Len(m)
         /\ Len(Page(m, after, limit)) >= limit => Len(Page(m, after, limit)) = limit
<1> DEFINE last == IF after + limit < Len(m) THEN after + limit ELSE Len(m)
<1>1. Len(m) \in Nat /\ last \in Nat /\ after <= last /\ last <= Len(m)
  BY LenProperties
<1>2. \A i \in after + 1 .. last : m[i] \in S
  BY <1>1, ElementOfSeq
<1>3. Len(SubSeq(m, after + 1, last)) = last - after
  BY <1>1, <1>2, SubSeqProperties
<1>4. Page(m, after, limit) = SubSeq(m, after + 1, last)
  BY DEF Page, last
<1> QED BY <1>1, <1>3, <1>4

LEMMA PlanPages ==
  ASSUME PlanInv, PlanStep
  PROVE  PlanInv'
<1> DEFINE m == Statements
           page == Page(m, Len(plan.items), PlanPage)
<1>1. /\ plan.at = "paging" /\ UNCHANGED <<engineVars, streamVars, wait>>
      /\ plan' = [plan EXCEPT !.items = plan.items \o page, !.at = IF Len(page) < PlanPage THEN "done" ELSE "paging"]
  BY DEF PlanStep
<1>2. EngineType' /\ Statements' = m
  BY <1>1 DEF PlanInv, EngineType, engineVars, Statements, SessionRow, EventRow
<1>3. /\ plan.items \in Seq(Row) /\ plan.start \in Seq(Row) /\ m \in Seq(Row) /\ Len(m) \in Nat
      /\ Len(plan.items) \in Nat /\ PlanPage \in Nat \ {0} /\ Len(plan.items) \in 0 .. Len(m)
  <2>1. plan.items \in Seq(Row) /\ plan.start \in Seq(Row) /\ m \in Seq(Row)
    BY StatementsAre DEF Laid, PlanInv, PlanType
  <2>2. Len(m) \in Nat /\ Len(plan.items) \in Nat
    BY <2>1, LenProperties
  <2> QED BY <1>1, <2>1, <2>2, StreamsAssumption DEF PlanInv, Kept
<1>4. page \in Seq(Row) /\ Piece(m, Len(plan.items), page)
  BY <1>3, PageIsPiece
<1>5. /\ Len(page) \in Nat
      /\ Len(page) < PlanPage => Len(plan.items) + Len(page) = Len(m)
      /\ Len(page) >= PlanPage => Len(page) = PlanPage
  BY <1>3, PageIsLong
<1> HIDE DEF page
<1>6. PICK items \in Seq(Row) : items = plan.items \o page
  BY <1>3, <1>4, ConcatProperties
<1>7. /\ plan'.items = items /\ plan'.start = plan.start
      /\ plan'.at = IF Len(page) < PlanPage THEN "done" ELSE "paging"
      /\ PlanType'
  BY <1>1, <1>3, <1>6 DEF PlanInv, PlanType
<1>8. /\ Len(items) = Len(plan.items) + Len(page) /\ Range(items) = Range(plan.items) \cup Range(page)
  BY <1>3, <1>4, <1>6, ConcatProperties, RangeConcatenation
<1>9. ASSUME NEW i \in 1 .. Len(items), m[i] \in Range(plan.start) PROVE m[i] \in Range(items)
  <2>1. CASE i <= Len(plan.items)
    BY <1>1, <1>3, <1>8, <1>9, <2>1 DEF PlanInv, Kept
  <2>2. CASE ~(i <= Len(plan.items))
    <3>1. i - Len(plan.items) \in 1 .. Len(page) /\ Len(plan.items) + (i - Len(plan.items)) = i
      BY <1>3, <1>5, <1>8, <2>2
    <3>2. page[i - Len(plan.items)] = m[i]
      BY <1>4, <3>1 DEF Piece
    <3> QED BY <1>4, <1>8, <3>1, <3>2, RangeOfSequence
  <2> QED BY <2>1, <2>2
<1>10. Len(items) <= Len(m)
  BY <1>4, <1>8 DEF Piece
<1>11. Kept(Len(plan.items))'
  BY <1>2, <1>7, <1>9, <1>10 DEF Kept
<1>12. Range(plan'.start) \subseteq Range(Statements')
  BY <1>1, <1>2, <1>7 DEF PlanInv
<1>13. CASE Len(page) < PlanPage
  <2>1. Range(plan.start) \subseteq Range(items)
    <3>1. ASSUME NEW r \in Range(plan.start) PROVE r \in Range(items)
      <4>1. r \in Range(m)
        BY <1>1 DEF PlanInv
      <4>2. PICK i \in 1 .. Len(m) : m[i] = r
        BY <1>3, <4>1, RangeOfSequence
      <4>3. i \in 1 .. Len(items)
        BY <1>5, <1>8, <1>13
      <4> QED BY <1>9, <4>2, <4>3
    <3> QED BY <3>1
  <2>2. Len(items) < PlanPage => PageInOrder(items)
    <3> SUFFICES ASSUME Len(items) < PlanPage PROVE PageInOrder(items)
      OBVIOUS
    <3>1. Len(plan.items) = 0
      BY <1>1, <1>3, <1>5, <1>8, EmptySeq DEF PlanInv
    <3>2. Len(items) = Len(m)
      BY <1>5, <1>8, <1>13
    <3>3. ASSUME NEW i \in 1 .. Len(m) PROVE items[i] = m[i]
      <4>1. plan.items = << >>
        BY <1>1, <1>3, <3>1 DEF PlanInv
      <4>2. items = page
        BY <1>4, <1>6, <4>1, ConcatEmptySeq
      <4>3. i \in 1 .. Len(page) /\ Len(plan.items) + i = i
        BY <1>5, <1>13, <3>1
      <4> QED BY <1>4, <4>2, <4>3 DEF Piece
    <3>4. items = m
      BY <1>3, <3>2, <3>3, SeqEqual
    <3> QED BY <3>4, StatementsInOrder DEF PlanInv
  <2> QED BY <1>2, <1>7, <1>12, <1>13, <2>1, <2>2 DEF PlanInv, PlanIsWhole, PlanKeepsRows, OnePagePlan
<1>14. CASE ~(Len(page) < PlanPage)
  <2>1. Len(items) >= PlanPage
    BY <1>3, <1>5, <1>8, <1>14
  <2> QED BY <1>2, <1>7, <1>11, <1>12, <1>14, <2>1 DEF PlanInv, PlanIsWhole, PlanKeepsRows, OnePagePlan
<1> QED BY <1>13, <1>14

\* A step of the engine moves rows back, by no more than the row of a session that
\* it adds, and takes none away.
Moved(i) ==
  \/ Statements'[i] = Statements[i]
  \/ i > 1 /\ Statements'[i] = Statements[i - 1]
  \/ Statements'[i] \in {SessionRow(s) : s \in Session \ Range(order)}

LEMMA RowsMove ==
  ASSUME EngineType, EngineType', Grows, NEW i \in 1 .. Len(Statements)
  PROVE  /\ Len(Statements') \in Nat /\ Len(Statements) \in Nat /\ i \in 1 .. Len(Statements')
         /\ Moved(i)
         /\ \E j \in 1 .. Len(Statements') : Statements'[j] = Statements[i]
<1>1. /\ Len(Statements) = 1 + Len(order) + Len(log) /\ Len(order) \in Nat /\ Len(log) \in Nat
      /\ Statements[i] = IF i = 1 THEN Table
                         ELSE IF i <= 1 + Len(order) THEN SessionRow(order[i - 1])
                         ELSE EventRow(i - 1 - Len(order))
  BY StatementsAre DEF Laid
<1>2. /\ Len(Statements') = 1 + Len(order') + Len(log') /\ Len(order') \in Nat /\ Len(log') \in Nat
      /\ \A j \in 1 .. Len(Statements') :
           Statements'[j] = IF j = 1 THEN Table
                            ELSE IF j <= 1 + Len(order') THEN SessionRow(order'[j - 1])
                            ELSE [event |-> j - 1 - Len(order'), of |-> log'[j - 1 - Len(order')].of]
  BY StatementsStay DEF Laid, Table, SessionRow, EventRow
<1>3. Len(log) <= Len(log') /\ \A k \in 1 .. Len(log) : log'[k] = log[k]
  <2>1. PICK new \in Seq(Logged) : log' = log \o new
    BY DEF Grows
  <2>2. Len(new) \in Nat
    BY LenProperties
  <2> QED BY <1>1, <2>1, <2>2, ConcatProperties DEF EngineType
<1>4. ASSUME NEW k \in 1 .. Len(log) PROVE [event |-> k, of |-> log'[k].of] = EventRow(k)
  BY <1>3 DEF EventRow
<1>5. ASSUME Len(order) <= Len(order'), \A k \in 1 .. Len(order) : order'[k] = order[k], i <= 1 + Len(order)
      PROVE  Statements'[i] = Statements[i] /\ i \in 1 .. Len(Statements')
  <2>1. i \in 1 .. Len(Statements') /\ i <= 1 + Len(order')
    BY <1>1, <1>2, <1>3, <1>5
  <2>2. CASE i = 1
    BY <1>1, <1>2, <2>1, <2>2
  <2>3. CASE i # 1
    <3>1. i - 1 \in 1 .. Len(order)
      BY <1>1, <1>5, <2>3
    <3> QED BY <1>1, <1>2, <1>5, <2>1, <2>3, <3>1
  <2> QED BY <2>2, <2>3
<1>6. CASE order' = order
  <2>1. CASE i <= 1 + Len(order)
    BY <1>1, <1>2, <1>5, <1>6, <2>1 DEF Moved
  <2>2. CASE ~(i <= 1 + Len(order))
    <3>1. i - 1 - Len(order) \in 1 .. Len(log) /\ i \in 1 .. Len(Statements') /\ i # 1
      BY <1>1, <1>2, <1>3, <1>6, <2>2
    <3>2. Statements'[i] = [event |-> i - 1 - Len(order), of |-> log'[i - 1 - Len(order)].of]
      BY <1>2, <1>6, <2>2, <3>1
    <3>3. Statements'[i] = Statements[i]
      BY <1>1, <1>4, <2>2, <3>1, <3>2
    <3> QED BY <1>1, <1>2, <3>1, <3>3 DEF Moved
  <2> QED BY <2>1, <2>2
<1>7. ASSUME NEW s \in Session \ Range(order), order' = Append(order, s)
      PROVE  /\ i \in 1 .. Len(Statements') /\ Moved(i)
             /\ \E j \in 1 .. Len(Statements') : Statements'[j] = Statements[i]
  <2>1. /\ Len(order') = Len(order) + 1 /\ order'[Len(order) + 1] = s
        /\ \A k \in 1 .. Len(order) : order'[k] = order[k]
    BY <1>1, <1>7, AppendProperties DEF EngineType
  <2>2. CASE i <= 1 + Len(order)
    BY <1>1, <1>2, <1>5, <2>1, <2>2 DEF Moved
  <2>3. CASE ~(i <= 1 + Len(order))
    <3>1. /\ i - 1 - Len(order) \in 1 .. Len(log) /\ i \in 1 .. Len(Statements') /\ i # 1
          /\ i + 1 \in 1 .. Len(Statements') /\ i + 1 # 1 /\ ~(i + 1 <= 1 + Len(order'))
          /\ i + 1 - 1 - Len(order') = i - 1 - Len(order)
      BY <1>1, <1>2, <1>3, <2>1, <2>3
    <3>2. Statements'[i + 1] = [event |-> i - 1 - Len(order), of |-> log'[i - 1 - Len(order)].of]
      BY <1>2, <3>1
    <3>3. Statements'[i + 1] = Statements[i]
      BY <1>1, <1>4, <2>3, <3>1, <3>2
    <3>4. Moved(i)
      <4>1. CASE i = Len(order) + 2
        <5>1. i <= 1 + Len(order') /\ i - 1 = Len(order) + 1
          BY <1>1, <2>1, <4>1
        <5>2. Statements'[i] = SessionRow(s)
          BY <1>2, <2>1, <3>1, <5>1
        <5> QED BY <5>2 DEF Moved
      <4>2. CASE i # Len(order) + 2
        <5>1. /\ ~(i <= 1 + Len(order')) /\ i - 1 - Len(order') \in 1 .. Len(log)
              /\ i - 1 \in 1 .. Len(Statements) /\ i - 1 # 1 /\ ~(i - 1 <= 1 + Len(order)) /\ i > 1
              /\ i - 1 - 1 - Len(order) = i - 1 - Len(order')
          BY <1>1, <2>1, <2>3, <4>2
        <5>2. Statements'[i] = EventRow(i - 1 - Len(order'))
          BY <1>2, <1>4, <3>1, <5>1
        <5>3. Statements[i - 1] = EventRow(i - 1 - Len(order'))
          BY <5>1, StatementsAre DEF Laid
        <5> QED BY <5>1, <5>2, <5>3 DEF Moved
      <4> QED BY <4>1, <4>2
    <3> QED BY <3>1, <3>3, <3>4
  <2> QED BY <2>2, <2>3
<1>8. Len(Statements') \in Nat /\ Len(Statements) \in Nat
  BY <1>1, <1>2
<1> QED BY <1>6, <1>7, <1>8 DEF Grows

\* A session's row is in the plan when the session is among the dispatched.
LEMMA RowOfSession ==
  ASSUME EngineType, NEW s \in Session, SessionRow(s) \in Range(Statements)
  PROVE  s \in Range(order)
<1>1. PICK i \in 1 .. Len(Statements) : Statements[i] = SessionRow(s)
  BY StatementsAre, RangeOfSequence DEF Laid
<1>2. Len(order) \in Nat /\ Len(Statements) = 1 + Len(order) + Len(log) /\ Len(log) \in Nat
  BY StatementsAre DEF Laid
<1>3. CASE i = 1
  <2>1. Table = SessionRow(s)
    BY <1>1, <1>3, StatementsAre DEF Laid
  <2>2. DOMAIN Table = {"table"} /\ DOMAIN SessionRow(s) = {"session"}
    BY DEF Table, SessionRow
  <2> QED BY <2>1, <2>2
<1>4. CASE i # 1 /\ i <= 1 + Len(order)
  <2>1. SessionRow(s) = SessionRow(order[i - 1])
    BY <1>1, <1>4, StatementsAre DEF Laid
  <2>2. i - 1 \in 1 .. Len(order) /\ order[i - 1] = s
    BY <1>2, <1>4, <2>1 DEF SessionRow
  <2> QED BY <2>2, RangeOfSequence DEF EngineType
<1>5. CASE ~(i <= 1 + Len(order))
  <2>1. i # 1
    BY <1>2, <1>5
  <2>2. SessionRow(s) = EventRow(i - 1 - Len(order))
    BY <1>1, <1>5, <2>1, StatementsAre DEF Laid
  <2>3. DOMAIN SessionRow(s) = {"session"} /\ "event" \in DOMAIN EventRow(i - 1 - Len(order))
    BY DEF EventRow, SessionRow
  <2> QED BY <2>2, <2>3
<1> QED BY <1>3, <1>4, <1>5

LEMMA PlanLives ==
  ASSUME PlanInv, Grows, EngineType', UNCHANGED plan
  PROVE  PlanInv'
<1>1. PlanType' /\ PlanIsWhole'
  BY DEF PlanInv, PlanType, PlanIsWhole, PlanKeepsRows, OnePagePlan, PageInOrder, SessionRow
<1>2. ASSUME NEW r \in Range(Statements) PROVE r \in Range(Statements')
  <2>1. PICK i \in 1 .. Len(Statements) : Statements[i] = r
    BY StatementsAre, RangeOfSequence DEF Laid, PlanInv
  <2>2. PICK j \in 1 .. Len(Statements') : Statements'[j] = r
    BY <2>1, RowsMove DEF PlanInv
  <2>3. Statements' \in Seq(Row)'
    BY StatementsStay DEF Laid
  <2> QED BY <2>2, <2>3, RangeOfSequence
<1>3. plan'.at # "idle" => Range(plan'.start) \subseteq Range(Statements')
  BY <1>2 DEF PlanInv
<1>4. ASSUME plan.at = "paging" PROVE Kept(Len(plan.items))'
  <2>1. PICK n \in Nat : n = Len(plan.items)
    BY LenProperties DEF PlanInv, PlanType
  <2>2. /\ n <= Len(Statements) /\ Len(Statements) \in Nat
        /\ \A i \in 1 .. n : Statements[i] \in Range(plan.start) => Statements[i] \in Range(plan.items)
    BY <1>4, <2>1, StatementsAre DEF Laid, PlanInv, Kept
  <2>3. n <= Len(Statements')
    <3>1. CASE n = 0
      BY <3>1, StatementsStay DEF Laid
    <3>2. CASE n # 0
      <4>1. n \in 1 .. Len(Statements)
        BY <2>2, <3>2
      <4>2. n \in 1 .. Len(Statements')
        BY <4>1, RowsMove DEF PlanInv
      <4> QED BY <4>2
    <3> QED BY <3>1, <3>2
  <2>4. ASSUME NEW i \in 1 .. n, Statements'[i] \in Range(plan.start)
        PROVE  Statements'[i] \in Range(plan.items)
    <3>1. i \in 1 .. Len(Statements)
      BY <2>2
    <3>2. Moved(i)
      BY <3>1, RowsMove DEF PlanInv
    <3>3. CASE Statements'[i] = Statements[i]
      BY <2>2, <2>4, <3>3
    <3>4. CASE i > 1 /\ Statements'[i] = Statements[i - 1]
      <4>1. i - 1 \in 1 .. n
        BY <3>4
      <4> QED BY <2>2, <2>4, <3>4, <4>1
    <3>5. ASSUME NEW s \in Session \ Range(order), Statements'[i] = SessionRow(s) PROVE FALSE
      <4>1. SessionRow(s) \in Range(Statements)
        BY <1>4, <2>4, <3>5 DEF PlanInv
      <4> QED BY <4>1, RowOfSession DEF PlanInv
    <3> QED BY <3>2, <3>3, <3>4, <3>5 DEF Moved
  <2> QED BY <2>1, <2>3, <2>4 DEF Kept
<1> QED BY <1>1, <1>3, <1>4 DEF PlanInv

LEMMA PlanNext == PlanInv /\ [Next]_vars => PlanInv'
<1> SUFFICES ASSUME PlanInv, [Next]_vars PROVE PlanInv'
  OBVIOUS
<1>1. ASSUME NEW s \in Session,
             Dispatch(s) \/ Observe(s) \/ Cancel(s) \/ FoldExit(s) \/ FoldLateExit(s)
      PROVE  PlanInv'
  <2>1. EngineType' /\ Grows /\ UNCHANGED <<streamVars, plan, wait>>
    BY <1>1, EngineSteps DEF PlanInv
  <2> QED BY <2>1, PlanLives
<1>2. ASSUME UNCHANGED engineVars PROVE EngineType' /\ Grows
  <2>1. log' = log \o << >> /\ << >> \in Seq(Logged)
    BY <1>2, EmptySeq, ConcatEmptySeq DEF PlanInv, EngineType, engineVars
  <2> QED BY <1>2, <2>1 DEF Grows, PlanInv, EngineType, engineVars
<1>3. CASE (\E p \in Poller : Poll(p)) \/ (\E s \in Session : WaitBegin(s)) \/ WaitPoll \/ UNCHANGED vars
  <2>1. UNCHANGED engineVars /\ UNCHANGED plan
    BY <1>3 DEF Poll, Take, ReadCursor, Fetch, Advance, Extend, WaitBegin, WaitPoll, vars, engineVars
  <2> QED BY <1>2, <2>1, PlanLives
<1>4. CASE PlanBegin
  <2>1. UNCHANGED engineVars /\ plan' = [at |-> "paging", items |-> << >>, start |-> Statements]
    BY <1>4 DEF PlanBegin, NoPlan
  <2>2. EngineType' /\ Statements' = Statements /\ Statements \in Seq(Row) /\ Len(Statements) \in Nat
    BY <1>2, <2>1, StatementsAre, LenProperties DEF Laid, PlanInv, engineVars, Statements, SessionRow, EventRow
  <2>3. << >> \in Seq(Row) /\ Len(<< >>) = 0
    BY EmptySeq
  <2> QED BY <2>1, <2>2, <2>3 DEF PlanInv, PlanType, Kept, PlanIsWhole, PlanKeepsRows, OnePagePlan
<1>5. CASE PlanDrop
  <2>1. UNCHANGED engineVars /\ plan' = [at |-> "idle", items |-> << >>, start |-> << >>]
    BY <1>5 DEF PlanDrop, NoPlan
  <2> QED BY <1>2, <2>1, EmptySeq DEF PlanInv, PlanType, PlanIsWhole, PlanKeepsRows, OnePagePlan
<1>6. CASE PlanStep
  BY <1>6, PlanPages
<1> QED BY <1>1, <1>3, <1>4, <1>5, <1>6 DEF Next

\* However many pages a binding takes of the engine's plan (core_impl.rs
\* driver_plan), and whatever the engine appends between them, the plan has every
\* row of its beginning, and one that fits a page has its rows in order.
THEOREM PlansAreWhole == Spec => []PlanIsWhole
<1>1. Spec => []PlanInv
  BY PlanStarts, PlanNext, PTL DEF Spec
<1>2. PlanInv => PlanIsWhole
  BY DEF PlanInv
<1> QED BY <1>1, <1>2, PTL
=============================================================================
