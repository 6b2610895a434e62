----------------------------- MODULE WatchingProofs -----------------------------
(***************************************************************************)
(* The scraped tier, for every terminal, threshold and number of polls:    *)
(* each quiet span is reported once, by the first poll that finds it long  *)
(* enough, and a terminal that showed nothing yet likewise; and a poll     *)
(* emits what its capture adds to the previous one, no more and no less.   *)
(***************************************************************************)
EXTENDS Watching, SelectionProofs

Entries == [at : Nat, active : BOOLEAN, shown : BOOLEAN, idle : BOOLEAN, dead : BOOLEAN]

LogType ==
  /\ now \in Nat /\ log \in Seq(Entries)
  /\ \A i \in DOMAIN log : log[i].at <= now
  /\ \A i, j \in DOMAIN log : i <= j => log[i].at <= log[j].at

\* The quiet span that poll i belongs to began with poll b.
Begins(l, b, i) ==
  /\ b \in 1 .. i
  /\ b = 1 \/ l[b].active
  /\ \A k \in b + 1 .. i : ~l[k].active

\* The detector knows when the span of the last poll began, and whether it has
\* been reported: that is, whether it was long enough at the last poll.
IdleKnows ==
  IF log = << >> THEN idle = FreshIdle
  ELSE \E b \in 1 .. Len(log) :
         /\ Begins(log, b, Len(log))
         /\ idle = [since |-> log[b].at, fired |-> log[Len(log)].at - log[b].at >= IdleSecs]

Reported(i) ==
  \E b \in 1 .. i :
    /\ Begins(log, b, i)
    /\ log[i].at - log[b].at >= IdleSecs
    /\ \A k \in b .. i - 1 : log[k].at - log[b].at < IdleSecs

IdleInv == LogType /\ IdleKnows /\ \A i \in DOMAIN log : log[i].idle <=> Reported(i)

\* A poll belongs to one span only.
LEMMA OneSpan ==
  ASSUME NEW l, NEW i \in Nat, NEW b, NEW d, Begins(l, b, i), Begins(l, d, i)
  PROVE  b = d
<1>1. b \in 1 .. i /\ d \in 1 .. i
  BY DEF Begins
<1>2. ~(b < d)
  <2> SUFFICES ASSUME b < d PROVE FALSE
    OBVIOUS
  <2>1. d # 1 /\ d \in b + 1 .. i
    BY <1>1
  <2> QED BY <2>1 DEF Begins
<1>3. ~(d < b)
  <2> SUFFICES ASSUME d < b PROVE FALSE
    OBVIOUS
  <2>1. b # 1 /\ b \in d + 1 .. i
    BY <1>1
  <2> QED BY <2>1 DEF Begins
<1> QED BY <1>1, <1>2, <1>3

LEMMA LoggedTimes ==
  ASSUME NEW l \in Seq(Entries), NEW i \in DOMAIN l
  PROVE  l[i] \in Entries /\ l[i].at \in Nat
<1>1. DOMAIN l = 1 .. Len(l)
  BY LenProperties
<1>2. l[i] \in Entries
  BY <1>1, ElementOfSeq
<1> QED BY <1>2 DEF Entries

LEMMA IdleInit == Init => IdleInv
<1> SUFFICES ASSUME Init PROVE IdleInv
  OBVIOUS
<1>1. log = << >> /\ now = 0 /\ idle = FreshIdle
  BY DEF Init
<1>2. log \in Seq(Entries) /\ DOMAIN log = {}
  BY <1>1, EmptySeq
<1> QED BY <1>1, <1>2 DEF IdleInv, LogType, IdleKnows

\* The log, the detector and a clock that does not go back.
LEMMA IdleStill ==
  ASSUME IdleInv, UNCHANGED <<log, idle>>, now' \in Nat, now <= now'
  PROVE  IdleInv'
<1>1. \A i \in DOMAIN log : log[i].at \in Nat
  BY LoggedTimes DEF IdleInv, LogType
<1>2. LogType'
  BY <1>1 DEF IdleInv, LogType
<1>3. IdleKnows'
  BY DEF IdleInv, IdleKnows, Begins
<1>4. \A i \in DOMAIN log' : log'[i].idle <=> Reported(i)'
  BY DEF IdleInv, Reported, Begins
<1> QED BY <1>2, <1>3, <1>4 DEF IdleInv

LEMMA IdlePoll ==
  ASSUME IdleInv, Poll
  PROVE  IdleInv'
<1>0. PICK n \in Nat : n = Len(log)
  BY LenProperties DEF IdleInv, LogType
<1> DEFINE active == emitted' # << >>
           observed == IdleObserve(idle, now, active)
<1>1. PICK e \in Entries : /\ log' = Append(log, e) /\ e.at = now /\ e.active = active
                           /\ e.idle = observed.fires /\ idle' = observed.next
  <2> DEFINE d == DeadObserve(dead, now, active)
             e == [at |-> now, active |-> active, shown |-> last' # << >>,
                   idle |-> observed.fires, dead |-> d.fires]
  <2>1. log' = Append(log, e) /\ idle' = observed.next
    BY DEF Poll
  <2>2. observed.fires \in BOOLEAN
    BY DEF IdleObserve
  <2>3. d.fires \in BOOLEAN
    BY DEF DeadObserve
  <2>4. now \in Nat
    BY DEF IdleInv, LogType
  <2> HIDE DEF d, observed
  <2>5. e \in Entries
    BY <2>2, <2>3, <2>4 DEF Entries
  <2>6. e.at = now /\ e.active = active /\ e.idle = observed.fires
    OBVIOUS
  <2> QED BY <2>1, <2>5, <2>6
<1>2. /\ n \in Nat /\ DOMAIN log = 1 .. n /\ now' = now /\ now \in Nat
      /\ log' \in Seq(Entries) /\ Len(log') = n + 1 /\ DOMAIN log' = 1 .. n + 1
      /\ \A i \in 1 .. n : log'[i] = log[i]
      /\ log'[n + 1] = e /\ log' # << >>
  BY <1>0, <1>1, AppendProperties, LenProperties DEF IdleInv, LogType, Poll
<1>3. log'[n + 1].active <=> active
  BY <1>1, <1>2
<1>4. \A i \in 1 .. n : log[i].at \in Nat /\ log[i].at <= now
  BY <1>2, LoggedTimes DEF IdleInv, LogType
<1>5. LogType'
  <2>1. \A i, j \in 1 .. n + 1 : i <= j => log'[i].at <= log'[j].at
    <3> SUFFICES ASSUME NEW i \in 1 .. n + 1, NEW j \in 1 .. n + 1, i <= j
                 PROVE  log'[i].at <= log'[j].at
      OBVIOUS
    <3>1. CASE j \in 1 .. n
      <4>1. i \in 1 .. n
        BY <1>2, <3>1
      <4> QED BY <1>2, <3>1, <4>1 DEF IdleInv, LogType
    <3>2. CASE j = n + 1
      <4>1. i \in 1 .. n \/ i = n + 1
        BY <1>2
      <4> QED BY <1>1, <1>2, <1>4, <3>2, <4>1
    <3> QED BY <1>2, <3>1, <3>2
  <2>2. \A i \in 1 .. n + 1 : log'[i].at <= now'
    <3> SUFFICES ASSUME NEW i \in 1 .. n + 1 PROVE log'[i].at <= now'
      OBVIOUS
    <3>1. i \in 1 .. n \/ i = n + 1
      BY <1>2
    <3> QED BY <1>1, <1>2, <1>4, <3>1
  <2> QED BY <1>2, <2>1, <2>2 DEF LogType
\* The spans of the polls before are what they were.
<1>6. ASSUME NEW i \in 1 .. n PROVE log'[i].idle <=> Reported(i)'
  <2>1. \A b : Begins(log', b, i) <=> Begins(log, b, i)
    BY <1>2 DEF Begins
  <2>2. Reported(i)' <=> Reported(i)
    <3>1. \A b \in 1 .. i : /\ log'[b] = log[b] /\ log'[i] = log[i]
                            /\ \A k \in b .. i - 1 : log'[k] = log[k]
      BY <1>2
    <3> QED BY <2>1, <3>1 DEF Reported
  <2> QED BY <1>2, <2>2 DEF IdleInv
\* The poll is active, or the first: it begins its span and reports nothing.
<1>7. ASSUME active \/ log = << >>
      PROVE  IdleKnows' /\ (log'[n + 1].idle <=> Reported(n + 1)')
  <2>1. Begins(log', n + 1, n + 1)
    <3>1. log = << >> => n + 1 = 1
      BY <1>0, EmptySeq
    <3>2. n + 1 \in 1 .. n + 1 /\ n + 1 + 1 .. n + 1 = {}
      BY <1>2
    <3> QED BY <1>1, <1>2, <1>7, <3>1, <3>2 DEF Begins
  <2>2. idle' = [since |-> now, fired |-> FALSE] /\ ~observed.fires
    <3>1. CASE active
      BY <1>1, <3>1 DEF IdleObserve
    <3>2. CASE log = << >> /\ ~active
      <4>1. idle = FreshIdle
        BY <3>2 DEF IdleInv, IdleKnows
      <4>2. ~(now - now >= IdleSecs)
        BY <1>2, WatchingAssumption
      <4> QED BY <1>1, <3>2, <4>1, <4>2 DEF IdleObserve, FreshIdle
    <3> QED BY <1>7, <3>1, <3>2
  <2>3. ~(log'[n + 1].at - log'[n + 1].at >= IdleSecs)
    BY <1>1, <1>2, WatchingAssumption
  <2>4. ~Reported(n + 1)'
    <3> SUFFICES ASSUME Reported(n + 1)' PROVE FALSE
      OBVIOUS
    <3>1. PICK b \in 1 .. n + 1 : Begins(log', b, n + 1) /\ log'[n + 1].at - log'[b].at >= IdleSecs
      BY DEF Reported
    <3>2. b = n + 1
      <4>1. ~(b < n + 1)
        <5> SUFFICES ASSUME b < n + 1 PROVE FALSE
          OBVIOUS
        <5>1. n + 1 # 1 /\ n + 1 \in b + 1 .. n + 1
          BY <1>2
        <5>2. ~log'[n + 1].active
          BY <3>1, <5>1 DEF Begins
        <5>3. log = << >> => n = 0
          BY <1>0, EmptySeq
        <5>4. ~active
          BY <1>3, <5>2
        <5>5. n = 0
          BY <1>7, <5>3, <5>4
        <5> QED BY <5>1, <5>5
      <4> QED BY <1>2, <4>1
    <3> QED BY <2>3, <3>1, <3>2
  <2>5. idle' = [since |-> log'[n + 1].at, fired |-> log'[n + 1].at - log'[n + 1].at >= IdleSecs]
    <3>1. log'[n + 1].at = now
      BY <1>1, <1>2
    <3>2. (log'[n + 1].at - log'[n + 1].at >= IdleSecs) = FALSE
      BY <2>3
    <3> QED BY <2>2, <3>1, <3>2
  <2>6. IdleKnows'
    <3>1. n + 1 \in 1 .. n + 1
      BY <1>2
    <3> QED BY <1>2, <2>1, <2>5, <3>1 DEF IdleKnows
  <2> QED BY <1>1, <1>2, <2>2, <2>4, <2>6
\* A quiet poll goes on with the span of the one before it.
<1>8. ASSUME ~active, log # << >>
      PROVE  IdleKnows' /\ (log'[n + 1].idle <=> Reported(n + 1)')
  <2>0. n \in 1 .. n
    BY <1>0, <1>8, EmptySeq DEF IdleInv, LogType
  <2>1. PICK b \in 1 .. n :
          /\ Begins(log, b, n)
          /\ idle = [since |-> log[b].at, fired |-> log[n].at - log[b].at >= IdleSecs]
    BY <1>0, <1>8 DEF IdleInv, IdleKnows
  <2>2. Begins(log', b, n + 1)
    <3>1. b \in 1 .. n + 1
      BY <1>2
    <3>2. \A k \in b + 1 .. n + 1 : k \in b + 1 .. n \/ k = n + 1
      BY <1>2
    <3>3. \A k \in b + 1 .. n + 1 : ~log'[k].active
      <4> SUFFICES ASSUME NEW k \in b + 1 .. n + 1 PROVE ~log'[k].active
        OBVIOUS
      <4>1. CASE k \in b + 1 .. n
        <5>1. k \in 1 .. n
          BY <4>1
        <5> QED BY <1>2, <2>1, <4>1, <5>1 DEF Begins
      <4>2. CASE k = n + 1
        <5> HIDE DEF active
        <5> QED BY <1>8, <1>3, <4>2
      <4> QED BY <3>2, <4>1, <4>2
    <3> QED BY <1>2, <2>1, <3>1, <3>3 DEF Begins
  <2> DEFINE was  == log[n].at - log[b].at >= IdleSecs
             long == now - log[b].at >= IdleSecs
  <2>3. log[b].at \in Nat /\ log[n].at \in Nat /\ log[n].at <= now /\ IdleSecs \in Nat
    BY <1>4, <2>0, WatchingAssumption
  <2>4. was => long
    BY <1>2, <2>3
  <2>5. observed.fires = (~was /\ long) /\ idle' = [since |-> log[b].at, fired |-> long]
    <3>1. log[b].at # Never
      BY <2>3 DEF Never
    <3>2. observed.fires = (~was /\ long)
      BY <1>8, <2>1, <3>1 DEF IdleObserve
    <3>3. idle' = [since |-> log[b].at, fired |-> (~was /\ long) \/ was]
      BY <1>1, <1>8, <2>1, <3>1 DEF IdleObserve
    <3>4. ((~was /\ long) \/ was) = long
      BY <2>4
    <3> QED BY <3>2, <3>3, <3>4
  <2> HIDE DEF observed
  <2>6. IdleKnows'
    <3>1. b \in 1 .. n + 1 /\ log'[b] = log[b] /\ log'[n + 1].at = now
      BY <1>1, <1>2
    <3>2. idle' = [since |-> log'[b].at, fired |-> log'[n + 1].at - log'[b].at >= IdleSecs]
      BY <2>5, <3>1
    <3> QED BY <1>2, <2>2, <3>1, <3>2 DEF IdleKnows
  <2>7. Reported(n + 1)' <=> (~was /\ long)
    <3>1. log'[b] = log[b] /\ log'[n + 1].at = now /\ b \in 1 .. n + 1
      BY <1>1, <1>2
    <3>2. ASSUME ~was, long PROVE Reported(n + 1)'
      <4>1. ASSUME NEW k \in b .. n PROVE log'[k].at - log'[b].at < IdleSecs
        <5>1. k \in 1 .. n /\ k <= n
          BY <1>2
        <5>2. log[k].at <= log[n].at
          BY <1>2, <2>0, <5>1 DEF IdleInv, LogType
        <5> QED BY <1>2, <1>4, <2>3, <3>1, <3>2, <5>1, <5>2
      <4>2. b .. n + 1 - 1 = b .. n
        BY <1>2
      <4> QED BY <2>2, <3>1, <3>2, <4>1, <4>2 DEF Reported
    <3>3. ASSUME Reported(n + 1)' PROVE ~was /\ long
      <4>1. PICK d \in 1 .. n + 1 :
              /\ Begins(log', d, n + 1) /\ log'[n + 1].at - log'[d].at >= IdleSecs
              /\ \A k \in d .. n + 1 - 1 : log'[k].at - log'[d].at < IdleSecs
        BY <3>3 DEF Reported
      <4>2. d = b
        BY <1>2, <2>2, <4>1, OneSpan
      <4>3. n \in b .. n + 1 - 1
        BY <1>2
      <4>4. log'[n].at - log'[b].at < IdleSecs /\ long
        BY <3>1, <4>1, <4>2, <4>3
      <4> QED BY <1>2, <2>0, <2>3, <3>1, <4>4
    <3> QED BY <3>2, <3>3
  <2> QED BY <1>1, <1>2, <2>5, <2>6, <2>7
<1>9. \A i \in 1 .. n + 1 : log'[i].idle <=> Reported(i)'
  <2> SUFFICES ASSUME NEW i \in 1 .. n + 1 PROVE log'[i].idle <=> Reported(i)'
    OBVIOUS
  <2>1. i \in 1 .. n \/ i = n + 1
    BY <1>2
  <2> QED BY <1>6, <1>7, <1>8, <2>1
<1> QED BY <1>2, <1>5, <1>7, <1>8, <1>9 DEF IdleInv

LEMMA IdleRewatch == IdleInv /\ Rewatch => IdleInv'
<1> SUFFICES ASSUME IdleInv, Rewatch PROVE IdleInv'
  OBVIOUS
<1>1. log' = << >> /\ now' = now /\ idle' = FreshIdle
  BY DEF Rewatch
<1>2. log' \in Seq(Entries) /\ DOMAIN log' = {}
  BY <1>1, EmptySeq
<1> QED BY <1>1, <1>2 DEF IdleInv, LogType, IdleKnows, FreshIdle

LEMMA IdleNext == IdleInv /\ [Next]_vars => IdleInv'
<1> SUFFICES ASSUME IdleInv, [Next]_vars PROVE IdleInv'
  OBVIOUS
<1>1. now \in Nat
  BY DEF IdleInv, LogType
<1>2. CASE Poll
  BY <1>2, IdlePoll
<1>3. CASE Rewatch
  BY <1>3, IdleRewatch
<1>4. CASE Tick
  BY <1>1, <1>4, IdleStill DEF Tick, pollVars
<1>5. CASE \/ CaptureFails \/ UNCHANGED vars
           \/ \E line \in Line \cup {Blank} : PrintLine(line)
           \/ \E frame \in Frames : Redraw(frame)
  <2>1. UNCHANGED <<log, idle, now>>
    BY <1>5 DEF CaptureFails, PrintLine, Redraw, vars, pollVars
  <2> QED BY <1>1, <2>1, IdleStill
<1> QED BY <1>2, <1>3, <1>4, <1>5 DEF Next

\* The idle report is neither missed nor repeated: of each quiet span it comes
\* from the first poll that finds it IdleSecs long, and from no other
\* (IdleTimeout.observe in the poller's loop).
THEOREM IdleReportedOnce == Spec => []IdleOncePerSpan
<1>1. IdleInv => IdleOncePerSpan
  <2> SUFFICES ASSUME IdleInv PROVE IdleOncePerSpan
    OBVIOUS
  <2>1. \A i \in DOMAIN log : Reported(i) <=>
          \E b \in 1 .. i :
            /\ b = 1 \/ log[b].active
            /\ \A k \in b + 1 .. i : ~log[k].active
            /\ log[i].at - log[b].at >= IdleSecs
            /\ \A k \in b .. i - 1 : log[k].at - log[b].at < IdleSecs
    BY DEF Reported, Begins
  <2> QED BY <2>1 DEF IdleInv, IdleOncePerSpan
<1> QED BY <1>1, IdleInit, IdleNext, PTL DEF Spec

(***************************************************************************)
(* What a capture shows.                                                   *)
(***************************************************************************)
Lines == Seq(Line \cup {Blank})

\* A bounded, non-empty set of numbers has a greatest.
LEMMA GreatestNumber ==
  ASSUME NEW n \in Nat, NEW A \in SUBSET (0 .. n), A # {}
  PROVE  \E m \in A : \A k \in A : k <= m
<1> DEFINE back == {n - k : k \in A}
<1>1. back \subseteq Nat /\ back # {}
  <2>1. PICK k \in A : n - k \in back
    OBVIOUS
  <2>2. \A m \in A : n - m \in Nat
    OBVIOUS
  <2> QED BY <2>1, <2>2
<1> HIDE DEF back
<1>2. PICK b \in back : \A c \in back : b <= c
  BY <1>1, LeastNumber
<1>3. PICK m \in A : b = n - m
  BY DEF back
<1>4. ASSUME NEW k \in A PROVE k <= m
  <2>1. n - k \in back
    BY DEF back
  <2>2. n - m <= n - k
    BY <1>2, <1>3, <2>1
  <2> QED BY <2>2
<1> QED BY <1>4

\* Lines, as the provers need them.
LEMMA LineFacts ==
  ASSUME NEW s \in Lines
  PROVE  /\ s \in Seq(Line \cup {Blank}) /\ Len(s) \in Nat /\ DOMAIN s = 1 .. Len(s)
         /\ \A i \in 1 .. Len(s) : s[i] \in Line \cup {Blank} /\ (s[i] # Blank <=> s[i] \in Line)
<1>1. s \in Seq(Line \cup {Blank})
  BY DEF Lines
<1>2. Len(s) \in Nat /\ DOMAIN s = 1 .. Len(s)
  BY <1>1, LenProperties
<1>3. \A i \in 1 .. Len(s) : s[i] \in Line \cup {Blank}
  BY <1>1, ElementOfSeq
<1> QED BY <1>1, <1>2, <1>3, WatchingAssumption

\* Lines joined.
LEMMA JoinLines ==
  ASSUME NEW s \in Lines, NEW t \in Lines, NEW w, w = s \o t
  PROVE  /\ w \in Lines /\ Len(w) = Len(s) + Len(t)
         /\ \A x \in 1 .. Len(s) + Len(t) : w[x] = IF x <= Len(s) THEN s[x] ELSE t[x - Len(s)]
BY ConcatProperties DEF Lines

\* A stretch of lines.
LEMMA Slice ==
  ASSUME NEW s \in Lines, NEW i \in Nat \ {0}, NEW j \in Int, j <= Len(s)
  PROVE  /\ SubSeq(s, i, j) \in Lines /\ Len(SubSeq(s, i, j)) = IF i <= j THEN j - i + 1 ELSE 0
         /\ \A k \in 1 .. j - i + 1 : SubSeq(s, i, j)[k] = s[i + k - 1]
<1>1. Len(s) \in Nat
  BY LineFacts
<1>2. \A k \in i .. j : s[k] \in Line \cup {Blank}
  BY <1>1, LineFacts
<1>3. /\ SubSeq(s, i, j) \in Seq(Line \cup {Blank})
      /\ Len(SubSeq(s, i, j)) = IF i <= j THEN j - i + 1 ELSE 0
      /\ \A k \in 1 .. j - i + 1 : SubSeq(s, i, j)[k] = s[i + k - 1]
  BY <1>2, SubSeqProperties
<1> QED BY <1>3 DEF Lines

\* What follows the first k lines.
LEMMA AfterLines ==
  ASSUME NEW s \in Lines, NEW k \in 0 .. Len(s)
  PROVE  /\ After(s, k) \in Lines /\ Len(After(s, k)) = Len(s) - k
         /\ \A j \in 1 .. Len(s) - k : After(s, k)[j] = s[k + j]
<1>1. PICK n \in Nat : n = Len(s)
  BY LineFacts
<1>2. k + 1 \in Nat \ {0} /\ n \in Int /\ n <= Len(s) /\ k <= n
  BY <1>1
<1>3. PICK rest : rest = SubSeq(s, k + 1, n)
  OBVIOUS
<1>4. /\ rest \in Lines /\ Len(rest) = IF k + 1 <= n THEN n - (k + 1) + 1 ELSE 0
      /\ \A j \in 1 .. n - (k + 1) + 1 : rest[j] = s[k + 1 + j - 1]
  BY <1>2, <1>3, Slice
<1>5. rest = After(s, k)
  BY <1>1, <1>3 DEF After
<1>6. n - (k + 1) + 1 = n - k /\ (~(k + 1 <= n) => n - k = 0)
  BY <1>2
<1>7. rest \in Lines /\ Len(rest) = n - k
  BY <1>4, <1>6
<1>8. \A j \in 1 .. n - k : rest[j] = s[k + j]
  BY <1>4, <1>6
<1> QED BY <1>1, <1>5, <1>7, <1>8

\* Where a capture begins and ends.
ShownFrom(lines, first, end) ==
  /\ first \in 1 .. Len(lines) /\ end \in 1 .. Len(lines) /\ first <= end
  /\ lines[first] # Blank /\ lines[end] # Blank
  /\ \A i \in 1 .. Len(lines) : lines[i] # Blank => first <= i /\ i <= end
  /\ Shown(lines) = SubSeq(lines, first, end)

Empty(lines) ==
  /\ Shown(lines) = << >> /\ Captured(lines) = << >>
  /\ \A i \in 1 .. Len(lines) : lines[i] = Blank

\* A terminal shows nothing, or the lines from the first with ink to the last.
LEMMA ShownAt ==
  ASSUME NEW lines \in Lines
  PROVE  Empty(lines) \/ \E first, end \in Nat : ShownFrom(lines, first, end)
<1> DEFINE inked == {i \in DOMAIN lines : lines[i] # Blank}
<1>1. Len(lines) \in Nat /\ DOMAIN lines = 1 .. Len(lines)
  BY LineFacts
<1>2. CASE inked = {}
  BY <1>1, <1>2 DEF Shown, Captured, Empty
<1>3. CASE inked # {}
  <2>1. inked \subseteq Nat /\ inked \in SUBSET (0 .. Len(lines))
    BY <1>1
  <2>2. \E i \in inked : \A j \in inked : i <= j
    <3> HIDE DEF inked
    <3> QED BY <1>3, <2>1, LeastNumber
  <2>3. \E i \in inked : \A j \in inked : j <= i
    <3> HIDE DEF inked
    <3> QED BY <1>1, <1>3, <2>1, GreatestNumber
  <2> DEFINE first == CHOOSE i \in inked : \A j \in inked : i <= j
             end   == CHOOSE i \in inked : \A j \in inked : j <= i
  <2>4. first \in inked /\ \A j \in inked : first <= j
    BY <2>2
  <2>5. end \in inked /\ \A j \in inked : j <= end
    BY <2>3
  <2>6. Shown(lines) = SubSeq(lines, first, end)
    BY <1>3 DEF Shown
  <2> HIDE DEF first, end
  <2>7. ShownFrom(lines, first, end)
    BY <1>1, <2>4, <2>5, <2>6 DEF ShownFrom
  <2>8. first \in Nat /\ end \in Nat
    BY <2>1, <2>4, <2>5
  <2> QED BY <2>7, <2>8
<1> QED BY <1>2, <1>3

\* The lines shown.
LEMMA ShownLines ==
  ASSUME NEW lines \in Lines, NEW first, NEW end, ShownFrom(lines, first, end)
  PROVE  /\ Shown(lines) \in Lines /\ Len(Shown(lines)) = end - first + 1
         /\ \A y \in 1 .. end - first + 1 : Shown(lines)[y] = lines[first + y - 1]
<1>1. /\ first \in Nat \ {0} /\ end \in Int /\ end <= Len(lines) /\ first <= end
      /\ Shown(lines) = SubSeq(lines, first, end)
  BY LineFacts DEF ShownFrom
<1>2. PICK c : c = SubSeq(lines, first, end)
  OBVIOUS
<1>3. /\ c \in Lines /\ Len(c) = IF first <= end THEN end - first + 1 ELSE 0
      /\ \A y \in 1 .. end - first + 1 : c[y] = lines[first + y - 1]
  BY <1>1, <1>2, Slice
<1> QED BY <1>1, <1>2, <1>3

\* c is the lines from first to end, the first one without its indentation.
CaptureOf(c, lines, first, end) ==
  /\ c \in Lines /\ Len(c) = end - first + 1
  /\ c[1] = Trimmed[lines[first]] /\ c[1] \in Line /\ lines[first] \in Line
  /\ \A y \in 2 .. end - first + 1 : c[y] = lines[first + y - 1]

\* The lines captured.
LEMMA CapturedLines ==
  ASSUME NEW lines \in Lines, NEW first, NEW end, ShownFrom(lines, first, end)
  PROVE  CaptureOf(Captured(lines), lines, first, end)
<1>1. /\ first \in Nat \ {0} /\ end \in Int /\ end <= Len(lines) /\ first <= end
      /\ lines[first] \in Line
  BY LineFacts DEF ShownFrom
<1>2. PICK s \in Lines : /\ s = Shown(lines) /\ Len(s) = end - first + 1
                         /\ \A y \in 1 .. end - first + 1 : s[y] = lines[first + y - 1]
  BY ShownLines
<1>3. s # << >> /\ 1 \in 1 .. end - first + 1 /\ first + 1 - 1 = first
  BY <1>1, <1>2, EmptySeq
<1>4. s[1] = lines[first]
  BY <1>2, <1>3
<1>5. DOMAIN s = 1 .. Len(s) /\ \A y \in 1 .. Len(s) : s[y] \in Line \cup {Blank}
  BY LineFacts
<1>6. PICK c : c = [s EXCEPT ![1] = Trimmed[s[1]]]
  OBVIOUS
<1>7. Captured(lines) = c
  BY <1>2, <1>3, <1>6 DEF Captured
<1>8. Trimmed[lines[first]] \in Line
  BY <1>1, WatchingAssumption
<1>9. c \in [1 .. Len(s) -> Line \cup {Blank}]
  <2>1. s \in [1 .. Len(s) -> Line \cup {Blank}]
    BY <1>2, <1>5, LenProperties DEF Lines
  <2>2. Trimmed[s[1]] \in Line \cup {Blank}
    BY <1>4, <1>8
  <2> QED BY <1>6, <2>1, <2>2
<1>10. c \in Lines /\ Len(c) = Len(s)
  <2>1. Len(s) \in Nat
    BY LineFacts
  <2> QED BY <1>9, <2>1 DEF Lines
<1>11. c[1] = Trimmed[lines[first]]
  BY <1>1, <1>2, <1>3, <1>4, <1>5, <1>6
<1>12. \A y \in 2 .. end - first + 1 : c[y] = lines[first + y - 1]
  BY <1>1, <1>2, <1>5, <1>6
<1>13. CaptureOf(c, lines, first, end)
  BY <1>1, <1>2, <1>8, <1>10, <1>11, <1>12 DEF CaptureOf
<1> QED BY <1>7, <1>13

\* A capture that is not empty begins and ends with a line with ink.
LEMMA CapturedHasInk ==
  ASSUME NEW lines \in Lines
  PROVE  /\ Captured(lines) \in Lines
         /\ Captured(lines) # << >> => Ink(Captured(lines)) # << >>
         /\ Captured(lines) # << >> => Captured(lines)[Len(Captured(lines))] # Blank
<1>1. CASE Empty(lines)
  BY <1>1, EmptySeq DEF Empty, Lines
<1>2. CASE ~Empty(lines)
  <2>1. PICK first, end \in Nat : ShownFrom(lines, first, end)
    BY <1>2, ShownAt
  <2>2. /\ first \in Nat \ {0} /\ end \in Int /\ first <= end /\ lines[end] # Blank
    BY <2>1 DEF ShownFrom
  <2>3. PICK c : c = Captured(lines)
    OBVIOUS
  <2>4. /\ c \in Lines /\ Len(c) = end - first + 1 /\ c[1] \in Line
        /\ \A y \in 2 .. end - first + 1 : c[y] = lines[first + y - 1]
    <3>1. CaptureOf(c, lines, first, end)
      BY <2>1, <2>3, CapturedLines
    <3> QED BY <3>1 DEF CaptureOf
  <2>5. 1 \in 1 .. Len(c)
    BY <2>2, <2>4
  <2>6. PICK i \in 1 .. Len(c) : i = 1 /\ c[i] \in Line
    BY <2>4, <2>5
  <2>9. PICK j \in 1 .. Len(Keep(c, Line)) : Keep(c, Line)[j] = c[i]
    BY <2>4, <2>6, KeepKeeps DEF Lines
  <2>7. Keep(c, Line) # << >>
    BY <2>9, EmptySeq
  <2>8. c[Len(c)] # Blank
    <3>1. CASE first = end
      <4>1. Len(c) = 1
        BY <2>2, <2>4, <3>1
      <4> QED BY <2>4, <4>1, WatchingAssumption
    <3>2. CASE first # end
      <4>1. PICK y \in 2 .. end - first + 1 : y = Len(c) /\ first + y - 1 = end
        BY <2>2, <2>4, <3>2
      <4> QED BY <2>2, <2>4, <4>1
    <3> QED BY <3>1, <3>2
  <2> QED BY <2>3, <2>4, <2>7, <2>8 DEF Ink
<1> QED BY <1>1, <1>2

\* The first capture that shows something is activity, and none before it.
LEMMA FirstShown ==
  ASSUME NEW lines \in Lines
  PROVE  TerminalDelta(<< >>, Captured(lines)) # << >> <=> Captured(lines) # << >>
<1>1. Overlaps(<< >>, Captured(lines)) = {}
  BY EmptySeq DEF Overlaps
<1>2. TerminalDelta(<< >>, Captured(lines))
        = IF Captured(lines) = << >> \/ Ink(Captured(lines)) = << >> THEN << >> ELSE Captured(lines)
  BY <1>1 DEF TerminalDelta
<1> QED BY <1>2, CapturedHasInk

\* Until a capture showed something, the detector has no token, and its watch is
\* over when the report was due; then it has one, and reports nothing any more.
DeadKnows ==
  IF log = << >> THEN dead = FreshDead /\ last = << >>
  ELSE /\ dead.started = log[1].at
       /\ dead.seen <=> \E k \in 1 .. Len(log) : log[k].shown
       /\ ~dead.seen => /\ last = << >>
                        /\ dead.fired <=> log[Len(log)].at - log[1].at >= FirstTokenSecs

Due(i) ==
  /\ \A k \in 1 .. i : ~log[k].shown
  /\ log[i].at - log[1].at >= FirstTokenSecs
  /\ \A k \in 1 .. i - 1 : log[k].at - log[1].at < FirstTokenSecs

DeadInv ==
  /\ IdleInv /\ screen \in Lines /\ DeadKnows
  /\ \A i \in DOMAIN log : log[i].dead <=> Due(i)

LEMMA DeadInit == Init => DeadInv
<1> SUFFICES ASSUME Init PROVE DeadInv
  OBVIOUS
<1>1. log = << >> /\ dead = FreshDead /\ last = << >> /\ screen = << >>
  BY DEF Init
<1>2. screen \in Lines /\ DOMAIN log = {}
  BY <1>1, EmptySeq DEF Lines
<1> QED BY <1>1, <1>2, IdleInit DEF DeadInv, DeadKnows

\* The terminal's lines, whatever it prints or is redrawn to.
LEMMA ScreenLines ==
  ASSUME screen \in Lines, [Next]_vars
  PROVE  screen' \in Lines
<1>1. ASSUME NEW line \in Line \cup {Blank}, PrintLine(line) PROVE screen' \in Lines
  <2>1. CASE Len(screen) < Height
    BY <1>1, <2>1, AppendProperties DEF PrintLine, Lines
  <2>2. CASE ~(Len(screen) < Height)
    <3>1. screen # << >>
      BY <2>2, EmptySeq, WatchingAssumption
    <3>2. Tail(screen) \in Lines
      BY <3>1, HeadTailProperties DEF Lines
    <3> QED BY <1>1, <2>2, <3>2, AppendProperties DEF PrintLine, Lines
  <2> QED BY <2>1, <2>2
<1>2. ASSUME NEW frame \in Frames, Redraw(frame) PROVE screen' \in Lines
  <2>1. PICK n \in 0 .. Height : frame \in [1 .. n -> Line \cup {Blank}]
    BY <1>2, WatchingAssumption
  <2>2. n \in Nat
    BY WatchingAssumption
  <2> QED BY <1>2, <2>1, <2>2 DEF Redraw, Lines
<1>3. CASE Tick \/ Poll \/ CaptureFails \/ Rewatch \/ UNCHANGED vars
  <2>1. screen' = screen
    BY <1>3 DEF Tick, Poll, CaptureFails, Rewatch, worldVars, vars
  <2> QED BY <2>1
<1> QED BY <1>1, <1>2, <1>3 DEF Next

LEMMA DeadStill ==
  ASSUME DeadInv, IdleInv', screen' \in Lines, UNCHANGED <<log, dead, last>>
  PROVE  DeadInv'
BY DEF DeadInv, DeadKnows, Due

LEMMA DeadPoll ==
  ASSUME DeadInv, IdleInv', Poll
  PROVE  DeadInv'
<1>0. PICK n \in Nat : n = Len(log)
  BY LenProperties DEF DeadInv, IdleInv, LogType
<1> DEFINE active == emitted' # << >>
           shown == last' # << >>
           observed == DeadObserve(dead, now, active)
<1>1. PICK e \in Entries : /\ log' = Append(log, e) /\ e.at = now /\ e.shown = shown
                           /\ e.dead = observed.fires /\ dead' = observed.next
  <2> DEFINE i == IdleObserve(idle, now, active)
             e == [at |-> now, active |-> active, shown |-> shown,
                   idle |-> i.fires, dead |-> observed.fires]
  <2>1. log' = Append(log, e) /\ dead' = observed.next
    BY DEF Poll
  <2>2. i.fires \in BOOLEAN
    BY DEF IdleObserve
  <2>3. observed.fires \in BOOLEAN
    BY DEF DeadObserve
  <2>4. now \in Nat
    BY DEF DeadInv, IdleInv, LogType
  <2> HIDE DEF i, observed
  <2>5. e \in Entries
    BY <2>2, <2>3, <2>4 DEF Entries
  <2>6. e.at = now /\ e.shown = shown /\ e.dead = observed.fires
    OBVIOUS
  <2> QED BY <2>1, <2>5, <2>6
<1>2. /\ n \in Nat /\ DOMAIN log = 1 .. n /\ now' = now /\ now \in Nat /\ screen' = screen
      /\ log' \in Seq(Entries) /\ Len(log') = n + 1 /\ DOMAIN log' = 1 .. n + 1
      /\ \A i \in 1 .. n : log'[i] = log[i]
      /\ log'[n + 1] = e /\ log' # << >>
      /\ FirstTokenSecs \in Nat \ {0}
  BY <1>0, <1>1, AppendProperties, LenProperties, WatchingAssumption DEF DeadInv, IdleInv, LogType, Poll
<1>3. \A i \in 1 .. n : log[i].at \in Nat /\ log[i].at <= now
  BY <1>2, LoggedTimes DEF DeadInv, IdleInv, LogType
<1>4. n = 0 <=> log = << >>
  BY <1>0, EmptySeq DEF DeadInv, IdleInv, LogType
\* Before anything was shown, to be active is to show something.
<1>5. last = << >> => (active <=> shown)
  <2>1. screen \in Lines /\ last' = Captured(screen) /\ emitted' = TerminalDelta(last, last')
    BY DEF DeadInv, Poll
  <2> QED BY <2>1, FirstShown
<1>6. ASSUME NEW i \in 1 .. n PROVE log'[i].dead <=> Due(i)'
  <2>1. \A k \in 1 .. i : log'[k] = log[k]
    BY <1>2
  <2>2. i \in 1 .. i /\ 1 \in 1 .. i /\ \A k \in 1 .. i - 1 : k \in 1 .. i
    BY <1>2
  <2>3. Due(i)' <=> Due(i)
    BY <2>1, <2>2 DEF Due
  <2> QED BY <1>2, <2>3 DEF DeadInv
<1>7. CASE log = << >>
  <2>1. n = 0 /\ dead.started = Never /\ dead.seen = FALSE /\ dead.fired = FALSE /\ last = << >>
    BY <1>4, <1>7 DEF DeadInv, DeadKnows, FreshDead
  <2>2. ~observed.fires /\ dead' = [started |-> now, seen |-> active, fired |-> FALSE]
    <3>1. ~(now - now >= FirstTokenSecs)
      BY <1>2
    <3> QED BY <1>1, <2>1, <3>1 DEF DeadObserve
  <2>3. log'[1] = e /\ 1 .. n + 1 = {1} /\ n + 1 = 1
    BY <1>2, <2>1
  <2>4. ~(log'[1].at - log'[1].at >= FirstTokenSecs)
    BY <1>1, <1>2, <2>3
  <2>5. DeadKnows'
    <3>1. dead'.started = log'[1].at /\ dead'.fired = FALSE
      BY <1>1, <2>2, <2>3
    <3>2. dead'.seen <=> log'[1].shown
      BY <1>1, <1>5, <2>1, <2>2, <2>3
    <3>3. ~dead'.seen => last' = << >>
      BY <1>5, <2>1, <2>2
    <3> QED BY <1>2, <2>3, <2>4, <3>1, <3>2, <3>3 DEF DeadKnows
  <2>6. ~log'[1].dead /\ ~Due(1)'
    BY <1>1, <2>2, <2>3, <2>4 DEF Due
  <2>7. \A i \in DOMAIN log' : log'[i].dead <=> Due(i)'
    BY <1>2, <2>3, <2>6
  <2> QED BY <1>2, <2>5, <2>7 DEF DeadInv
<1>8. CASE log # << >>
  <2>1. n \in 1 .. n /\ 1 \in 1 .. n /\ log'[1] = log[1] /\ log'[n] = log[n]
    BY <1>2, <1>4, <1>8
  <2> DEFINE before == \E k \in 1 .. n : log[k].shown
             was  == log[n].at - log[1].at >= FirstTokenSecs
             long == now - log[1].at >= FirstTokenSecs
  <2>2. /\ dead.started = log[1].at /\ (dead.seen <=> before)
        /\ ~dead.seen => last = << >> /\ (dead.fired <=> was)
    BY <1>0, <1>8 DEF DeadInv, DeadKnows
  <2>3. log[1].at \in Nat /\ log[1].at # Never /\ log[n].at \in Nat /\ log[n].at <= now
    BY <1>3, <2>1 DEF Never
  <2>4. was => long
    BY <1>2, <2>3
  <2>5. /\ dead'.started = log[1].at
        /\ dead'.seen <=> dead.seen \/ active
        /\ observed.fires <=> ~dead.seen /\ ~active /\ ~dead.fired /\ long
        /\ dead'.fired <=> dead.fired \/ observed.fires
    BY <1>1, <2>2, <2>3 DEF DeadObserve
  <2> HIDE DEF observed
  <2>6. dead'.seen <=> before \/ shown
    BY <1>5, <2>2, <2>5
  <2>7. (\E k \in 1 .. n + 1 : log'[k].shown) <=> before \/ shown
    <3>1. 1 .. n + 1 = (1 .. n) \cup {n + 1}
      BY <1>2
    <3> QED BY <1>1, <1>2, <3>1
  <2>8. ~dead'.seen => last' = << >> /\ (dead'.fired <=> long)
    BY <1>5, <2>2, <2>4, <2>5
  <2>9. log'[n + 1].at = now
    BY <1>1, <1>2
  <2>10. DeadKnows'
    BY <1>2, <2>1, <2>5, <2>6, <2>7, <2>8, <2>9 DEF DeadKnows
  <2>11. Due(n + 1)' <=> ~before /\ ~shown /\ ~was /\ long
    <3>1. (\A k \in 1 .. n : log[k].at - log[1].at < FirstTokenSecs) <=> ~was
      <4>1. ASSUME NEW k \in 1 .. n PROVE log[k].at \in Nat /\ log[k].at <= log[n].at
        BY <1>2, <1>3, <2>1 DEF DeadInv, IdleInv, LogType
      <4>2. ASSUME ~was, NEW k \in 1 .. n PROVE log[k].at - log[1].at < FirstTokenSecs
        BY <1>2, <2>3, <4>1, <4>2
      <4>3. ASSUME was PROVE ~(log[n].at - log[1].at < FirstTokenSecs)
        BY <1>2, <2>3, <4>3
      <4> QED BY <2>1, <4>2, <4>3
    <3>2. (\A k \in 1 .. n + 1 : ~log'[k].shown) <=> ~before /\ ~shown
      BY <2>7
    <3>3. n + 1 - 1 = n
      BY <1>2
    <3>4. Due(n + 1)' <=> /\ \A k \in 1 .. n + 1 : ~log'[k].shown
                         /\ now - log[1].at >= FirstTokenSecs
                         /\ \A k \in 1 .. n : log[k].at - log[1].at < FirstTokenSecs
      BY <1>2, <2>1, <2>9, <3>3 DEF Due
    <3> QED BY <3>1, <3>2, <3>4
  <2>12. log'[n + 1].dead <=> Due(n + 1)'
    BY <1>1, <1>2, <1>5, <2>2, <2>5, <2>11
  <2>13. \A i \in DOMAIN log' : log'[i].dead <=> Due(i)'
    <3> SUFFICES ASSUME NEW i \in 1 .. n + 1 PROVE log'[i].dead <=> Due(i)'
      BY <1>2
    <3>1. i \in 1 .. n \/ i = n + 1
      BY <1>2
    <3> QED BY <1>6, <2>12, <3>1
  <2> QED BY <1>2, <2>10, <2>13 DEF DeadInv
<1> QED BY <1>7, <1>8

\* A dead stream is reported only of a terminal that has shown nothing since the
\* watcher began, and then once, at the first poll after the threshold
\* (FirstTokenDeadStream.observe, fed by terminal_delta's activity).
THEOREM DeadStreamReported == Spec => []DeadMeansNothingShown
<1>1. DeadInv => DeadMeansNothingShown
  BY DEF DeadInv, Due, DeadMeansNothingShown
<1>2. DeadInv /\ [Next]_vars => DeadInv'
  <2> SUFFICES ASSUME DeadInv, [Next]_vars PROVE DeadInv'
    OBVIOUS
  <2>1. IdleInv' /\ screen' \in Lines
    BY IdleNext, ScreenLines DEF DeadInv
  <2>2. CASE Poll
    BY <2>1, <2>2, DeadPoll
  <2>3. CASE Rewatch
    <3>1. log' = << >> /\ dead' = FreshDead /\ last' = << >>
      BY <2>3 DEF Rewatch
    <3>2. DOMAIN log' = {} /\ FreshDead' = FreshDead
      BY <3>1, EmptySeq DEF FreshDead
    <3> QED BY <2>1, <3>1, <3>2 DEF DeadInv, DeadKnows
  <2>4. CASE \/ Tick \/ CaptureFails \/ UNCHANGED vars
             \/ \E line \in Line \cup {Blank} : PrintLine(line)
             \/ \E frame \in Frames : Redraw(frame)
    <3>1. UNCHANGED <<log, dead, last>>
      BY <2>4 DEF Tick, CaptureFails, PrintLine, Redraw, vars, pollVars
    <3> QED BY <2>1, <3>1, DeadStill
  <2> QED BY <2>2, <2>3, <2>4 DEF Next
<1> QED BY <1>1, <1>2, DeadInit, PTL DEF Spec

(***************************************************************************)
(* What a poll emits.                                                      *)
(***************************************************************************)
\* The delta: what follows the longest overlap, and there is no longer one.
Overlapped(previous, current, k) ==
  /\ k \in 0 .. Len(current) /\ \A l \in Overlaps(previous, current) : l <= k
  /\ k = 0 \/ k \in Overlaps(previous, current)
  /\ TerminalDelta(previous, current) = IF Ink(After(current, k)) = << >> THEN << >> ELSE After(current, k)

\* There is such an overlap, or none.
LEMMA DeltaFollows ==
  ASSUME NEW previous \in Lines, NEW current \in Lines, current # previous
  PROVE  \E k \in Nat : Overlapped(previous, current, k)
<1> DEFINE overlaps == Overlaps(previous, current)
<1>1. Len(previous) \in Nat /\ Len(current) \in Nat
  BY LineFacts
<1>2. overlaps \in SUBSET (0 .. Len(current))
  BY <1>1 DEF Overlaps
<1>3. CASE overlaps = {}
  <2>1. After(current, 0) = current
    BY SubSeqFull DEF After, Lines
  <2>2. Overlapped(previous, current, 0)
    BY <1>1, <1>3, <2>1 DEF Overlapped, TerminalDelta
  <2> QED BY <2>2
<1>4. CASE overlaps # {}
  <2> DEFINE longest == CHOOSE k \in overlaps : \A l \in overlaps : l <= k
  <2>1. \E k \in overlaps : \A l \in overlaps : l <= k
    <3> HIDE DEF overlaps
    <3> QED BY <1>1, <1>2, <1>4, GreatestNumber
  <2>2. longest \in overlaps /\ \A l \in overlaps : l <= longest
    BY <2>1
  <2>3. TerminalDelta(previous, current)
          = IF Ink(After(current, longest)) = << >> THEN << >> ELSE After(current, longest)
    BY <1>4 DEF TerminalDelta
  <2> HIDE DEF longest
  <2>4. longest \in 0 .. Len(current)
    <3> HIDE DEF overlaps
    <3> QED BY <1>2, <2>2
  <2>5. Overlapped(previous, current, longest)
    BY <2>2, <2>3, <2>4 DEF Overlapped
  <2> QED BY <1>1, <2>4, <2>5
<1> QED BY <1>3, <1>4

\* The end of some lines, cut in two.
LEMMA EndInTwo ==
  ASSUME NEW w \in Lines, NEW i \in 1 .. Len(w) + 1, NEW j \in i - 1 .. Len(w)
  PROVE  /\ SubSeq(w, i, j) \in Lines /\ SubSeq(w, j + 1, Len(w)) \in Lines
         /\ SubSeq(w, i, Len(w)) = SubSeq(w, i, j) \o SubSeq(w, j + 1, Len(w))
<1>1. PICK n \in Nat : n = Len(w)
  BY LineFacts
<1>2. i \in Nat \ {0} /\ j \in Int /\ j <= n /\ j + 1 \in Nat \ {0} /\ n \in j .. n /\ n <= n
  BY <1>1
<1>3. SubSeq(w, i, j) \in Lines
  BY <1>1, <1>2, Slice
<1>4. SubSeq(w, j + 1, n) \in Lines
  BY <1>1, <1>2, Slice
<1>5. SubSeq(w, i, j) \o SubSeq(w, j + 1, n) = SubSeq(w, i, n)
  BY <1>1, <1>2, ConcatAdjacentSubSeq DEF Lines
<1> QED BY <1>1, <1>3, <1>4, <1>5

\* Whatever the terminal does, what is emitted completes an end of the previous
\* capture to the new one.
LEMMA RestIsEmitted ==
  ASSUME NEW previous \in Lines, NEW lines \in Lines
  PROVE  \E k \in 0 .. Len(previous) :
           Captured(lines) = After(previous, k) \o TerminalDelta(previous, Captured(lines))
<1>1. PICK current \in Lines : current = Captured(lines)
  BY CapturedHasInk
<1>2. Len(current) \in Nat /\ Len(previous) \in Nat
  BY LineFacts
<1>3. PICK delta : delta = TerminalDelta(previous, current)
  OBVIOUS
<1>4. PICK none \in Lines : none = << >>
  BY EmptySeq DEF Lines
<1>5. CASE current = previous
  <2>1. delta = none
    BY <1>3, <1>4, <1>5 DEF TerminalDelta
  <2>2. 0 \in 0 .. Len(previous) /\ After(previous, 0) = previous
    BY <1>2, SubSeqFull DEF After, Lines
  <2>3. current = After(previous, 0) \o delta
    BY <1>4, <1>5, <2>1, <2>2, ConcatEmptySeq DEF Lines
  <2> QED BY <1>1, <1>3, <2>2, <2>3
<1>6. CASE current # previous
  <2>1. PICK l \in Nat : Overlapped(previous, current, l)
    BY <1>6, DeltaFollows
  <2>2. /\ l \in 0 .. Len(current) /\ (l = 0 \/ l \in Overlaps(previous, current))
        /\ delta = IF Ink(After(current, l)) = << >> THEN << >> ELSE After(current, l)
    BY <1>3, <2>1 DEF Overlapped
  <2>10. PICK n \in Nat : n = Len(current) /\ l \in 0 .. n
    <3>1. l \in 0 .. Len(current)
      BY <2>1 DEF Overlapped
    <3> QED BY <1>2, <3>1
  <2>11. /\ After(current, l) \in Lines /\ Len(After(current, l)) = n - l
         /\ \A j \in 1 .. n - l : After(current, l)[j] = current[l + j]
    BY <2>10, AfterLines
  <2>3. PICK new \in Lines : /\ new = After(current, l) /\ Len(new) = Len(current) - l
                             /\ \A j \in 1 .. Len(current) - l : new[j] = current[l + j]
    BY <2>10, <2>11
  <2>4. delta = new
    <3>1. CASE l = Len(current)
      <4>1. new = << >>
        BY <1>2, <2>3, <3>1, EmptySeq DEF Lines
      <4> QED BY <2>2, <2>3, <4>1
    <3>2. CASE l # Len(current)
      <4>1. l < Len(current) /\ Len(current) - l \in 1 .. Len(new)
        <5>1. n - l \in 1 .. n - l /\ l < n
          BY <2>10, <3>2
        <5> QED BY <2>3, <2>10, <5>1
      <4>2. new[Len(current) - l] = current[Len(current)]
        <5>1. Len(current) - l \in 1 .. Len(current) - l /\ l + (Len(current) - l) = Len(current)
          BY <1>2, <2>2, <4>1
        <5> QED BY <2>3, <5>1
      <4>3. current # << >>
        BY <1>2, <2>2, <4>1, EmptySeq
      <4>4. new[Len(current) - l] \in Line
        BY <1>1, <4>1, <4>2, <4>3, CapturedHasInk, LineFacts
      <4>5. PICK j \in 1 .. Len(Keep(new, Line)) : Keep(new, Line)[j] = new[Len(current) - l]
        BY <4>1, <4>4, KeepKeeps DEF Lines
      <4>6. Ink(new) # << >>
        BY <4>5, EmptySeq DEF Ink
      <4> QED BY <2>2, <2>3, <4>6
    <3> QED BY <3>1, <3>2
  <2>5. PICK i \in 1 .. Len(current) + 1 : i = 1
    BY <1>2
  <2>6. l \in i - 1 .. Len(current)
    BY <2>5, <2>10
  <2>7. current = SubSeq(current, 1, l) \o new
    <3>1. SubSeq(current, i, Len(current)) = SubSeq(current, i, l) \o SubSeq(current, l + 1, Len(current))
      BY <2>6, EndInTwo
    <3>2. SubSeq(current, 1, Len(current)) = current
      BY SubSeqFull DEF Lines
    <3> QED BY <2>3, <2>5, <3>1, <3>2 DEF After
  <2>8. PICK k \in 0 .. Len(previous) : k = (IF l = 0 THEN Len(previous) ELSE Len(previous) - l)
    <3>1. l = 0 \/ l \in 1 .. Len(previous)
      BY <2>2 DEF Overlaps
    <3>2. (IF l = 0 THEN Len(previous) ELSE Len(previous) - l) \in 0 .. Len(previous)
      BY <1>2, <3>1
    <3> QED BY <3>2
  <2>9. After(previous, k) = SubSeq(current, 1, l)
    <3>1. CASE l = 0
      <4>1. After(previous, k) = << >>
        <5>1. k = Len(previous)
          BY <2>8, <3>1
        <5>2. After(previous, k) \in Lines /\ Len(After(previous, k)) = Len(previous) - k
          BY AfterLines
        <5> QED BY <1>2, <5>1, <5>2, EmptySeq DEF Lines
      <4>2. SubSeq(current, 1, l) = << >>
        BY <1>2, <2>2, <3>1, SubSeqEmpty DEF Lines
      <4> QED BY <4>1, <4>2
    <3>2. CASE l # 0
      BY <1>2, <2>2, <2>8, <3>2 DEF Overlaps, After
    <3> QED BY <3>1, <3>2
  <2> QED BY <1>1, <1>3, <2>4, <2>7, <2>9
<1> QED BY <1>5, <1>6

-----------------------------------------------------------------------------
\* What is joined to a sequence is its suffix.
LEMMA SuffixOfJoin ==
  ASSUME NEW S, NEW d \in Seq(S), NEW t \in Seq(S)
  PROVE  IsSuffix(t, d \o t)
<1>1. PICK u : u = d \o t
  OBVIOUS
<1>2. /\ u \in Seq(S) /\ Len(u) = Len(d) + Len(t)
      /\ \A i \in 1 .. Len(d) + Len(t) : u[i] = IF i <= Len(d) THEN d[i] ELSE t[i - Len(d)]
  BY <1>1, ConcatProperties
<1>3. Len(d) \in Nat /\ Len(t) \in Nat
  BY LenProperties
<1> DEFINE rt == Reverse(t)
           ru == Reverse(u)
<1>4. /\ rt \in Seq(S) /\ Len(rt) = Len(t) /\ \A i \in 1 .. Len(t) : rt[i] = t[Len(t) - i + 1]
  <2>1. \A i \in 1 .. Len(t) : t[Len(t) - i + 1] \in S
    BY <1>3, ElementOfSeq
  <2> QED BY <1>3, <2>1 DEF Reverse
<1>5. /\ ru \in Seq(S) /\ Len(ru) = Len(u) /\ \A i \in 1 .. Len(u) : ru[i] = u[Len(u) - i + 1]
  <2>1. \A i \in 1 .. Len(u) : u[Len(u) - i + 1] \in S
    BY <1>2, <1>3, ElementOfSeq
  <2> QED BY <1>2, <1>3, <2>1 DEF Reverse
<1> HIDE DEF rt, ru
<1>6. ASSUME NEW i \in 1 .. Len(t) PROVE rt[i] = ru[i]
  <2>1. PICK x \in 1 .. Len(d) + Len(t) : /\ x = Len(u) - i + 1 /\ ~(x <= Len(d))
                                          /\ x - Len(d) = Len(t) - i + 1
    <3>1. PICK nd \in Nat, nt \in Nat : nd = Len(d) /\ nt = Len(t)
      BY <1>3
    <3>2. PICK x \in 1 .. nd + nt : x = nd + nt - i + 1 /\ ~(x <= nd) /\ x - nd = nt - i + 1
      <4>1. i \in 1 .. nt
        BY <3>1
      <4>2. /\ nd + nt - i + 1 \in 1 .. nd + nt /\ ~(nd + nt - i + 1 <= nd)
            /\ (nd + nt - i + 1) - nd = nt - i + 1
        BY <4>1
      <4> QED BY <4>2
    <3>3. Len(u) = nd + nt
      BY <1>2, <3>1
    <3>4. x \in 1 .. Len(d) + Len(t)
      BY <3>1
    <3>5. x = Len(u) - i + 1
      BY <3>2, <3>3
    <3>6. ~(x <= Len(d)) /\ x - Len(d) = Len(t) - i + 1
      BY <3>1, <3>2
    <3> QED BY <3>4, <3>5, <3>6, Zenon
  <2>2. i \in 1 .. Len(u)
    BY <1>2, <1>3
  <2>3. u[x] = t[x - Len(d)]
    BY <1>2, <2>1
  <2>4. rt[i] = t[x - Len(d)]
    BY <1>4, <2>1
  <2>5. ru[i] = u[x]
    BY <1>5, <2>1, <2>2
  <2> QED BY <2>3, <2>4, <2>5
<1>7. /\ SubSeq(rt, 1, Len(t)) \in Seq(S)
      /\ Len(SubSeq(rt, 1, Len(t))) = IF 1 <= Len(t) THEN Len(t) - 1 + 1 ELSE 0
      /\ \A i \in 1 .. Len(t) - 1 + 1 : SubSeq(rt, 1, Len(t))[i] = rt[1 + i - 1]
  <2>1. \A i \in 1 .. Len(t) : rt[i] \in S
    BY <1>4, ElementOfSeq
  <2> QED BY <1>3, <2>1, SubSeqProperties
<1>8. /\ SubSeq(ru, 1, Len(t)) \in Seq(S)
      /\ Len(SubSeq(ru, 1, Len(t))) = IF 1 <= Len(t) THEN Len(t) - 1 + 1 ELSE 0
      /\ \A i \in 1 .. Len(t) - 1 + 1 : SubSeq(ru, 1, Len(t))[i] = ru[1 + i - 1]
  <2>1. \A i \in 1 .. Len(t) : ru[i] \in S
    BY <1>4, <1>6, ElementOfSeq
  <2> QED BY <1>3, <2>1, SubSeqProperties
<1>9. SubSeq(rt, 1, Len(t)) = SubSeq(ru, 1, Len(t))
  <2>1. PICK p \in Seq(S), q \in Seq(S) : p = SubSeq(rt, 1, Len(t)) /\ q = SubSeq(ru, 1, Len(t))
    BY <1>7, <1>8
  <2>2. Len(p) = Len(t) /\ Len(q) = Len(t)
    BY <1>3, <1>7, <1>8, <2>1
  <2>3. ASSUME NEW i \in 1 .. Len(p) PROVE p[i] = q[i]
    <3>1. i \in 1 .. Len(t) /\ i \in 1 .. Len(t) - 1 + 1 /\ 1 + i - 1 = i
      BY <1>3, <2>2
    <3> QED BY <1>6, <1>7, <1>8, <2>1, <3>1
  <2>4. p = q
    BY <2>2, <2>3, SeqEqual
  <2> QED BY <2>1, <2>4
<1>10. Len(rt) <= Len(ru)
  BY <1>2, <1>3, <1>4, <1>5
<1>11. IsPrefix(rt, ru)
  BY <1>4, <1>9, <1>10 DEF IsPrefix
<1> QED BY <1>1, <1>11 DEF IsSuffix, rt, ru

\* Ink is lines with something on them.
LEMMA InkType == ASSUME NEW s \in Lines PROVE Ink(s) \in Seq(Line)
<1>1. Ink(s) \in Seq((Line \cup {Blank}) \cap Line)
  BY KeepType DEF Lines, Ink
<1>2. (Line \cup {Blank}) \cap Line = Line
  OBVIOUS
<1> QED BY <1>1, <1>2

\* The ink of lines joined.
LEMMA InkOfJoin ==
  ASSUME NEW s \in Lines, NEW t \in Lines
  PROVE  Ink(s \o t) = Ink(s) \o Ink(t)
BY KeepConcat DEF Lines, Ink

\* Blank lines have none.
LEMMA InkOfBlank ==
  ASSUME NEW s \in Lines, \A i \in 1 .. Len(s) : s[i] = Blank
  PROVE  Ink(s) = << >>
<1>1. s \in Seq({Blank})
  BY LineFacts DEF Lines
<1>2. {Blank} \cap Line = {}
  BY WatchingAssumption
<1> QED BY <1>1, <1>2, KeepNone DEF Ink

\* Nothing is a suffix of everything, and everything one of itself.
LEMMA SuffixTrivia ==
  ASSUME NEW s \in Lines
  PROVE  IsSuffix(<< >>, Ink(s)) /\ IsSuffix(Ink(s), Ink(s))
<1>1. PICK t \in Seq(Line) : t = Ink(s)
  BY InkType
<1>2. PICK none \in Seq(Line) : none = << >>
  BY EmptySeq
<1>3. t \o none = t /\ none \o t = t
  BY <1>2, ConcatEmptySeq
<1>4. IsSuffix(none, t \o none) /\ IsSuffix(t, none \o t)
  BY SuffixOfJoin
<1> QED BY <1>1, <1>2, <1>3, <1>4

\* Blank lines below do not matter.
LEMMA InkTrim ==
  ASSUME NEW w \in Lines, NEW i \in 1 .. Len(w) + 1, NEW j \in i - 1 .. Len(w),
         \A x \in j + 1 .. Len(w) : w[x] = Blank
  PROVE  Ink(SubSeq(w, i, j)) = Ink(SubSeq(w, i, Len(w)))
<1>1. PICK n \in Nat : n = Len(w)
  BY LineFacts
<1>2. PICK a \in Lines, z \in Lines : a = SubSeq(w, i, j) /\ z = SubSeq(w, j + 1, n) /\ SubSeq(w, i, n) = a \o z
  BY <1>1, EndInTwo
<1>3. ASSUME NEW y \in 1 .. Len(z) PROVE z[y] = Blank
  <2>1. j + 1 \in Nat \ {0} /\ n \in Int /\ n <= Len(w)
    BY <1>1
  <2>2. Len(z) = IF j + 1 <= n THEN n - (j + 1) + 1 ELSE 0
    BY <1>2, <2>1, Slice
  <2>3. \A k \in 1 .. n - (j + 1) + 1 : z[k] = w[j + 1 + k - 1]
    BY <1>2, <2>1, Slice
  <2>4. y \in 1 .. n - (j + 1) + 1 /\ j + 1 + y - 1 \in j + 1 .. n
    BY <2>1, <2>2
  <2> QED BY <1>1, <2>3, <2>4
<1>4. Ink(z) = << >> /\ Ink(a) \in Seq(Line)
  BY <1>3, InkOfBlank, InkType
<1>5. Ink(a \o z) = Ink(a) \o Ink(z)
  BY InkOfJoin
<1>6. Ink(a) \o << >> = Ink(a)
  BY <1>4, ConcatEmptySeq
<1> QED BY <1>1, <1>2, <1>4, <1>5, <1>6

\* From a place after which only what was printed has ink.
LEMMA InkLate ==
  ASSUME NEW before \in Lines, NEW printed \in Lines, NEW w, w = before \o printed,
         NEW i \in 1 .. Len(w) + 1, \A x \in i .. Len(before) : w[x] = Blank
  PROVE  IsSuffix(Ink(SubSeq(w, i, Len(w))), Ink(printed))
<1>1. PICK m \in Nat, p \in Nat : m = Len(before) /\ p = Len(printed)
  BY LineFacts
<1>2. /\ w \in Lines /\ Len(w) = m + p
      /\ \A x \in 1 .. m + p : w[x] = IF x <= m THEN before[x] ELSE printed[x - m]
  BY <1>1, ConcatProperties DEF Lines
<1>3. SubSeq(w, m + 1, Len(w)) = printed
  <2>1. m \in 0 .. Len(w)
    BY <1>1, <1>2
  <2>2. PICK u \in Lines : u = After(w, m) /\ Len(u) = Len(w) - m /\ \A y \in 1 .. Len(w) - m : u[y] = w[m + y]
    BY <1>2, <2>1, AfterLines
  <2>3. Len(u) = Len(printed)
    BY <1>1, <1>2, <2>2
  <2>4. ASSUME NEW y \in 1 .. Len(u) PROVE u[y] = printed[y]
    <3>1. y \in 1 .. Len(w) - m
      BY <1>1, <1>2, <2>3
    <3>2. PICK x \in 1 .. m + p : x = m + y /\ ~(x <= m) /\ x - m = y
      BY <1>1, <1>2, <2>3
    <3>3. w[x] = printed[x - m]
      BY <1>2, <3>2
    <3> QED BY <2>2, <3>1, <3>2, <3>3
  <2>5. u = printed
    BY <2>3, <2>4, SeqEqual DEF Lines
  <2> QED BY <2>2, <2>5 DEF After
<1>4. CASE i > m
  <2>6. PICK f \in 1 .. Len(w) + 1 : f = m + 1
    BY <1>2
  <2>1. PICK j \in f - 1 .. Len(w) : j + 1 = i
    <3>1. i - 1 \in f - 1 .. Len(w) /\ (i - 1) + 1 = i
      BY <1>2, <1>4, <2>6
    <3> QED BY <3>1
  <2>5. /\ SubSeq(w, f, j) \in Lines /\ SubSeq(w, j + 1, Len(w)) \in Lines
        /\ SubSeq(w, f, Len(w)) = SubSeq(w, f, j) \o SubSeq(w, j + 1, Len(w))
    BY <1>2, EndInTwo
  <2>2. PICK a \in Lines, z \in Lines : z = SubSeq(w, i, Len(w)) /\ printed = a \o z
    BY <1>3, <2>1, <2>5, <2>6
  <2>3. Ink(printed) = Ink(a) \o Ink(z) /\ Ink(a) \in Seq(Line) /\ Ink(z) \in Seq(Line)
    <3>1. Ink(a) \in Seq(Line) /\ Ink(z) \in Seq(Line)
      BY InkType
    <3>2. Ink(a \o z) = Ink(a) \o Ink(z)
      BY InkOfJoin
    <3> QED BY <2>2, <3>1, <3>2, Zenon
  <2>4. IsSuffix(Ink(z), Ink(a) \o Ink(z))
    BY <2>3, SuffixOfJoin
  <2> QED BY <2>2, <2>3, <2>4
<1>5. CASE ~(i > m)
  <2>1. m \in i - 1 .. Len(w)
    BY <1>2, <1>5
  <2>7. /\ SubSeq(w, i, m) \in Lines
        /\ SubSeq(w, i, Len(w)) = SubSeq(w, i, m) \o SubSeq(w, m + 1, Len(w))
    BY <1>2, <2>1, EndInTwo
  <2>2. PICK a \in Lines : a = SubSeq(w, i, m) /\ SubSeq(w, i, Len(w)) = a \o printed
    BY <1>3, <2>7
  <2>3. ASSUME NEW y \in 1 .. Len(a) PROVE a[y] = Blank
    <3>1. i \in Nat \ {0} /\ m \in Int /\ m <= Len(w)
      BY <1>2
    <3>2. Len(a) = IF i <= m THEN m - i + 1 ELSE 0
      BY <1>2, <2>2, <3>1, Slice
    <3>3. \A k \in 1 .. m - i + 1 : a[k] = w[i + k - 1]
      BY <1>2, <2>2, <3>1, Slice
    <3>4. y \in 1 .. m - i + 1 /\ i + y - 1 \in i .. m
      BY <3>1, <3>2
    <3> QED BY <1>1, <3>3, <3>4
  <2>4. Ink(a) = << >> /\ Ink(printed) \in Seq(Line)
    BY <2>3, InkOfBlank, InkType
  <2>5. Ink(a \o printed) = Ink(a) \o Ink(printed)
    BY InkOfJoin
  <2>6. << >> \o Ink(printed) = Ink(printed)
    BY <2>4, ConcatEmptySeq
  <2> QED BY <2>2, <2>4, <2>5, <2>6, SuffixTrivia
<1> QED BY <1>1, <1>4, <1>5

\* u is the stretch of w from i to j.
Stretch(u, w, i, j) ==
  /\ u \in Lines /\ w \in Lines /\ i \in 1 .. Len(w) + 1 /\ j \in i - 1 .. Len(w)
  /\ Len(u) = j - i + 1 /\ \A y \in 1 .. j - i + 1 : u[y] = w[i + y - 1]

\* A stretch is a subsequence.
LEMMA StretchIs ==
  ASSUME NEW u, NEW w, NEW i, NEW j, Stretch(u, w, i, j)
  PROVE  u = SubSeq(w, i, j)
<1>1. PICK n \in Nat : n = Len(w)
  BY LineFacts DEF Stretch
<1>2. i \in 1 .. n + 1 /\ j \in i - 1 .. n
  BY <1>1 DEF Stretch
<1>3. i \in Nat \ {0} /\ j \in Int /\ j <= n
  BY <1>2
<1>4. PICK v \in Lines : v = SubSeq(w, i, j) /\ Len(v) = (IF i <= j THEN j - i + 1 ELSE 0)
                         /\ \A y \in 1 .. j - i + 1 : v[y] = w[i + y - 1]
  BY <1>1, <1>3, Slice DEF Stretch
<1>5. Len(v) = j - i + 1
  BY <1>2, <1>4
<1>6. Len(u) = j - i + 1 /\ \A y \in 1 .. j - i + 1 : u[y] = w[i + y - 1]
  BY DEF Stretch
<1>7. \A y \in 1 .. Len(u) : u[y] = v[y]
  BY <1>4, <1>6
<1>8. u = v
  BY <1>5, <1>6, <1>7, SeqEqual DEF Stretch, Lines
<1> QED BY <1>4, <1>8

\* What the terminal shows is the end of what it showed and of what was printed.
Scrolled(before, printed, dropped, now_) ==
  /\ before \in Lines /\ printed \in Lines /\ dropped \in Lines /\ now_ \in Lines
  /\ dropped \o now_ = before \o printed

\* The places of a capture of such a terminal, among all these lines: it runs from
\* f to l, and beyond what was dropped there is no other ink.
Placed(before, printed, dropped, current, f, l) ==
  /\ Stretch(current, before \o printed, f, l) /\ f > Len(dropped) /\ f <= l
  /\ (before \o printed)[f] # Blank
  /\ \A x \in Len(dropped) + 1 .. Len(before \o printed) :
       (before \o printed)[x] # Blank => f <= x /\ x <= l

\* A capture that shows something has its place.
LEMMA CaptureIsPlaced ==
  ASSUME NEW before, NEW printed, NEW dropped, NEW lines, Scrolled(before, printed, dropped, lines),
         Shown(lines) # << >>
  PROVE  \E f, l \in Nat : Placed(before, printed, dropped, Shown(lines), f, l)
<1>1. PICK w \in Lines : w = before \o printed /\ w = dropped \o lines
  BY ConcatProperties DEF Scrolled, Lines
<1>2. PICK d \in Nat, n \in Nat : d = Len(dropped) /\ n = Len(lines)
  BY LineFacts DEF Scrolled
<1>3. Len(w) = d + n /\ \A x \in 1 .. d + n : w[x] = IF x <= d THEN dropped[x] ELSE lines[x - d]
  <2>1. dropped \in Lines /\ lines \in Lines
    BY DEF Scrolled
  <2> QED BY <1>1, <1>2, <2>1, JoinLines
<1>4. ASSUME NEW y \in 1 .. n PROVE w[d + y] = lines[y]
  <2>1. PICK x \in 1 .. d + n : x = d + y /\ ~(x <= d) /\ x - d = y
    OBVIOUS
  <2> QED BY <1>3, <2>1
<1>5. PICK first, end \in Nat : ShownFrom(lines, first, end)
  BY ShownAt DEF Scrolled, Empty
<1>6. /\ first \in 1 .. n /\ end \in 1 .. n /\ first <= end /\ lines[first] # Blank
      /\ \A y \in 1 .. n : lines[y] # Blank => first <= y /\ y <= end
      /\ Shown(lines) = SubSeq(lines, first, end)
  BY <1>2, <1>5 DEF ShownFrom
<1>7. PICK f \in Nat, l \in Nat : f = d + first /\ l = d + end
  BY <1>6
<1>8. f \in 1 .. d + n + 1 /\ l \in f - 1 .. d + n /\ f > d /\ f <= l /\ l - f + 1 = end - first + 1
  BY <1>6, <1>7
<1>9. PICK current \in Lines : /\ current = Shown(lines)
                               /\ Len(current) = IF first <= end THEN end - first + 1 ELSE 0
                               /\ \A y \in 1 .. end - first + 1 : current[y] = lines[first + y - 1]
  <2>1. first \in Nat \ {0} /\ end \in Int /\ end <= Len(lines)
    BY <1>2, <1>6
  <2>2. PICK s \in Lines : s = lines
    BY DEF Scrolled
  <2>3. PICK c : c = SubSeq(s, first, end)
    OBVIOUS
  <2>4. /\ c \in Lines /\ Len(c) = IF first <= end THEN end - first + 1 ELSE 0
        /\ \A y \in 1 .. end - first + 1 : c[y] = s[first + y - 1]
    BY <2>1, <2>2, <2>3, Slice
  <2>5. c = Shown(lines)
    BY <1>6, <2>2, <2>3
  <2> QED BY <2>2, <2>4, <2>5
<1>10. ASSUME NEW y \in 1 .. l - f + 1 PROVE current[y] = w[f + y - 1]
  <2>1. y \in 1 .. end - first + 1
    BY <1>8
  <2>2. PICK z \in 1 .. n : z = first + y - 1
    BY <1>6, <2>1
  <2>3. f + y - 1 = d + z
    BY <1>6, <1>7, <2>1, <2>2
  <2> QED BY <1>4, <1>9, <2>1, <2>2, <2>3
<1>11. Stretch(current, w, f, l)
  BY <1>3, <1>6, <1>8, <1>9, <1>10 DEF Stretch
<1>12. w[f] # Blank
  BY <1>4, <1>6, <1>7
<1>13. ASSUME NEW x \in d + 1 .. Len(w), w[x] # Blank PROVE f <= x /\ x <= l
  <2>1. PICK y \in 1 .. n : x = d + y
    <3>1. x - d \in 1 .. n /\ x = d + (x - d)
      BY <1>3
    <3> QED BY <3>1
  <2>2. first <= y /\ y <= end
    BY <1>4, <1>6, <1>13, <2>1
  <2> QED BY <1>6, <1>7, <2>1, <2>2
<1>14. Placed(before, printed, dropped, current, f, l)
  BY <1>1, <1>2, <1>8, <1>11, <1>12, <1>13 DEF Placed
<1> QED BY <1>9, <1>14

\* An overlap reaches beyond all that was there before.
LEMMA OverlapReaches ==
  ASSUME NEW before, NEW printed, NEW dropped, NEW lines, Scrolled(before, printed, dropped, lines),
         NEW current, NEW f \in Nat, NEW l \in Nat, Placed(before, printed, dropped, current, f, l),
         Trimmed[current[1]] = current[1], NEW x \in f .. Len(before), before[x] # Blank
  PROVE  \E k \in Overlaps(Captured(before), current) : x <= f + k - 1
<1>1. PICK w \in Lines : w = before \o printed
  BY ConcatProperties DEF Scrolled, Lines
<1>2. PICK m \in Nat, p \in Nat, d \in Nat : m = Len(before) /\ p = Len(printed) /\ d = Len(dropped)
  BY LineFacts DEF Scrolled
<1>3. Len(w) = m + p /\ \A y \in 1 .. m + p : w[y] = IF y <= m THEN before[y] ELSE printed[y - m]
  BY <1>1, <1>2, ConcatProperties DEF Scrolled, Lines
<1>4. \A y \in 1 .. m : w[y] = before[y]
  BY <1>3
<1>5. /\ Stretch(current, w, f, l) /\ f > d /\ f <= l /\ w[f] # Blank
      /\ \A y \in d + 1 .. Len(w) : w[y] # Blank => f <= y /\ y <= l
  BY <1>1, <1>2 DEF Placed
<1>6. /\ current \in Lines /\ f \in 1 .. m + p + 1 /\ l \in f - 1 .. m + p /\ Len(current) = l - f + 1
      /\ \A y \in 1 .. l - f + 1 : current[y] = w[f + y - 1]
  BY <1>3, <1>5 DEF Stretch
<1>7. x \in f .. m /\ x \in 1 .. m /\ f \in 1 .. m
  BY <1>2, <1>6
<1>8. PICK first \in Nat, end \in Nat : ShownFrom(before, first, end)
  BY <1>2, <1>7, ShownAt DEF Scrolled, Empty
<1>9. /\ first \in 1 .. m /\ end \in 1 .. m /\ first <= end /\ before[end] # Blank
      /\ \A y \in 1 .. m : before[y] # Blank => first <= y /\ y <= end
  BY <1>2, <1>8 DEF ShownFrom
<1>10. x <= end /\ first <= f /\ f <= end
  <2>1. x <= end
    BY <1>7, <1>9
  <2>2. before[f] # Blank
    BY <1>4, <1>5, <1>7
  <2> QED BY <1>7, <1>9, <2>1, <2>2
<1>11. end <= l
  <2>1. end \in d + 1 .. Len(w) /\ w[end] # Blank
    BY <1>3, <1>4, <1>5, <1>9, <1>10
  <2> QED BY <1>5, <2>1
<1>12. PICK k \in Nat : k = end - f + 1 /\ k \in 1 .. end - first + 1 /\ k <= l - f + 1 /\ x <= f + k - 1
  <2>1. end - f + 1 \in Nat /\ end - f + 1 \in 1 .. end - first + 1 /\ end - f + 1 <= l - f + 1
        /\ x <= f + (end - f + 1) - 1
    BY <1>7, <1>9, <1>10, <1>11
  <2> QED BY <2>1
<1>13. PICK previous \in Lines :
         /\ previous = Captured(before) /\ Len(previous) = end - first + 1
         /\ previous[1] = Trimmed[before[first]]
         /\ \A y \in 2 .. end - first + 1 : previous[y] = before[first + y - 1]
  <2>1. CaptureOf(Captured(before), before, first, end)
    BY <1>8, CapturedLines DEF Scrolled
  <2>2. PICK previous : previous = Captured(before)
    OBVIOUS
  <2>3. CaptureOf(previous, before, first, end)
    BY <2>1, <2>2
  <2> QED BY <2>2, <2>3 DEF CaptureOf
<1>14. PICK q \in Nat : q = end - first + 1 /\ q = Len(previous)
  BY <1>9, <1>13
<1>15. q - k + 1 \in Nat \ {0} /\ q \in Int /\ q <= Len(previous) /\ q - (q - k + 1) + 1 = k
  BY <1>12, <1>14
<1>16. PICK a \in Lines : /\ a = SubSeq(previous, q - k + 1, q)
                          /\ Len(a) = k
                          /\ \A y \in 1 .. k : a[y] = previous[q - k + 1 + y - 1]
  <2>1. PICK a \in Lines : /\ a = SubSeq(previous, q - k + 1, q)
                           /\ Len(a) = IF q - k + 1 <= q THEN q - (q - k + 1) + 1 ELSE 0
                           /\ \A y \in 1 .. q - (q - k + 1) + 1 : a[y] = previous[q - k + 1 + y - 1]
    BY <1>15, Slice
  <2>2. q - k + 1 <= q
    BY <1>12, <1>14
  <2>3. Len(a) = k
    BY <1>15, <2>1, <2>2
  <2>4. \A y \in 1 .. k : a[y] = previous[q - k + 1 + y - 1]
    BY <1>15, <2>1
  <2> QED BY <2>1, <2>3, <2>4
<1>17. PICK b \in Lines : /\ b = SubSeq(current, 1, k)
                          /\ Len(b) = k
                          /\ \A y \in 1 .. k : b[y] = current[1 + y - 1]
  <2>1. 1 \in Nat \ {0} /\ k \in Int /\ k <= Len(current) /\ k - 1 + 1 = k /\ 1 <= k
    BY <1>6, <1>12
  <2>4. PICK i \in Nat \ {0}, j \in Int : i = 1 /\ j = k /\ j <= Len(current)
    BY <2>1
  <2>5. PICK b \in Lines : /\ b = SubSeq(current, i, j)
                           /\ Len(b) = IF i <= j THEN j - i + 1 ELSE 0
                           /\ \A y \in 1 .. j - i + 1 : b[y] = current[i + y - 1]
    <3>1. PICK c \in Lines : c = current
      BY <1>6
    <3>2. /\ SubSeq(c, i, j) \in Lines /\ Len(SubSeq(c, i, j)) = IF i <= j THEN j - i + 1 ELSE 0
          /\ \A y \in 1 .. j - i + 1 : SubSeq(c, i, j)[y] = c[i + y - 1]
      BY <2>4, <3>1, Slice
    <3> QED BY <3>1, <3>2, Zenon
  <2>2. /\ b = SubSeq(current, 1, k)
        /\ Len(b) = IF 1 <= k THEN k - 1 + 1 ELSE 0
        /\ \A y \in 1 .. k - 1 + 1 : b[y] = current[1 + y - 1]
    BY <2>4, <2>5
  <2>3. Len(b) = k /\ \A y \in 1 .. k : b[y] = current[1 + y - 1]
    BY <2>1, <2>2
  <2> QED BY <2>2, <2>3
<1>18. ASSUME NEW y \in 1 .. k PROVE a[y] = b[y]
  <2>1. PICK z \in 1 .. m : z = f + y - 1
    BY <1>7, <1>9, <1>12
  <2>2. PICK v \in 1 .. end - first + 1 : v = q - k + 1 + y - 1 /\ first + v - 1 = z
    <3>1. q - k + 1 + y - 1 \in 1 .. end - first + 1 /\ first + (q - k + 1 + y - 1) - 1 = f + y - 1
      BY <1>9, <1>12, <1>14
    <3> QED BY <2>1, <3>1
  <2>3. a[y] = previous[v]
    BY <1>16, <2>2
  <2>4. y \in 1 .. l - f + 1 /\ 1 + y - 1 = y
    BY <1>6, <1>12
  <2>5. b[y] = w[z] /\ b[y] = current[y] /\ w[z] = before[z]
    BY <1>4, <1>6, <1>17, <2>1, <2>4
  <2>6. CASE v = 1
    <3>1. y = 1 /\ first = z
      <4>1. q - k >= 0 /\ y >= 1 /\ q - k + y = 1
        BY <1>9, <1>12, <1>14, <2>2, <2>6
      <4>2. y = 1
        BY <1>12, <1>14, <4>1
      <4> QED BY <1>9, <2>2, <2>6, <4>2
    <3>2. before[first] = current[1]
      BY <2>5, <3>1
    <3> QED BY <1>13, <2>3, <2>5, <2>6, <3>1, <3>2
  <2>7. CASE v # 1
    <3>1. v \in 2 .. end - first + 1
      BY <2>7
    <3> QED BY <1>13, <2>2, <2>3, <2>5, <3>1
  <2> QED BY <2>6, <2>7
<1>19. a = b
  <2>1. Len(a) = Len(b) /\ \A y \in 1 .. Len(a) : a[y] = b[y]
    BY <1>16, <1>17, <1>18
  <2> QED BY <2>1, SeqEqual DEF Lines
<1>20. k \in Overlaps(previous, current)
  BY <1>6, <1>12, <1>13, <1>14, <1>16, <1>17, <1>19 DEF Overlaps
<1> QED BY <1>12, <1>13, <1>20

\* While the terminal only scrolls, what is emitted is, but for blank lines, the
\* end of what was printed.
LEMMA PrintedOnce ==
  ASSUME NEW before, NEW printed, NEW dropped, NEW lines, Scrolled(before, printed, dropped, lines),
         Captured(lines) = Shown(lines)
  PROVE  IsSuffix(Ink(TerminalDelta(Captured(before), Captured(lines))), Ink(printed))
<1>1. PICK previous \in Lines, current \in Lines : previous = Captured(before) /\ current = Captured(lines)
  BY CapturedHasInk DEF Scrolled
<1>2. PICK delta : delta = TerminalDelta(previous, current)
  OBVIOUS
<1>3. CASE delta = << >>
  <2>1. Ink(delta) = << >>
    BY <1>3, KeepEmpty DEF Ink
  <2> QED BY <1>1, <1>2, <2>1, SuffixTrivia DEF Scrolled
<1>4. CASE delta # << >>
  <2>1. current # previous
    BY <1>2, <1>4 DEF TerminalDelta
  <2>2. PICK k \in Nat : Overlapped(previous, current, k)
    BY <2>1, DeltaFollows
  <2>3. /\ k \in 0 .. Len(current) /\ \A o \in Overlaps(previous, current) : o <= k
        /\ delta = After(current, k)
    BY <1>2, <1>4, <2>2 DEF Overlapped
  <2>4. /\ delta \in Lines /\ Len(delta) = Len(current) - k
        /\ \A y \in 1 .. Len(current) - k : delta[y] = current[k + y]
    BY <2>3, AfterLines
  <2>5. current # << >>
    <3> SUFFICES ASSUME Len(current) = 0 PROVE FALSE
      BY EmptySeq
    <3>1. Len(delta) = 0
      <4>1. k \in 0 .. 0
        BY <2>3
      <4>2. k = 0 /\ Len(delta) = 0 - k
        BY <2>4, <4>1
      <4> QED BY <4>2
    <3> QED BY <1>4, <2>4, <3>1, EmptySeq DEF Lines
  <2>6. PICK f \in Nat, l \in Nat : Placed(before, printed, dropped, current, f, l)
    BY <1>1, <2>5, CaptureIsPlaced
  <2>7. PICK w \in Lines : w = before \o printed
    BY ConcatProperties DEF Scrolled, Lines
  <2>8. PICK n \in Nat, m \in Nat, p \in Nat, d \in Nat :
          n = Len(w) /\ n = m + p /\ m = Len(before) /\ p = Len(printed) /\ d = Len(dropped)
    BY <2>7, LineFacts, ConcatProperties DEF Scrolled, Lines
  <2>9. /\ f \in 1 .. n + 1 /\ l \in f - 1 .. n /\ Len(current) = l - f + 1 /\ f > d /\ f <= l
        /\ \A y \in 1 .. l - f + 1 : current[y] = w[f + y - 1]
        /\ \A x \in d + 1 .. n : w[x] # Blank => f <= x /\ x <= l
    BY <2>6, <2>7, <2>8 DEF Placed, Stretch
  <2>10. PICK i \in 1 .. n + 1 : i = f + k /\ l \in i - 1 .. n /\ i >= f /\ l - i + 1 = l - f + 1 - k
    <3>1. f + k \in 1 .. n + 1 /\ l \in (f + k) - 1 .. n /\ f + k >= f /\ l - (f + k) + 1 = l - f + 1 - k
      BY <2>3, <2>9
    <3> QED BY <3>1
  <2>11. ASSUME NEW y \in 1 .. l - i + 1 PROVE delta[y] = w[i + y - 1]
    <3>1. y \in 1 .. Len(current) - k
      BY <2>9, <2>10
    <3>2. PICK z \in 1 .. l - f + 1 : z = k + y /\ f + z - 1 = i + y - 1
      <4>1. k + y \in 1 .. l - f + 1 /\ f + (k + y) - 1 = i + y - 1
        BY <2>9, <2>10
      <4> QED BY <4>1
    <3> QED BY <2>4, <2>9, <3>1, <3>2
  <2>12. Stretch(delta, w, i, l)
    <3>1. Len(delta) = l - i + 1
      BY <2>4, <2>9, <2>10
    <3> QED BY <2>4, <2>8, <2>10, <2>11, <3>1 DEF Stretch
  <2>13. delta = SubSeq(w, i, l)
    BY <2>12, StretchIs
  <2>14. Ink(delta) = Ink(SubSeq(w, i, n))
    <3>1. ASSUME NEW x \in l + 1 .. n PROVE w[x] = Blank
      <4>1. x \in d + 1 .. n /\ ~(x <= l)
        BY <2>9
      <4> QED BY <2>9, <4>1
    <3>2. i \in 1 .. Len(w) + 1 /\ l \in i - 1 .. Len(w) /\ \A x \in l + 1 .. Len(w) : w[x] = Blank
      BY <2>8, <2>10, <3>1
    <3>3. Ink(SubSeq(w, i, l)) = Ink(SubSeq(w, i, Len(w)))
      BY <3>2, InkTrim
    <3> QED BY <2>8, <2>13, <3>3
  <2>15. ASSUME NEW x \in i .. m PROVE w[x] = Blank
    <3> SUFFICES ASSUME w[x] # Blank PROVE FALSE
      OBVIOUS
    <3>1. x \in f .. Len(before) /\ x \in 1 .. m /\ x \in 1 .. n
      BY <2>8, <2>9, <2>10
    <3>2. w[x] = before[x]
      <4>1. /\ Len(before) = m
            /\ \A y \in 1 .. Len(before) + Len(printed) :
                 w[y] = IF y <= Len(before) THEN before[y] ELSE printed[y - Len(before)]
        BY <2>7, <2>8, ConcatProperties DEF Scrolled, Lines
      <4>2. x \in 1 .. Len(before) + Len(printed) /\ x <= Len(before)
        BY <2>8, <3>1
      <4> QED BY <4>1, <4>2
    <3>3. PICK o \in Overlaps(Captured(before), current) : x <= f + o - 1
      <4>1. Trimmed[current[1]] = current[1]
        <5>1. PICK first, end \in Nat : ShownFrom(lines, first, end)
          BY <1>1, <2>5, ShownAt DEF Scrolled, Empty
        <5>2. current[1] = Trimmed[lines[first]] /\ lines[first] \in Line
          <6>1. CaptureOf(Captured(lines), lines, first, end)
            BY <5>1, CapturedLines DEF Scrolled
          <6>2. CaptureOf(current, lines, first, end)
            BY <1>1, <6>1
          <6> QED BY <6>2 DEF CaptureOf
        <5> QED BY <5>2, WatchingAssumption
      <4> QED BY <2>6, <3>1, <3>2, <4>1, OverlapReaches
    <3>4. o <= k /\ o \in Int
      <4>1. o \in Overlaps(previous, current)
        BY <1>1
      <4>2. o <= k
        BY <2>3, <4>1
      <4> QED BY <4>1, <4>2 DEF Overlaps
    <3> QED BY <2>9, <2>10, <3>1, <3>3, <3>4
  <2>16. IsSuffix(Ink(SubSeq(w, i, n)), Ink(printed))
    BY <2>7, <2>8, <2>10, <2>15, InkLate DEF Scrolled
  <2> QED BY <1>1, <1>2, <2>14, <2>16
<1> QED BY <1>3, <1>4

\* Unless it was redrawn, the terminal shows the end of what it showed at the last
\* poll and of what was printed since.
DeltaInv ==
  /\ screen \in Lines /\ last \in Lines /\ fresh \in Lines
  /\ ~redrawn => \E before, dropped \in Lines : last = Captured(before) /\ Scrolled(before, fresh, dropped, screen)

\* A terminal that is polled begins anew.
LEMMA PolledAnew ==
  ASSUME NEW lines \in Lines
  PROVE  \E before, dropped \in Lines :
           Captured(lines) = Captured(before) /\ Scrolled(before, << >>, dropped, lines)
<1>1. PICK none \in Lines : none = << >>
  BY EmptySeq DEF Lines
<1>2. none \o lines = lines /\ lines \o none = lines
  BY <1>1, ConcatEmptySeq DEF Lines
<1> QED BY <1>1, <1>2 DEF Scrolled

\* An empty terminal.
LEMMA DeltaInit == Init => DeltaInv
<1> SUFFICES ASSUME Init PROVE DeltaInv
  OBVIOUS
<1>1. PICK none \in Lines : none = << >>
  BY EmptySeq DEF Lines
<1>2. screen = none /\ last = none /\ fresh = none
  BY <1>1 DEF Init
<1>3. Captured(none) = << >>
  <2>1. DOMAIN none = {}
    BY <1>1
  <2> QED BY <2>1 DEF Captured, Shown
<1> QED BY <1>1, <1>2, <1>3, PolledAnew DEF DeltaInv

\* Three stretches of a terminal's lines, joined either way.
LEMMA LinesAssociate ==
  ASSUME NEW a \in Lines, NEW b \in Lines, NEW c \in Lines
  PROVE  (a \o b) \o c = a \o (b \o c)
<1>1. a \in Seq(Line \cup {Blank}) /\ b \in Seq(Line \cup {Blank}) /\ c \in Seq(Line \cup {Blank})
  BY DEF Lines
<1> QED BY <1>1, ConcatAssociative, SMTT(30)

\* A line that is printed: one more at the end, and, on a full terminal, one more
\* scrolled away.
LEMMA DeltaPrint ==
  ASSUME DeltaInv, NEW line \in Line \cup {Blank}, PrintLine(line)
  PROVE  DeltaInv'
<1>1. /\ fresh' = Append(fresh, line) /\ UNCHANGED <<redrawn, last>>
      /\ screen' = IF Len(screen) < Height THEN Append(screen, line) ELSE Append(Tail(screen), line)
  BY DEF PrintLine, pollVars
<1>2. PICK s \in Lines, p \in Lines : s = screen /\ p = fresh
  BY DEF DeltaInv
<1>3. PICK one \in Lines : one = <<line>>
  <2>1. <<line>> \in Seq(Line \cup {Blank})
    OBVIOUS
  <2> QED BY <2>1 DEF Lines
<1>4. \A t \in Lines : Append(t, line) = t \o one /\ t \o one \in Lines
  <2> SUFFICES ASSUME NEW t \in Lines PROVE Append(t, line) = t \o one /\ t \o one \in Lines
    OBVIOUS
  <2>1. t \o one \in Lines
    BY ConcatProperties DEF Lines
  <2>2. Append(t, line) = t \o <<line>>
    BY AppendIsConcat DEF Lines
  <2> QED BY <1>3, <2>1, <2>2
<1>5. fresh' = p \o one /\ fresh' \in Lines
  BY <1>1, <1>2, <1>4
<1>6. \A a, b, c \in Lines : (a \o b) \o c = a \o (b \o c)
  BY LinesAssociate
<1>7. \A a, b \in Lines : a \o b \in Lines
  BY ConcatProperties DEF Lines
<1>8. CASE Len(screen) < Height
  <2>1. screen' = s \o one /\ screen' \in Lines
    BY <1>1, <1>2, <1>4, <1>8
  <2>2. ASSUME NEW before \in Lines, NEW dropped \in Lines, Scrolled(before, fresh, dropped, screen)
        PROVE  Scrolled(before, fresh', dropped, screen')
    <3>1. dropped \o s = before \o p
      BY <1>2, <2>2 DEF Scrolled
    <3>2. dropped \o (s \o one) = before \o (p \o one)
      <4>1. (dropped \o s) \o one = dropped \o (s \o one)
        BY <1>6, SMTT(30)
      <4>2. (before \o p) \o one = before \o (p \o one)
        BY <1>6, SMTT(30)
      <4> QED BY <3>1, <4>1, <4>2
    <3> QED BY <1>5, <2>1, <3>2 DEF Scrolled
  <2> QED BY <1>1, <1>5, <2>1, <2>2 DEF DeltaInv
<1>9. CASE ~(Len(screen) < Height)
  <2>1. s # << >>
    BY <1>2, <1>9, EmptySeq, WatchingAssumption
  <2>2. PICK rest \in Lines : rest = Tail(s)
    BY <2>1, HeadTailProperties DEF Lines
  <2>3. PICK top \in Lines : s = top \o rest
    <3>1. Len(s) \in Nat \ {0}
      BY <2>1, EmptySeq DEF Lines
    <3>2. PICK i \in 1 .. Len(s) + 1 : i = 1
      BY <3>1
    <3>3. PICK j \in i - 1 .. Len(s) : j = 1
      BY <3>1, <3>2
    <3>4. SubSeq(s, i, j) \in Lines /\ SubSeq(s, i, Len(s)) = SubSeq(s, i, j) \o SubSeq(s, j + 1, Len(s))
      BY EndInTwo
    <3>5. PICK top \in Lines : SubSeq(s, i, Len(s)) = top \o SubSeq(s, j + 1, Len(s))
      BY <3>4
    <3>6. SubSeq(s, i, Len(s)) = s /\ SubSeq(s, j + 1, Len(s)) = Tail(s)
      BY <2>1, <3>2, <3>3, SubSeqFull, TailIsSubSeq DEF Lines
    <3> QED BY <2>2, <3>5, <3>6
  <2>4. screen' = rest \o one /\ screen' \in Lines
    BY <1>1, <1>2, <1>4, <1>9, <2>2
  <2>5. ASSUME NEW before \in Lines, NEW dropped \in Lines, Scrolled(before, fresh, dropped, screen)
        PROVE  dropped \o top \in Lines /\ Scrolled(before, fresh', dropped \o top, screen')
    <3>1. dropped \o s = before \o p
      BY <1>2, <2>5 DEF Scrolled
    <3>2. (dropped \o s) \o one = before \o (p \o one)
      <4>1. (before \o p) \o one = before \o (p \o one)
        BY <1>6, SMTT(30)
      <4> QED BY <3>1, <4>1
    <3>3. (dropped \o s) \o one = (dropped \o top) \o (rest \o one)
      <4>1. dropped \o s = (dropped \o top) \o rest
        <5>1. dropped \o (top \o rest) = (dropped \o top) \o rest
          BY LinesAssociate
        <5> QED BY <2>3, <5>1, Zenon
      <4>2. PICK dt \in Lines : dt = dropped \o top
        BY <1>7
      <4>3. (dt \o rest) \o one = dt \o (rest \o one)
        BY <1>6, SMTT(30)
      <4> QED BY <4>1, <4>2, <4>3
    <3>4. dropped \o top \in Lines
      BY <1>7
    <3> QED BY <1>5, <2>4, <3>2, <3>3, <3>4 DEF Scrolled
  <2> QED BY <1>1, <1>5, <2>4, <2>5 DEF DeltaInv
<1> QED BY <1>8, <1>9

\* The invariant is inductive.
LEMMA DeltaNext == DeltaInv /\ [Next]_vars => DeltaInv'
<1> SUFFICES ASSUME DeltaInv, [Next]_vars PROVE DeltaInv'
  OBVIOUS
<1>0. screen' \in Lines /\ << >> \in Lines
  BY ScreenLines, EmptySeq DEF DeltaInv, Lines
<1>1. ASSUME NEW line \in Line \cup {Blank}, PrintLine(line) PROVE DeltaInv'
  BY <1>1, DeltaPrint
<1>2. ASSUME NEW frame \in Frames, Redraw(frame) PROVE DeltaInv'
  BY <1>0, <1>2 DEF DeltaInv, Redraw, pollVars
<1>3. CASE Poll
  <2>1. /\ last' = Captured(screen) /\ fresh' = << >> /\ screen' = screen
    BY <1>3 DEF Poll
  <2>2. screen \in Lines /\ last' \in Lines
    BY <2>1, CapturedHasInk DEF DeltaInv
  <2> QED BY <1>0, <2>1, <2>2, PolledAnew DEF DeltaInv
<1>4. CASE Tick \/ CaptureFails \/ UNCHANGED vars
  <2>1. UNCHANGED <<screen, last, fresh, redrawn>>
    BY <1>4 DEF Tick, CaptureFails, worldVars, pollVars, vars
  <2> QED BY <2>1 DEF DeltaInv
<1>5. CASE Rewatch
  BY <1>0, <1>5 DEF DeltaInv, Rewatch
<1> QED BY <1>1, <1>2, <1>3, <1>4, <1>5 DEF Next

\* Both halves of the property, for a poll.
LEMMA DeltaStep ==
  ASSUME DeltaInv, Poll
  PROVE  NothingLost /\ NothingTwice
<1>1. last' = Captured(screen) /\ emitted' = TerminalDelta(last, last') /\ last \in Lines /\ screen \in Lines
  BY DEF Poll, DeltaInv
<1>2. NothingLost
  BY <1>1, RestIsEmitted DEF NothingLost
<1>3. NothingTwice
  <2> SUFFICES ASSUME ~redrawn, last' = Shown(screen) PROVE IsSuffix(Ink(emitted'), Ink(fresh))
    BY DEF NothingTwice
  <2>1. PICK before, dropped \in Lines : last = Captured(before) /\ Scrolled(before, fresh, dropped, screen)
    BY DEF DeltaInv
  <2>2. Captured(screen) = Shown(screen)
    BY <1>1
  <2> QED BY <1>1, <2>1, <2>2, PrintedOnce
<1> QED BY <1>2, <1>3

\* The captures can be put together from what the polls emit, and while the terminal
\* only scrolls and no indentation is trimmed off its top line, no line is emitted
\* again (terminal_delta, observe.rs; run_argv, backend.rs): for every height, every
\* way lines are indented, and all that is printed.
THEOREM DeltasAreExact == Spec => DeltaIsExact
<1>1. Init => DeltaInv
  BY DeltaInit
<1>2. DeltaInv /\ [Next]_vars => DeltaInv'
  BY DeltaNext
<1>3. DeltaInv /\ [Next]_vars => [Polled => NothingLost /\ NothingTwice]_vars
  <2> SUFFICES ASSUME DeltaInv, [Next]_vars, log' # << >>, log' # log PROVE NothingLost /\ NothingTwice
    BY DEF Polled
  <2>1. Poll
    BY DEF Next, PrintLine, Redraw, Tick, CaptureFails, Rewatch, pollVars, vars
  <2> QED BY <2>1, DeltaStep
<1> QED BY <1>1, <1>2, <1>3, PTL DEF Spec, DeltaIsExact
=============================================================================
