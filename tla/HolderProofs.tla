------------------------------ MODULE HolderProofs ------------------------------
(***************************************************************************)
(* Theorems about Holder, for every set of connections, ring size,         *)
(* geometry and amount of output: one writer at most, the exit after all   *)
(* output, and every client's stream byte-exact.                           *)
(***************************************************************************)
EXTENDS Holder, SequenceTheorems, TLAPS

(***************************************************************************)
(* The inductive invariant.  That the lock names every connection that may *)
(* drive the pty is inductive with the typing of the connections.  For the *)
(* geometry one also needs that a half-applied resize belongs to such a    *)
(* connection and carries the pty's geometry: two of them at once, or one  *)
(* whose lock was passed on, would leave the screen behind.                *)
(***************************************************************************)
ConnType ==
  /\ conn \in [Client -> {"none", "dialled", "granted", "serving", "ended"}]
  /\ granted \in [Client -> {"none", "reader", "writer"}]
  /\ resizing \in [Client -> Size \cup {NoSize}]
  /\ writerId \in Client \cup {NoClient}

HalfResized ==
  \A c \in Client :
    resizing[c] # NoSize => conn[c] = "serving" /\ granted[c] = "writer" /\ resizing[c] = pty

LockInv == ConnType /\ OneWriter /\ HalfResized /\ ScreenMatchesPty

lockVars == <<conn, granted, resizing, writerId, pty, screen>>

\* A step that leaves the connections, the lock and the geometries alone.
LEMMA LockFrame == LockInv /\ UNCHANGED lockVars => LockInv'
  BY DEF LockInv, ConnType, OneWriter, Drives, HalfResized, ScreenMatchesPty, lockVars

LEMMA LockInit == Init => LockInv
  BY HolderAssumption
  DEF Init, LockInv, ConnType, OneWriter, Drives, HalfResized, ScreenMatchesPty, NoClient, NoSize

\* The child and the holder's own threads never touch them.
LEMMA LockService ==
  ASSUME LockInv,
         ChildStarts \/ ChildWrites \/ ChildExits \/ SlaveCloses \/ Service \/ Quit
  PROVE  LockInv'
<1>1. UNCHANGED lockVars
  BY DEF ChildStarts, ChildWrites, ChildExits, SlaveCloses, Service, WatcherReaps, ReaderReads,
         ReaderPushes, ReaderMeetsEof, ReaderEmitsExit, Quit, lockVars, clientVars
<1> QED BY <1>1, LockFrame

LEMMA LockConnection ==
  ASSUME LockInv, NEW c \in Client,
         \/ Handler(c) \/ Dial(c) \/ PeerLeaves(c)
         \/ ResizePty(c) \/ Signal(c) \/ Detach(c)
  PROVE  LockInv'
<1> USE DEF LockInv
<1>1. CASE Register(c)
  <2>1. PICK role \in {"reader", "writer"} :
          LET wins == role = "writer" /\ writerId = NoClient
          IN /\ granted'  = [granted EXCEPT ![c] = IF wins THEN "writer" ELSE "reader"]
             /\ writerId' = IF wins THEN c ELSE writerId
    BY <1>1 DEF Register
  <2>2. /\ conn[c] = "dialled" /\ conn' = [conn EXCEPT ![c] = "granted"]
        /\ UNCHANGED <<resizing, pty, screen>>
    BY <1>1 DEF Register
  <2>3. ConnType'
    BY <2>1, <2>2 DEF ConnType
  <2>4. OneWriter'
    BY <2>1, <2>2, HolderAssumption DEF ConnType, OneWriter, Drives
  <2>5. HalfResized' /\ ScreenMatchesPty'
    BY <2>1, <2>2 DEF ConnType, HalfResized, ScreenMatchesPty
  <2> QED BY <2>3, <2>4, <2>5
<1>2. CASE Reply(c)
  <2>1. /\ conn[c] = "granted"
        /\ \E x \in {"serving", "ended"} : conn' = [conn EXCEPT ![c] = x]
        /\ UNCHANGED <<granted, resizing, writerId, pty, screen>>
    BY <1>2 DEF Reply
  <2> QED BY <2>1 DEF ConnType, OneWriter, Drives, HalfResized, ScreenMatchesPty
<1>3. CASE Deliver(c) \/ PeerLeaves(c) \/ Signal(c)
  <2>1. UNCHANGED lockVars
    BY <1>3 DEF Deliver, PeerLeaves, Signal, lockVars, clientVars
  <2> QED BY <2>1, LockFrame
<1>4. CASE ResizeScreen(c)
  <2>1. /\ resizing[c] # NoSize /\ screen' = resizing[c]
        /\ resizing' = [resizing EXCEPT ![c] = NoSize]
        /\ UNCHANGED <<conn, granted, writerId, pty>>
    BY <1>4 DEF ResizeScreen
  <2> QED BY <2>1 DEF ConnType, OneWriter, Drives, HalfResized, ScreenMatchesPty
<1>5. CASE Dial(c)
  <2>1. /\ conn[c] = "none" /\ conn' = [conn EXCEPT ![c] = "dialled"]
        /\ UNCHANGED <<granted, resizing, writerId, pty, screen>>
    BY <1>5 DEF Dial
  <2> QED BY <2>1 DEF ConnType, OneWriter, Drives, HalfResized, ScreenMatchesPty
<1>6. CASE ResizePty(c)
  <2>1. PICK size \in Size : pty' = size /\ resizing' = [resizing EXCEPT ![c] = size]
    BY <1>6 DEF ResizePty
  <2>2. /\ conn[c] = "serving" /\ granted[c] = "writer"
        /\ UNCHANGED <<conn, granted, writerId, screen>>
    BY <1>6 DEF ResizePty
  <2>3. \A d \in Client \ {c} : resizing[d] = NoSize
    BY <2>2 DEF OneWriter, Drives, HalfResized
  <2>4. ConnType' /\ OneWriter'
    BY <2>1, <2>2 DEF ConnType, OneWriter, Drives
  <2>5. HalfResized'
    BY <2>1, <2>2, <2>3 DEF ConnType, HalfResized
  <2>6. ScreenMatchesPty'
    BY <2>1, HolderAssumption DEF ConnType, ScreenMatchesPty
  <2> QED BY <2>4, <2>5, <2>6
<1>7. CASE Detach(c)
  <2>1. /\ resizing[c] = NoSize
        /\ conn' = [conn EXCEPT ![c] = "ended"]
        /\ writerId' = IF writerId = c THEN NoClient ELSE writerId
        /\ UNCHANGED <<granted, resizing, pty, screen>>
    BY <1>7 DEF Detach
  <2> QED BY <2>1 DEF ConnType, OneWriter, Drives, HalfResized, ScreenMatchesPty
<1> QED BY <1>1, <1>2, <1>3, <1>4, <1>5, <1>6, <1>7 DEF Handler

LEMMA LockNext == LockInv /\ [Next]_vars => LockInv'
<1> SUFFICES ASSUME LockInv, [Next]_vars PROVE LockInv'
  OBVIOUS
<1>1. CASE UNCHANGED vars
  BY <1>1, LockFrame DEF vars, lockVars
<1>2. CASE Next
  BY <1>2, LockService, LockConnection DEF Next
<1> QED BY <1>1, <1>2

LEMMA LockHolds == Spec => []LockInv
  BY LockInit, LockNext, PTL DEF Spec

\* At most one connection may drive the pty, and it is the one the lock names.
THEOREM AtMostOneWriter == Spec => []OneWriter
<1>1. LockInv => OneWriter
  BY DEF LockInv
<1> QED BY <1>1, LockHolds, PTL

\* The vt100 screen has the pty's geometry whenever no resize is half applied.
THEOREM ScreenFollowsPty == Spec => []ScreenMatchesPty
<1>1. LockInv => ScreenMatchesPty
  BY DEF LockInv
<1> QED BY <1>1, LockHolds, PTL

(***************************************************************************)
(* The exit.  That it is published after all output rests on the reader's  *)
(* position: past the end of file nobody can write any more, and only then *)
(* is the watcher's status taken.                                          *)
(***************************************************************************)
OutputType ==
  /\ child \in {"starting", "running"} \cup Statuses /\ slave \in BOOLEAN
  /\ written \in Nat /\ holding \in Nat /\ holding <= written
  /\ reader \in {"reading", "pushing", "eof", "done"}
  /\ reaped \in {"none"} \cup Statuses /\ exit \in {"none"} \cup Statuses

PastOutput == reader \in {"eof", "done"} => ~slave /\ child # "starting" /\ holding = written

OutputInv ==
  /\ OutputType /\ PastOutput
  /\ reader = "pushing" => holding >= 1
  /\ reaped # "none" => reaped = child
  /\ exit # "none" => reader = "done" /\ exit = reaped

outputVars == <<child, slave, written, holding, reader, reaped, exit>>

LEMMA OutputInit == Init => OutputInv
<1> SUFFICES ASSUME Init PROVE OutputInv
  OBVIOUS
<1>1. slave \in BOOLEAN
  BY DEF Init
<1>2. /\ child = "starting" /\ written = 0 /\ holding = 0 /\ reader = "reading"
      /\ reaped = "none" /\ exit = "none"
  BY DEF Init
<1> QED BY <1>1, <1>2 DEF OutputInv, OutputType, PastOutput

LEMMA OutputFrame == OutputInv /\ UNCHANGED outputVars => OutputInv'
  BY DEF OutputInv, OutputType, PastOutput, outputVars

LEMMA OutputChild ==
  ASSUME OutputInv, NEW c,
         ChildStarts \/ ChildWrites \/ ChildExits \/ SlaveCloses \/ WatcherReaps \/ Signal(c)
  PROVE  OutputInv'
<1> USE DEF OutputInv, OutputType, PastOutput, Statuses, streamVars
<1>1. CASE ChildStarts
  BY <1>1 DEF ChildStarts
<1>2. CASE ChildWrites
  BY <1>2 DEF ChildWrites
<1>3. ASSUME child = "running", child' \in Statuses, slave' \in {slave, FALSE},
             UNCHANGED <<written, streamVars>>
      PROVE  OutputInv'
  <2>0. slave' = slave \/ slave' = FALSE
    BY <1>3
  <2>1. slave' \in BOOLEAN /\ (~slave => ~slave')
    <3>1. slave \in BOOLEAN
      BY DEF OutputInv, OutputType
    <3>2. CASE slave' = slave
      <4> HIDE DEF OutputInv
      <4> QED BY <3>1, <3>2, Zenon
    <3>3. CASE slave' = FALSE
      <4> HIDE DEF OutputInv
      <4> QED BY <3>3, Zenon
    <3> QED BY <2>0, <3>2, <3>3
  <2>2. reaped = "none" /\ exit = "none"
    BY <1>3
  <2> QED BY <1>3, <2>1, <2>2
<1>4. CASE SlaveCloses
  BY <1>4 DEF SlaveCloses
<1>5. CASE WatcherReaps
  BY <1>5 DEF WatcherReaps, childVars
<1>6. CASE ChildExits
  BY <1>3, <1>6 DEF ChildExits
<1>7. CASE Signal(c)
  BY <1>3, <1>7 DEF Signal
<1> QED BY <1>1, <1>2, <1>4, <1>5, <1>6, <1>7

LEMMA OutputReader ==
  ASSUME OutputInv, ReaderReads \/ ReaderPushes \/ ReaderMeetsEof \/ ReaderEmitsExit
  PROVE  OutputInv'
<1> USE DEF OutputInv, OutputType, PastOutput, childVars
<1>1. CASE ReaderReads
  BY <1>1 DEF ReaderReads
<1>2. CASE ReaderPushes
  BY <1>2 DEF ReaderPushes
<1>3. CASE ReaderMeetsEof
  BY <1>3 DEF ReaderMeetsEof
<1>4. CASE ReaderEmitsExit
  BY <1>4 DEF ReaderEmitsExit, Statuses
<1> QED BY <1>1, <1>2, <1>3, <1>4

LEMMA OutputNext == OutputInv /\ [Next]_vars => OutputInv'
<1> SUFFICES ASSUME OutputInv, [Next]_vars PROVE OutputInv'
  OBVIOUS
<1>1. CASE UNCHANGED vars
  BY <1>1, OutputFrame DEF vars, outputVars
<1>2. CASE ChildStarts \/ ChildWrites \/ ChildExits \/ SlaveCloses \/ WatcherReaps
  BY <1>2, OutputChild
<1>3. CASE ReaderReads \/ ReaderPushes \/ ReaderMeetsEof \/ ReaderEmitsExit
  BY <1>3, OutputReader
<1>4. CASE Quit
  BY <1>4, OutputFrame DEF Quit, outputVars, childVars, streamVars
<1>5. ASSUME NEW c \in Client,
             Handler(c) \/ Dial(c) \/ PeerLeaves(c) \/ ResizePty(c) \/ Detach(c)
      PROVE  OutputInv'
  BY <1>5, OutputFrame DEF Handler, Register, Reply, Deliver, ResizeScreen, Dial, PeerLeaves,
     ResizePty, Detach, outputVars, childVars, streamVars
<1>6. ASSUME NEW c \in Client, Signal(c) PROVE OutputInv'
  BY <1>6, OutputChild
<1> QED BY <1>1, <1>2, <1>3, <1>4, <1>5, <1>6 DEF Next, Service

\* The exit is published only once no output is left in the pty or with the
\* reader, and it is the child's (emit_exit after end of file).
THEOREM ExitComesLast == Spec => []ExitAfterOutput
<1>1. OutputInv => ExitAfterOutput
  BY DEF OutputInv, OutputType, PastOutput, ExitAfterOutput, Pushed
<1> QED BY <1>1, OutputInit, OutputNext, PTL DEF Spec

(***************************************************************************)
(* Sequences of frames.                                                    *)
(***************************************************************************)
Frames == [kind : {"data", "screen"}, upto : Nat] \cup {Exited}

Chain(s) == \A i \in 1 .. Len(s) - 1 : Follows(s[i], s[i + 1])

Unended(s) == \A i \in 1 .. Len(s) : s[i] # Exited

LEMMA ChainAppend ==
  ASSUME NEW s \in Seq(Frames), NEW f \in Frames, Chain(s), s # << >> => Follows(Last(s), f)
  PROVE  /\ Append(s, f) \in Seq(Frames) /\ Append(s, f) # << >>
         /\ Chain(Append(s, f)) /\ Last(Append(s, f)) = f
         /\ Unended(s) /\ f # Exited => Unended(Append(s, f))
<1> DEFINE t == Append(s, f)
<1>1. /\ t \in Seq(Frames) /\ t # << >> /\ Len(t) = Len(s) + 1
      /\ \A i \in 1 .. Len(s) : t[i] = s[i]
      /\ t[Len(s) + 1] = f /\ Len(s) \in Nat
  BY AppendProperties, LenProperties
<1>2. s # << >> => Len(s) \in Nat \ {0}
  BY EmptySeq
<1>3. s = << >> => Len(s) = 0
  BY EmptySeq
<1> HIDE DEF t
<1>4. Chain(t)
  <2> SUFFICES ASSUME NEW i \in 1 .. Len(t) - 1 PROVE Follows(t[i], t[i + 1])
    BY DEF Chain
  <2>1. CASE i = Len(s)
    <3>1. s # << >> /\ t[i] = s[Len(s)] /\ t[i + 1] = f
      BY <1>1, <1>2, <1>3, <2>1
    <3> QED BY <3>1 DEF Last
  <2>2. CASE i # Len(s)
    <3>1. i \in 1 .. Len(s) - 1 /\ i \in 1 .. Len(s) /\ i + 1 \in 1 .. Len(s)
      BY <1>1, <2>2
    <3>2. t[i] = s[i] /\ t[i + 1] = s[i + 1]
      BY <1>1, <3>1
    <3> QED BY <3>1, <3>2 DEF Chain
  <2> QED BY <2>1, <2>2
<1>5. Last(t) = f
  BY <1>1 DEF Last
<1>6. ASSUME Unended(s), f # Exited PROVE Unended(t)
  BY <1>1, <1>6 DEF Unended
<1> QED BY <1>1, <1>4, <1>5, <1>6 DEF t

LEMMA QueueGrows ==
  ASSUME NEW g \in Seq(Frames), NEW q \in Seq(Frames), NEW f \in Frames
  PROVE  g \o Append(q, f) = Append(g \o q, f)
<1>1. <<f>> \in Seq(Frames) /\ g \o q \in Seq(Frames)
  BY ConcatProperties
<1>2. Append(q, f) = q \o <<f>> /\ Append(g \o q, f) = (g \o q) \o <<f>>
  BY <1>1, AppendIsConcat
<1> QED BY <1>1, <1>2, ConcatAssociative

LEMMA FrameMoves ==
  ASSUME NEW g \in Seq(Frames), NEW q \in Seq(Frames), q # << >>
  PROVE  /\ Append(g, Head(q)) \in Seq(Frames) /\ Tail(q) \in Seq(Frames)
         /\ Append(g, Head(q)) \o Tail(q) = g \o q
<1> DEFINE h == Head(q)
           rest == Tail(q)
<1>1. h \in Frames /\ rest \in Seq(Frames)
  BY HeadTailProperties
<1>2. q = <<h>> \o rest
  <2>1. Len(q) \in Nat \ {0}
    BY EmptySeq
  <2>2. 1 \in 1 .. Len(q) /\ Len(q) \in 1 .. Len(q)
    BY <2>1
  <2>3. SubSeq(q, 1, Len(q)) = <<q[1]>> \o SubSeq(q, 1 + 1, Len(q))
    BY <2>2, SubSeqRecursiveFirst
  <2>4. rest = SubSeq(q, 2, Len(q)) /\ h = q[1]
    BY TailIsSubSeq
  <2> QED BY <2>3, <2>4, SubSeqFull
<1> HIDE DEF h, rest
<1>3. <<h>> \in Seq(Frames) /\ Append(g, h) = g \o <<h>> /\ Append(g, h) \in Seq(Frames)
  BY <1>1, AppendIsConcat, AppendProperties
<1>4. (g \o <<h>>) \o rest = g \o (<<h>> \o rest)
  BY <1>1, <1>3, ConcatAssociative
<1> QED BY <1>1, <1>2, <1>3, <1>4 DEF h, rest

(***************************************************************************)
(* Byte-exactness.  It needs to know, besides, that a stream has no exit   *)
(* before there is one, and that a connection that is not yet registered   *)
(* was sent nothing.                                                       *)
(***************************************************************************)
StreamType ==
  /\ queue \in [Client -> Seq(Frames)] /\ got \in [Client -> Seq(Frames)]
  /\ conn \in [Client -> {"none", "dialled", "granted", "serving", "ended"}]
  /\ alive \in [Client -> BOOLEAN] /\ clients \subseteq Client

UpToDate(c) ==
  IF Stream(c) = << >> THEN Pushed = 0 /\ exit = "none"
  ELSE Last(Stream(c)) = Exited \/ Last(Stream(c)).upto = Pushed

Served(c) ==
  /\ Chain(Stream(c))
  /\ exit = "none" => Unended(Stream(c))
  /\ c \in clients /\ alive[c] => UpToDate(c)
  /\ conn[c] \in {"none", "dialled"} => got[c] = << >>

StreamInv == StreamType /\ RingIsTail /\ \A c \in Client : Served(c)

LEMMA StreamInit == Init => StreamInv
<1> SUFFICES ASSUME Init PROVE StreamInv
  OBVIOUS
<1>1. StreamType
  BY EmptySeq DEF Init, StreamType
<1>2. RingIsTail
  <2>1. Pushed = 0 /\ ring = << >> /\ Pushed < Cap
    BY HolderAssumption DEF Init, Pushed
  <2> QED BY <2>1 DEF RingIsTail
<1>3. ASSUME NEW c \in Client PROVE Served(c)
  <2>1. got[c] = << >> /\ queue[c] = << >> /\ clients = {}
    BY DEF Init
  <2>2. Stream(c) = << >> /\ Len(Stream(c)) = 0
    BY <2>1, EmptySeq, ConcatEmptySeq DEF Stream
  <2> QED BY <2>1, <2>2 DEF Served, Chain, Unended
<1> QED BY <1>1, <1>2, <1>3 DEF StreamInv

\* A client whose stream a step does not touch.
LEMMA ServedFrame ==
  ASSUME NEW c \in Client, Served(c),
         Stream(c)' = Stream(c), exit' = exit, Pushed' = Pushed,
         c \in clients' /\ alive'[c] => c \in clients /\ alive[c],
         conn'[c] \in {"none", "dialled"} => conn[c] \in {"none", "dialled"} /\ got'[c] = got[c]
  PROVE  Served(c)'
  BY DEF Served, UpToDate

\* A frame for everyone: the next chunk, or the exit.
LEMMA ServedBroadcast ==
  ASSUME OutputInv, StreamInv, NEW f \in Frames, Broadcast(f), UNCHANGED <<got, alive, conn>>,
         exit = "none",
         \/ f = Data(Pushed + 1) /\ Pushed' = Pushed + 1 /\ exit' = exit
         \/ f = Exited /\ Pushed' = Pushed /\ exit' # "none",
         NEW c \in Client
  PROVE  Served(c)' /\ queue'[c] \in Seq(Frames)
<1> DEFINE s == Stream(c)
<1>1. Served(c) /\ got[c] \in Seq(Frames) /\ queue[c] \in Seq(Frames)
  BY DEF StreamInv, StreamType
<1>2. s \in Seq(Frames)
  BY <1>1, ConcatProperties DEF Stream
<1>3. CASE c \in clients /\ alive[c]
  <2>1. queue'[c] = Append(queue[c], f) /\ got'[c] = got[c]
    BY <1>3 DEF Broadcast
  <2>2. Stream(c)' = Append(s, f)
    BY <1>1, <2>1, QueueGrows DEF Stream
  <2>3. ASSUME s # << >> PROVE Follows(Last(s), f)
    <3>1. Len(s) \in Nat \ {0}
      BY <1>2, <2>3, EmptySeq
    <3>2. Last(s) \in Frames /\ Last(s) # Exited
      <4>1. Len(s) \in 1 .. Len(s)
        BY <3>1
      <4>2. Unended(s)
        BY <1>1 DEF Served
      <4> QED BY <1>2, <4>1, <4>2, ElementOfSeq DEF Last, Unended
    <3>3. Last(s).upto = Pushed
      BY <1>1, <1>3, <2>3, <3>2 DEF Served, UpToDate
    <3>4. Last(s).kind # "exit"
      BY <3>2 DEF Frames
    <3> QED BY <3>3, <3>4 DEF Follows, Data, Exited
  <2>4. /\ Append(s, f) # << >> /\ Chain(Append(s, f)) /\ Last(Append(s, f)) = f
        /\ Unended(s) /\ f # Exited => Unended(Append(s, f))
    BY <1>1, <1>2, <2>3, ChainAppend DEF Served
  <2>5. exit' = "none" => f # Exited /\ Unended(s)
    BY <1>1 DEF Served, Data, Exited
  <2>6. f = Exited \/ f.upto = Pushed'
    BY DEF Data
  <2> QED BY <1>1, <2>1, <2>2, <2>4, <2>5, <2>6, AppendProperties DEF Served, UpToDate
<1>4. CASE ~(c \in clients /\ alive[c])
  <2>1. queue'[c] = queue[c] /\ got'[c] = got[c]
    BY <1>4 DEF Broadcast
  <2>2. Stream(c)' = s
    BY <2>1 DEF Stream
  <2>3. ~(c \in clients' /\ alive'[c])
    BY <1>4 DEF Broadcast
  <2> QED BY <1>1, <2>1, <2>2, <2>3 DEF Served
<1> QED BY <1>3, <1>4

(***************************************************************************)
(* The ring.                                                               *)
(***************************************************************************)
Kept == IF Pushed < Cap THEN Pushed ELSE Cap

LEMMA PushedType == OutputInv => Pushed \in Nat
  BY DEF OutputInv, OutputType, Pushed

LEMMA RingShape ==
  ASSUME OutputInv, RingIsTail
  PROVE  /\ Kept \in Nat /\ ring \in Seq(Nat) /\ Len(ring) = Kept
         /\ \A i \in 1 .. Kept : ring[i] = Pushed - Kept + i /\ ring[i] \in Nat
<1>1. Pushed \in Nat /\ Kept \in Nat /\ Kept <= Pushed
  BY PushedType, HolderAssumption DEF Kept
<1>2. ring = [i \in 1 .. Kept |-> Pushed - Kept + i]
  BY DEF RingIsTail, Kept
<1>3. \A i \in 1 .. Kept : ring[i] = Pushed - Kept + i /\ ring[i] \in Nat
  BY <1>1, <1>2
<1>4. ring \in [1 .. Kept -> Nat]
  BY <1>1, <1>2
<1> QED BY <1>1, <1>3, <1>4, SeqDef

LEMMA RingPushes ==
  ASSUME OutputInv, RingIsTail, ReaderPushes
  PROVE  RingIsTail' /\ Pushed' = Pushed + 1 /\ holding = Pushed + 1
<1>1. Pushed' = Pushed + 1 /\ holding = Pushed + 1 /\ Pushed \in Nat
  BY PushedType DEF ReaderPushes, Pushed, OutputInv, OutputType
<1> DEFINE all == Append(ring, holding)
<1>2. /\ Kept \in Nat /\ ring \in Seq(Nat) /\ Len(ring) = Kept
      /\ \A i \in 1 .. Kept : ring[i] = Pushed - Kept + i
  BY RingShape
<1>3. holding \in Nat
  BY <1>1
<1>4. /\ all \in Seq(Nat) /\ Len(all) = Kept + 1
      /\ \A i \in 1 .. Kept : all[i] = Pushed - Kept + i
      /\ all[Kept + 1] = Pushed + 1 /\ all # << >>
  BY <1>1, <1>2, <1>3, AppendProperties
<1>5. ring' = IF Len(all) > Cap THEN Tail(all) ELSE all
  BY DEF ReaderPushes, RingPush
<1> HIDE DEF all
<1> DEFINE kept == IF Pushed + 1 < Cap THEN Pushed + 1 ELSE Cap
<1>6. ring' = [i \in 1 .. kept |-> (Pushed + 1) - kept + i]
  <2>0. kept \in Nat
    BY <1>1, HolderAssumption
  <2> DEFINE next == [i \in 1 .. kept |-> (Pushed + 1) - kept + i]
  <2>1. /\ next \in Seq(Int) /\ Len(next) = kept
        /\ \A i \in 1 .. kept : next[i] = (Pushed + 1) - kept + i
    <3>1. next \in [1 .. kept -> Int]
      BY <1>1, <2>0
    <3> QED BY <2>0, <3>1, SeqDef
  <2> HIDE DEF next, kept
  <2>2. CASE Kept + 1 > Cap
    <3>1. Kept = Cap /\ kept = Cap
      BY <1>1, <1>2, <2>2, HolderAssumption DEF Kept, kept
    <3>2. ring' = Tail(all)
      BY <1>4, <1>5, <2>2
    <3>3. /\ Tail(all) \in Seq(Nat) /\ Len(Tail(all)) = Kept
          /\ \A i \in 1 .. Kept : Tail(all)[i] = all[i + 1]
      <4>1. Len(Tail(all)) = Len(all) - 1 /\ Tail(all) \in Seq(Nat)
            /\ \A i \in 1 .. Len(Tail(all)) : Tail(all)[i] = all[i + 1]
        BY <1>4, HeadTailProperties
      <4>2. Len(Tail(all)) = Kept
        BY <1>2, <1>4, <4>1
      <4> QED BY <4>1, <4>2
    <3>4. ASSUME NEW i \in 1 .. Kept PROVE Tail(all)[i] = next[i]
      <4>1. CASE i = Kept
        BY <1>1, <1>2, <1>4, <2>1, <3>1, <3>3, <4>1
      <4>2. CASE i # Kept
        <5>1. i + 1 \in 1 .. Kept
          BY <1>2, <4>2
        <5>2. all[i + 1] = Pushed - Kept + (i + 1)
          BY <1>4, <5>1
        <5> QED BY <1>1, <1>2, <2>1, <3>1, <3>3, <5>2
      <4> QED BY <4>1, <4>2
    <3>5. Tail(all) \in Seq(Int)
      BY <3>3, SeqMonotonic
    <3>6. Tail(all) = next
      BY <2>1, <3>1, <3>3, <3>4, <3>5, SeqEqual
    <3> QED BY <3>2, <3>6 DEF next
  <2>3. CASE ~(Kept + 1 > Cap)
    <3>1. Kept = Pushed /\ kept = Pushed + 1
      BY <1>1, <1>2, <2>3, HolderAssumption DEF Kept, kept
    <3>2. ring' = all
      BY <1>4, <1>5, <2>3
    <3>3. ASSUME NEW i \in 1 .. Kept + 1 PROVE all[i] = next[i]
      <4>1. CASE i = Kept + 1
        BY <1>1, <1>2, <1>4, <2>1, <3>1, <4>1
      <4>2. CASE i # Kept + 1
        <5>1. i \in 1 .. Kept
          BY <1>2, <4>2
        <5> QED BY <1>1, <1>2, <1>4, <2>1, <3>1, <5>1
      <4> QED BY <4>1, <4>2
    <3>4. all \in Seq(Int)
      BY <1>4, SeqMonotonic
    <3>5. all = next
      BY <1>4, <2>1, <3>1, <3>3, <3>4, SeqEqual
    <3> QED BY <3>2, <3>5 DEF next
  <2> QED BY <2>2, <2>3
<1> QED BY <1>1, <1>6 DEF RingIsTail, kept

\* What a client is restored from: the chunks of the ring, or a repaint.
LEMMA RestoredShape ==
  ASSUME OutputInv, RingIsTail, NEW how \in {"raw", "screen"}
  PROVE  /\ Restored(how) \in Seq(Frames) /\ Chain(Restored(how)) /\ Unended(Restored(how))
         /\ Restored(how) = << >> => Pushed = 0
         /\ Restored(how) # << >> => Last(Restored(how)).kind # "exit" /\ Last(Restored(how)).upto = Pushed
<1> DEFINE r == Restored(how)
<1>0. Pushed \in Nat
  BY PushedType
<1>1. CASE how = "screen"
  <2>1. r = <<Screen(Pushed)>> /\ Screen(Pushed) \in Frames /\ Screen(Pushed) # Exited
    BY <1>0, <1>1 DEF Restored, Screen, Frames, Exited
  <2>2. r \in Seq(Frames) /\ Len(r) = 1 /\ r[1] = Screen(Pushed)
    BY <2>1
  <2>3. Last(r) = Screen(Pushed)
    BY <2>2 DEF Last
  <2>4. r # << >>
    <3>1. Len(<< >>) # 1
      BY EmptySeq
    <3> QED BY <2>2, <3>1, Zenon
  <2> QED BY <2>1, <2>2, <2>3, <2>4 DEF Chain, Unended, Screen
<1>2. CASE how = "raw"
  <2>1. /\ Kept \in Nat /\ Len(ring) = Kept
        /\ \A i \in 1 .. Kept : ring[i] = Pushed - Kept + i /\ ring[i] \in Nat
    BY RingShape
  <2>2. r = [i \in 1 .. Kept |-> Data(ring[i])]
    BY <1>2, <2>1 DEF Restored
  <2>3. \A i \in 1 .. Kept : r[i] = Data(ring[i]) /\ r[i] \in Frames /\ r[i] # Exited
    BY <2>1, <2>2 DEF Data, Frames, Exited
  <2>4. r \in [1 .. Kept -> Frames]
    BY <2>2, <2>3
  <2>5. r \in Seq(Frames) /\ Len(r) = Kept
    BY <2>1, <2>4, SeqDef
  <2> HIDE DEF r
  <2>6. Unended(r)
    BY <2>3, <2>5 DEF Unended
  <2>7. Chain(r)
    <3> SUFFICES ASSUME NEW i \in 1 .. Kept - 1 PROVE Follows(r[i], r[i + 1])
      BY <2>5 DEF Chain
    <3>1. i \in 1 .. Kept /\ i + 1 \in 1 .. Kept
      BY <2>1
    <3>2. r[i] = Data(Pushed - Kept + i) /\ r[i + 1] = Data(Pushed - Kept + (i + 1))
      BY <2>1, <2>3, <3>1
    <3>3. Pushed - Kept + (i + 1) = (Pushed - Kept + i) + 1
      BY <1>0, <2>1
    <3> QED BY <3>2, <3>3 DEF Follows, Data
  <2>8. Kept = 0 => Pushed = 0
    BY <1>0, HolderAssumption DEF Kept
  <2>9. ASSUME r # << >> PROVE Last(r).kind # "exit" /\ Last(r).upto = Pushed
    <3>1. Kept \in 1 .. Kept
      BY <2>1, <2>5, <2>9, EmptySeq
    <3>2. r[Kept] = Data(Pushed - Kept + Kept)
      BY <2>1, <2>3, <3>1
    <3> QED BY <1>0, <2>1, <2>5, <3>2 DEF Last, Data
  <2>10. r = << >> => Pushed = 0
    BY <2>5, <2>8, EmptySeq
  <2> QED BY <2>5, <2>6, <2>7, <2>9, <2>10 DEF r
<1> QED BY <1>1, <1>2

LEMMA StreamRegister ==
  ASSUME OutputInv, StreamInv, NEW c \in Client, Register(c)
  PROVE  StreamInv'
<1>1. PICK how \in {"raw", "screen"} :
        queue' = [queue EXCEPT ![c] = Restored(how) \o IF exit # "none" THEN <<Exited>> ELSE << >>]
  BY DEF Register
<1>2. /\ conn[c] = "dialled" /\ conn' = [conn EXCEPT ![c] = "granted"]
      /\ alive' = [alive EXCEPT ![c] = TRUE] /\ clients' = clients \cup {c}
      /\ UNCHANGED <<got, exit, ring, holding, reader>>
  BY DEF Register, streamVars
<1>3. Pushed' = Pushed
  BY <1>2 DEF Pushed
<1> DEFINE r == Restored(how)
           all == r \o IF exit # "none" THEN <<Exited>> ELSE << >>
<1>4. /\ r \in Seq(Frames) /\ Chain(r) /\ Unended(r) /\ (r = << >> => Pushed = 0)
      /\ r # << >> => Last(r).kind # "exit" /\ Last(r).upto = Pushed
  BY RestoredShape DEF StreamInv
<1> HIDE DEF r
<1>5. Exited \in Frames
  BY DEF Frames
<1>6. /\ all \in Seq(Frames) /\ Chain(all)
      /\ exit = "none" => Unended(all)
      /\ IF all = << >> THEN Pushed = 0 /\ exit = "none"
         ELSE Last(all) = Exited \/ Last(all).upto = Pushed
  <2>1. CASE exit # "none"
    <3>1. all = Append(r, Exited)
      BY <1>4, <1>5, <2>1, AppendIsConcat
    <3>2. r # << >> => Follows(Last(r), Exited)
      BY <1>4 DEF Follows
    <3>3. all \in Seq(Frames) /\ all # << >> /\ Chain(all) /\ Last(all) = Exited
      BY <1>4, <1>5, <3>1, <3>2, ChainAppend
    <3> QED BY <2>1, <3>3
  <2>2. CASE exit = "none"
    <3>1. all = r
      BY <1>4, <2>2, ConcatEmptySeq
    <3> QED BY <1>4, <2>2, <3>1
  <2> QED BY <2>1, <2>2
<1>7. queue'[c] = all /\ queue' = [queue EXCEPT ![c] = all]
  BY <1>1 DEF StreamInv, StreamType, r
<1> HIDE DEF all
<1>8. StreamType'
  BY <1>2, <1>6, <1>7 DEF StreamInv, StreamType
<1>9. RingIsTail'
  BY <1>2, <1>3 DEF StreamInv, RingIsTail
<1>10. ASSUME NEW d \in Client PROVE Served(d)'
  <2>1. CASE d = c
    <3>1. got'[c] = << >>
      BY <1>2 DEF StreamInv, Served
    <3>2. Stream(c)' = all
      BY <1>6, <1>7, <3>1, ConcatEmptySeq DEF Stream
    <3> QED BY <1>2, <1>3, <1>6, <2>1, <3>1, <3>2 DEF Served, UpToDate
  <2>2. CASE d # c
    <3>1. Stream(d)' = Stream(d)
      BY <1>2, <1>7, <2>2 DEF Stream, StreamInv, StreamType
    <3> QED BY <1>2, <1>3, <2>2, <3>1, ServedFrame DEF StreamInv, StreamType
  <2> QED BY <2>1, <2>2
<1> QED BY <1>8, <1>9, <1>10 DEF StreamInv

\* Steps that send nothing: no stream, and nothing it is compared with, changes.
LEMMA StreamStill ==
  ASSUME StreamInv, StreamType', UNCHANGED <<ring, exit>>, Pushed' = Pushed,
         \A c \in Client :
           /\ Stream(c)' = Stream(c)
           /\ c \in clients' /\ alive'[c] => c \in clients /\ alive[c]
           /\ conn'[c] \in {"none", "dialled"} => conn[c] \in {"none", "dialled"} /\ got'[c] = got[c]
  PROVE  StreamInv'
<1>1. RingIsTail'
  BY DEF StreamInv, RingIsTail
<1> QED BY <1>1, ServedFrame DEF StreamInv

LEMMA StreamSilent ==
  ASSUME StreamInv, OutputInv, NEW c \in Client,
         \/ Reply(c) \/ ResizeScreen(c) \/ Dial(c) \/ PeerLeaves(c) \/ ResizePty(c) \/ Signal(c) \/ Detach(c)
  PROVE  StreamInv'
<1>1. /\ UNCHANGED <<queue, got, ring, exit>>
      /\ Pushed' = Pushed
  BY DEF Reply, ResizeScreen, Dial, PeerLeaves, ResizePty, Signal, Detach, Pushed, OutputInv,
         OutputType, streamVars, frameVars
<1>2. \/ UNCHANGED conn
      \/ conn[c] = "none" /\ conn' = [conn EXCEPT ![c] = "dialled"]
      \/ \E to \in {"serving", "ended"} : conn' = [conn EXCEPT ![c] = to]
  BY DEF Reply, ResizeScreen, Dial, PeerLeaves, ResizePty, Signal, Detach, clientVars
<1>3. alive' = alive \/ alive' = [alive EXCEPT ![c] = FALSE]
  BY DEF Reply, ResizeScreen, Dial, PeerLeaves, ResizePty, Signal, Detach, frameVars
<1>4. clients' \subseteq clients
  BY DEF Reply, ResizeScreen, Dial, PeerLeaves, ResizePty, Signal, Detach
<1>5. StreamType'
  BY <1>1, <1>2, <1>3, <1>4 DEF StreamInv, StreamType
<1>6. ASSUME NEW d \in Client
      PROVE  /\ Stream(d)' = Stream(d)
             /\ d \in clients' /\ alive'[d] => d \in clients /\ alive[d]
             /\ conn'[d] \in {"none", "dialled"} => conn[d] \in {"none", "dialled"} /\ got'[d] = got[d]
  <2>1. Stream(d)' = Stream(d)
    BY <1>1 DEF Stream
  <2>2. alive'[d] => alive[d]
    BY <1>3 DEF StreamInv, StreamType
  <2>3. conn'[d] \in {"none", "dialled"} => conn[d] \in {"none", "dialled"}
    BY <1>2 DEF StreamInv, StreamType
  <2> QED BY <1>1, <1>4, <2>1, <2>2, <2>3
<1> QED BY <1>1, <1>5, <1>6, StreamStill

LEMMA StreamDeliver ==
  ASSUME StreamInv, NEW c \in Client, Deliver(c)
  PROVE  StreamInv'
<1>1. UNCHANGED <<ring, exit, holding, reader, clients, conn>> /\ queue[c] # << >>
      /\ conn[c] \in {"serving", "ended"}
  BY DEF Deliver, streamVars, clientVars
<1>2. Pushed' = Pushed
  BY <1>1 DEF Pushed
<1>3. CASE /\ got' = [got EXCEPT ![c] = Append(@, Head(queue[c]))]
           /\ queue' = [queue EXCEPT ![c] = Tail(@)] /\ UNCHANGED alive
  <2>1. /\ Append(got[c], Head(queue[c])) \in Seq(Frames) /\ Tail(queue[c]) \in Seq(Frames)
        /\ Append(got[c], Head(queue[c])) \o Tail(queue[c]) = got[c] \o queue[c]
    BY <1>1, FrameMoves DEF StreamInv, StreamType
  <2>2. /\ got'[c] = Append(got[c], Head(queue[c])) /\ queue'[c] = Tail(queue[c])
        /\ \A d \in Client \ {c} : got'[d] = got[d] /\ queue'[d] = queue[d]
    BY <1>3 DEF StreamInv, StreamType
  <2>3. StreamType'
    BY <1>1, <1>3, <2>1 DEF StreamInv, StreamType
  <2>4. ASSUME NEW d \in Client PROVE Stream(d)' = Stream(d)
    BY <2>1, <2>2 DEF Stream
  <2>5. \A d \in Client : conn'[d] \in {"none", "dialled"} => got'[d] = got[d]
    BY <1>1, <2>2
  <2> QED BY <1>1, <1>2, <1>3, <2>3, <2>4, <2>5, StreamStill
<1>4. CASE alive' = [alive EXCEPT ![c] = FALSE] /\ UNCHANGED <<got, queue>>
  <2>1. StreamType' /\ \A d \in Client : alive'[d] => alive[d]
    BY <1>1, <1>4 DEF StreamInv, StreamType
  <2>2. \A d \in Client : Stream(d)' = Stream(d)
    BY <1>4 DEF Stream
  <2> QED BY <1>1, <1>2, <1>4, <2>1, <2>2, StreamStill
<1> QED BY <1>3, <1>4 DEF Deliver

\* The two broadcasts.
LEMMA StreamReader ==
  ASSUME OutputInv, StreamInv, ReaderPushes \/ ReaderEmitsExit
  PROVE  StreamInv'
<1> DEFINE f == IF ReaderPushes THEN Data(Pushed + 1) ELSE Exited
<1>1. Pushed \in Nat /\ f \in Frames
  BY PushedType DEF Frames, Data
<1>2. UNCHANGED <<got, alive, conn>> /\ clients' \subseteq clients /\ exit = "none"
  BY DEF ReaderPushes, ReaderEmitsExit, clientVars, Broadcast, OutputInv
<1>3. CASE ReaderPushes
  <2>1. RingIsTail' /\ Pushed' = Pushed + 1 /\ holding = Pushed + 1
    BY <1>3, RingPushes DEF StreamInv
  <2>2. Broadcast(Data(Pushed + 1)) /\ exit' = exit
    BY <1>3, <2>1 DEF ReaderPushes
  <2>3. \A c \in Client : Served(c)' /\ queue'[c] \in Seq(Frames)
    BY <1>1, <1>2, <1>3, <2>1, <2>2, ServedBroadcast
  <2>4. queue' \in [Client -> Seq(Frames)]
    BY <2>2, <2>3 DEF Broadcast
  <2> QED BY <1>2, <2>1, <2>3, <2>4 DEF StreamInv, StreamType
<1>4. CASE ReaderEmitsExit
  <2>1. /\ Broadcast(Exited) /\ exit' # "none" /\ UNCHANGED ring
        /\ Pushed' = Pushed
    BY <1>4 DEF ReaderEmitsExit, Pushed
  <2>2. Exited \in Frames
    BY DEF Frames
  <2>3. \A c \in Client : Served(c)' /\ queue'[c] \in Seq(Frames)
    BY <1>2, <2>1, <2>2, ServedBroadcast
  <2>4. queue' \in [Client -> Seq(Frames)]
    BY <2>1, <2>3 DEF Broadcast
  <2>5. RingIsTail'
    BY <2>1 DEF StreamInv, RingIsTail
  <2> QED BY <1>2, <2>3, <2>4, <2>5 DEF StreamInv, StreamType
<1> QED BY <1>3, <1>4

\* The child, the watcher and the other steps of the reader touch no stream.
LEMMA PtySide ==
  ASSUME OutputInv,
         \/ ChildStarts \/ ChildWrites \/ ChildExits \/ SlaveCloses \/ WatcherReaps
         \/ ReaderReads \/ ReaderMeetsEof \/ Quit
  PROVE  UNCHANGED <<queue, got, ring, exit, alive, clients, conn>> /\ Pushed' = Pushed
<1> USE DEF streamVars, clientVars, frameVars, Pushed
<1>1. CASE ReaderReads
  <2>1. holding \in Nat /\ holding' = holding + 1 /\ reader = "reading" /\ reader' = "pushing"
    BY <1>1 DEF ReaderReads, OutputInv, OutputType
  <2>2. Pushed' = Pushed
    BY <2>1
  <2> QED BY <1>1, <2>2 DEF ReaderReads
<1>2. CASE ReaderMeetsEof
  BY <1>2 DEF ReaderMeetsEof
<1>3. CASE WatcherReaps
  BY <1>3 DEF WatcherReaps
<1>4. CASE ChildStarts
  BY <1>4 DEF ChildStarts
<1>5. CASE ChildWrites
  BY <1>5 DEF ChildWrites
<1>6. CASE ChildExits
  BY <1>6 DEF ChildExits
<1>7. CASE SlaveCloses
  BY <1>7 DEF SlaveCloses
<1>8. CASE Quit
  BY <1>8 DEF Quit
<1> QED BY <1>1, <1>2, <1>3, <1>4, <1>5, <1>6, <1>7, <1>8

LEMMA StreamNext == OutputInv /\ StreamInv /\ [Next]_vars => StreamInv'
<1> SUFFICES ASSUME OutputInv, StreamInv, [Next]_vars PROVE StreamInv'
  OBVIOUS
<1>1. CASE UNCHANGED vars
  <2>1. StreamType' /\ UNCHANGED <<ring, exit, clients, alive, conn, got>> /\ Pushed' = Pushed
    BY <1>1 DEF vars, StreamInv, StreamType, Pushed
  <2>2. \A c \in Client : Stream(c)' = Stream(c)
    BY <1>1 DEF vars, Stream
  <2> QED BY <2>1, <2>2, StreamStill
<1>2. CASE ReaderPushes \/ ReaderEmitsExit
  BY <1>2, StreamReader
<1>3. CASE \/ ChildStarts \/ ChildWrites \/ ChildExits \/ SlaveCloses \/ WatcherReaps
           \/ ReaderReads \/ ReaderMeetsEof \/ Quit
  <2>1. UNCHANGED <<queue, got, ring, exit, alive, clients, conn>> /\ Pushed' = Pushed
    BY <1>3, PtySide
  <2>2. StreamType'
    BY <2>1 DEF StreamInv, StreamType
  <2>3. \A c \in Client : Stream(c)' = Stream(c)
    BY <2>1 DEF Stream
  <2> QED BY <2>1, <2>2, <2>3, StreamStill
<1>4. ASSUME NEW c \in Client, Register(c) PROVE StreamInv'
  BY <1>4, StreamRegister
<1>5. ASSUME NEW c \in Client, Deliver(c) PROVE StreamInv'
  BY <1>5, StreamDeliver
<1>6. ASSUME NEW c \in Client,
             \/ Reply(c) \/ ResizeScreen(c) \/ Dial(c) \/ PeerLeaves(c)
             \/ ResizePty(c) \/ Signal(c) \/ Detach(c)
      PROVE  StreamInv'
  BY <1>6, StreamSilent
<1> QED BY <1>1, <1>2, <1>3, <1>4, <1>5, <1>6 DEF Next, Service, Handler

\* However many clients attach, detach and vanish while the child prints, each
\* one's stream has every chunk since its restore once and in order, and the exit
\* last; and the ring has the latest chunks (register, broadcast, push).
THEOREM StreamsAreByteExact == Spec => []ByteExact
<1>1. StreamInv => ByteExact
  BY DEF StreamInv, Served, Chain, UpToDate, ByteExact
<1>2. Init => OutputInv /\ StreamInv
  BY OutputInit, StreamInit
<1>3. OutputInv /\ StreamInv /\ [Next]_vars => OutputInv' /\ StreamInv'
  BY OutputNext, StreamNext
<1> QED BY <1>1, <1>2, <1>3, PTL DEF Spec
=============================================================================
