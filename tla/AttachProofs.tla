------------------------------ MODULE AttachProofs ------------------------------
(***************************************************************************)
(* The wire protocol, for every number and every payload; an attacher's    *)
(* terminal; and what clients take for the child's end, for every set of   *)
(* clients, every end of the child and every cut a dead holder makes.      *)
(***************************************************************************)
EXTENDS Attach, SequenceTheorems, TLAPS

LEMMA Le32Type ==
  ASSUME NEW n \in Int
  PROVE  Le32(n) \in Seq(Byte) /\ Len(Le32(n)) = 4
<1>1. /\ n % 256 \in Byte /\ (n \div 256) % 256 \in Byte
      /\ (n \div 65536) % 256 \in Byte /\ (n \div 16777216) % 256 \in Byte
  BY SMT DEF Byte
<1> DEFINE a == n % 256
           b == (n \div 256) % 256
           c == (n \div 65536) % 256
           d == (n \div 16777216) % 256
<1>2. Le32(n) = <<a, b, c, d>>
  BY SMT DEF Le32
<1>3. a \in Byte /\ b \in Byte /\ c \in Byte /\ d \in Byte
  BY <1>1, SMT
<1> HIDE DEF a, b, c, d
<1>4. <<a, b, c, d>> \in Seq(Byte) /\ Len(<<a, b, c, d>>) = 4
  BY <1>3
<1> QED BY <1>2, <1>4

LEMMA Le32RoundTrip ==
  ASSUME NEW n \in Int, 0 <= n, n <= MaxI32
  PROVE  FromLe32(Le32(n)) = n
  BY SMT DEF Le32, FromLe32, MaxI32

LEMMA I32RoundTrip ==
  ASSUME NEW n \in Int, MinI32 <= n, n <= MaxI32
  PROVE  I32(Le32(n)) = n
  BY SMT DEF Le32, I32, MaxI32, MinI32

LEMMA MaxPayloadType == MaxPayload \in Int /\ MaxI32 \in Int /\ MaxPayload <= MaxI32
<1>1. MaxI32 \in Int
  BY SMT DEF MaxI32
<1> QED BY <1>1, FramesAssumption

\* A length within the limit fits four bytes.
LEMMA LengthFits ==
  ASSUME NEW n \in Nat, n <= MaxPayload
  PROVE  FromLe32(Le32(n)) = n
<1>1. 0 <= n /\ n <= MaxI32
  BY MaxPayloadType
<1> QED BY <1>1, Le32RoundTrip

\* Concatenation, with the lengths at hand.
LEMMA Joined ==
  ASSUME NEW s \in Seq(Byte), NEW t \in Seq(Byte)
  PROVE  /\ s \o t \in Seq(Byte) /\ Len(s \o t) = Len(s) + Len(t)
         /\ \A i \in 1 .. Len(s) : (s \o t)[i] = s[i]
         /\ \A i \in 1 .. Len(t) : (s \o t)[Len(s) + i] = t[i]
<1> DEFINE u == s \o t
<1>1. s \o t \in Seq(Byte) /\ Len(s \o t) = Len(s) + Len(t)
      /\ \A i \in 1 .. Len(s) + Len(t) :
           (s \o t)[i] = IF i <= Len(s) THEN s[i] ELSE t[i - Len(s)]
  BY ConcatProperties, Zenon
<1>2. u \in Seq(Byte) /\ Len(u) = Len(s) + Len(t)
      /\ \A i \in 1 .. Len(s) + Len(t) : u[i] = IF i <= Len(s) THEN s[i] ELSE t[i - Len(s)]
  BY <1>1, Zenon
<1> HIDE DEF u
<1>3. Len(s) \in Nat /\ Len(t) \in Nat
  BY LenProperties
<1>4. ASSUME NEW i \in 1 .. Len(s) PROVE u[i] = s[i]
  BY <1>2, <1>3
<1>5. ASSUME NEW i \in 1 .. Len(t) PROVE u[Len(s) + i] = t[i]
  <2>1. Len(s) + i \in 1 .. Len(s) + Len(t) /\ ~(Len(s) + i <= Len(s)) /\ (Len(s) + i) - Len(s) = i
    BY <1>3
  <2> QED BY <2>1, <1>2
<1> QED BY <1>2, <1>4, <1>5, Zenon DEF u

\* The first byte, then the number: how a frame and an exit begin.
LEMMA Headed ==
  ASSUME NEW first \in Byte, NEW n \in Int
  PROVE  /\ <<first>> \o Le32(n) \in Seq(Byte) /\ Len(<<first>> \o Le32(n)) = 5
         /\ (<<first>> \o Le32(n))[1] = first
         /\ \A i \in 1 .. 4 : (<<first>> \o Le32(n))[i + 1] = Le32(n)[i]
<1> DEFINE s == <<first>> \o Le32(n)
<1> DEFINE one == <<first>>
           num == Le32(n)
<1>1. one \in Seq(Byte) /\ Len(one) = 1 /\ one[1] = first
  OBVIOUS
<1>2. num \in Seq(Byte) /\ Len(num) = 4
  BY Le32Type
<1>3. s = one \o num
  OBVIOUS
<1> HIDE DEF one, num, s
<1>4. /\ s \in Seq(Byte) /\ Len(s) = Len(one) + Len(num)
      /\ \A i \in 1 .. Len(one) : s[i] = one[i]
      /\ \A i \in 1 .. Len(num) : s[Len(one) + i] = num[i]
  <2>1. /\ one \o num \in Seq(Byte) /\ Len(one \o num) = Len(one) + Len(num)
        /\ \A i \in 1 .. Len(one) : (one \o num)[i] = one[i]
        /\ \A i \in 1 .. Len(num) : (one \o num)[Len(one) + i] = num[i]
    BY <1>1, <1>2, Joined, Zenon
  <2> QED BY <2>1, <1>3, Zenon
<1>5. ASSUME NEW i \in 1 .. 4 PROVE s[i + 1] = num[i]
  <2>1. i + 1 = Len(one) + i /\ i \in 1 .. Len(num)
    BY <1>1, <1>2
  <2> QED BY <1>4, <2>1
<1>6. s[1] = first /\ Len(s) = 5
  BY <1>1, <1>2, <1>4
<1> QED BY <1>4, <1>5, <1>6, Zenon DEF num, s

LEMMA TailNumber ==
  ASSUME NEW p \in Seq(Byte), Len(p) = 5, NEW n \in Int, MinI32 <= n, n <= MaxI32,
         \A i \in 1 .. 4 : p[i + 1] = Le32(n)[i]
  PROVE  I32(Tail(p)) = n
<1> DEFINE t == Tail(p)
<1>1. p # << >>
  OBVIOUS
<1>2. Len(t) = Len(p) - 1 /\ \A i \in 1 .. Len(t) : t[i] = p[i + 1]
  BY <1>1, HeadTailProperties, Zenon
<1> HIDE DEF t
<1>3. ASSUME NEW i \in 1 .. 4 PROVE t[i] = Le32(n)[i]
  <2>1. i \in 1 .. Len(t)
    BY <1>2
  <2> QED BY <1>2, <2>1
<1>4. t[1] = Le32(n)[1] /\ t[2] = Le32(n)[2] /\ t[3] = Le32(n)[3] /\ t[4] = Le32(n)[4]
  BY <1>3
<1>5. I32(t) = I32(Le32(n))
  BY <1>4, SMT DEF I32
<1> QED BY <1>5, I32RoundTrip DEF t

\* What a holder says of how its child ended is what the client hears, for every
\* exit code and signal an i32 can hold (Exit::to_payload, Exit::from_payload).
THEOREM ExitRoundTrip ==
  ASSUME NEW e \in [by : {"code", "signal"}, n : Int], MinI32 <= e.n, e.n <= MaxI32
  PROVE  FromPayload(ToPayload(e)) = e
<1> DEFINE first == IF e.by = "code" THEN 0 ELSE 1
           p == ToPayload(e)
<1>1. first \in Byte /\ first \in {0, 1} /\ e.n \in Int
  BY SMT DEF Byte
<1>2. p = <<first>> \o Le32(e.n)
  BY DEF ToPayload
<1> HIDE DEF p, first
<1>3. p \in Seq(Byte) /\ Len(p) = 5 /\ p[1] = first /\ \A i \in 1 .. 4 : p[i + 1] = Le32(e.n)[i]
  <2>1. /\ <<first>> \o Le32(e.n) \in Seq(Byte) /\ Len(<<first>> \o Le32(e.n)) = 5
        /\ (<<first>> \o Le32(e.n))[1] = first
        /\ \A i \in 1 .. 4 : (<<first>> \o Le32(e.n))[i + 1] = Le32(e.n)[i]
    BY <1>1, Headed, Zenon
  <2> QED BY <2>1, <1>2, Zenon
<1>6. I32(Tail(p)) = e.n
  BY <1>1, <1>3, TailNumber, Zenon
<1>7. CASE e.by = "code"
  <2>1. FromPayload(p) = Code(e.n)
    BY <1>1, <1>3, <1>6, <1>7 DEF FromPayload, first
  <2> QED BY <2>1, <1>7 DEF Code, p
<1>8. CASE e.by = "signal"
  <2>1. FromPayload(p) = Killed(e.n)
    BY <1>1, <1>3, <1>6, <1>8 DEF FromPayload, first
  <2> QED BY <2>1, <1>8 DEF Killed, p
<1> QED BY <1>7, <1>8

-----------------------------------------------------------------------------
LEMMA EncodeBytes ==
  ASSUME NEW kind \in Byte, NEW payload \in Seq(Byte),
         NEW frame, frame = Encode(kind, payload)
  PROVE  /\ frame \in Seq(Byte) /\ Len(frame) = 5 + Len(payload) /\ frame[1] = kind
         /\ \A i \in 1 .. 4 : frame[i + 1] = Le32(Len(payload))[i]
         /\ \A i \in 1 .. Len(payload) : frame[5 + i] = payload[i]
<1> DEFINE head == <<kind>> \o Le32(Len(payload))
<1>1. Len(payload) \in Nat /\ Len(payload) \in Int
  BY LenProperties
<1>2. head \in Seq(Byte) /\ Len(head) = 5 /\ head[1] = kind
      /\ \A i \in 1 .. 4 : head[i + 1] = Le32(Len(payload))[i]
  BY <1>1, Headed, Zenon
<1>3. frame = head \o payload
  <2>1. <<kind>> \in Seq(Byte) /\ Le32(Len(payload)) \in Seq(Byte)
    BY <1>1, Le32Type
  <2> QED BY <2>1, ConcatAssociative DEF Encode
<1> HIDE DEF head
<1>4. /\ frame \in Seq(Byte) /\ Len(frame) = Len(head) + Len(payload)
      /\ \A i \in 1 .. Len(head) : frame[i] = head[i]
      /\ \A i \in 1 .. Len(payload) : frame[Len(head) + i] = payload[i]
  <2>1. /\ head \o payload \in Seq(Byte) /\ Len(head \o payload) = Len(head) + Len(payload)
        /\ \A i \in 1 .. Len(head) : (head \o payload)[i] = head[i]
        /\ \A i \in 1 .. Len(payload) : (head \o payload)[Len(head) + i] = payload[i]
    BY <1>2, Joined, Zenon
  <2> QED BY <2>1, <1>3, Zenon
<1>5. frame[1] = kind
  BY <1>2, <1>4
<1>6. ASSUME NEW i \in 1 .. 4 PROVE frame[i + 1] = Le32(Len(payload))[i]
  <2>1. i + 1 \in 1 .. Len(head)
    BY <1>2
  <2> QED BY <2>1, <1>2, <1>4
<1> QED BY <1>2, <1>4, <1>5, <1>6

\* The length a reader finds in bytes that begin like a frame.
LEMMA LengthRead ==
  ASSUME NEW payload \in Seq(Byte), Len(payload) <= MaxPayload,
         NEW bytes \in Seq(Byte), Len(bytes) >= 5,
         \A i \in 1 .. 4 : bytes[i + 1] = Le32(Len(payload))[i]
  PROVE  FromLe32(After(bytes, 1)) = Len(payload)
<1>1. Len(payload) \in Nat /\ Len(bytes) \in Nat
  BY LenProperties
<1>2. \A i \in 1 + 1 .. Len(bytes) : bytes[i] \in Byte
  BY <1>1, ElementOfSeq
<1>3. \A i \in 1 .. Len(bytes) - 2 + 1 : SubSeq(bytes, 1 + 1, Len(bytes))[i] = bytes[2 + i - 1]
  BY <1>1, <1>2, SubSeqProperties
<1>4. ASSUME NEW i \in 1 .. 4 PROVE After(bytes, 1)[i] = Le32(Len(payload))[i]
  <2>1. i \in 1 .. Len(bytes) - 2 + 1 /\ 2 + i - 1 = i + 1
    BY <1>1
  <2> QED BY <2>1, <1>3 DEF After
<1>5. FromLe32(After(bytes, 1)) = FromLe32(Le32(Len(payload)))
  <2>1. /\ After(bytes, 1)[1] = Le32(Len(payload))[1] /\ After(bytes, 1)[2] = Le32(Len(payload))[2]
        /\ After(bytes, 1)[3] = Le32(Len(payload))[3] /\ After(bytes, 1)[4] = Le32(Len(payload))[4]
    BY <1>4
  <2> QED BY <2>1, SMT DEF FromLe32
<1> QED BY <1>1, <1>5, LengthFits

\* A frame on the wire is read back as it was written, whatever follows it
\* (encode, read_frame).
THEOREM FrameRoundTrip ==
  ASSUME NEW kind \in Byte, NEW payload \in Seq(Byte), Len(payload) <= MaxPayload,
         NEW rest \in Seq(Byte)
  PROVE  ReadFrame(Encode(kind, payload) \o rest) =
           [is |-> "frame", kind |-> kind, payload |-> payload, rest |-> rest]
<1> DEFINE frame == Encode(kind, payload)
           bytes == frame \o rest
           m == Len(payload)
<1>1. m \in Nat /\ Len(rest) \in Nat
  BY LenProperties
<1>2. /\ frame \in Seq(Byte) /\ Len(frame) = 5 + m /\ frame[1] = kind
      /\ \A i \in 1 .. 4 : frame[i + 1] = Le32(m)[i]
      /\ \A i \in 1 .. m : frame[5 + i] = payload[i]
  BY EncodeBytes
<1> HIDE DEF frame
<1>11. /\ bytes \in Seq(Byte) /\ Len(bytes) = Len(frame) + Len(rest)
       /\ \A i \in 1 .. Len(frame) : bytes[i] = frame[i]
       /\ \A i \in 1 .. Len(rest) : bytes[Len(frame) + i] = rest[i]
  BY <1>2, Joined, Zenon
<1> HIDE DEF bytes
<1>3. /\ bytes \in Seq(Byte) /\ Len(bytes) = (5 + m) + Len(rest)
      /\ \A i \in 1 .. 5 + m : bytes[i] = frame[i]
      /\ \A i \in 1 .. Len(rest) : bytes[(5 + m) + i] = rest[i]
  BY <1>2, <1>11
<1>4. bytes[1] = kind /\ \A i \in 1 .. 4 : bytes[i + 1] = Le32(m)[i]
  BY <1>1, <1>2, <1>3
<1>5. FromLe32(After(bytes, 1)) = m
  BY <1>1, <1>3, <1>4, LengthRead
<1>6. SubSeq(bytes, 6, 5 + m) = payload
  <2>1. \A i \in 6 .. 5 + m : bytes[i] \in Byte
    BY <1>1, <1>3, ElementOfSeq
  <2>2. /\ SubSeq(bytes, 6, 5 + m) \in Seq(Byte)
        /\ Len(SubSeq(bytes, 6, 5 + m)) = m
        /\ \A i \in 1 .. m : SubSeq(bytes, 6, 5 + m)[i] = bytes[5 + i]
    BY <1>1, <2>1, SubSeqProperties
  <2>3. ASSUME NEW i \in 1 .. m PROVE bytes[5 + i] = payload[i]
    BY <1>1, <1>2, <1>3
  <2> QED BY <2>2, <2>3, SeqEqual
<1>7. After(bytes, 5 + m) = rest
  <2>1. \A i \in 5 + m + 1 .. Len(bytes) : bytes[i] \in Byte
    BY <1>1, <1>3, ElementOfSeq
  <2>2. /\ After(bytes, 5 + m) \in Seq(Byte)
        /\ Len(After(bytes, 5 + m)) = Len(rest)
        /\ \A i \in 1 .. Len(rest) : After(bytes, 5 + m)[i] = bytes[5 + m + i]
    BY <1>1, <1>3, <2>1, SubSeqProperties DEF After
  <2> QED BY <1>3, <2>2, SeqEqual
<1>8. bytes # << >> /\ ~(Len(bytes) < 5) /\ ~(m > MaxPayload) /\ ~(Len(bytes) < 5 + m)
  BY <1>1, <1>3, MaxPayloadType, EmptySeq
<1>9. ReadFrame(bytes) = [is |-> "frame", kind |-> kind, payload |-> payload, rest |-> rest]
  BY <1>4, <1>5, <1>6, <1>7, <1>8 DEF ReadFrame
<1> QED BY <1>9 DEF bytes, frame

\* A frame cut short is never taken for another frame, nor for the end of the
\* stream: the reader hears of an error (read_exact).
THEOREM TornFrameIsBad ==
  ASSUME NEW kind \in Byte, NEW payload \in Seq(Byte), Len(payload) <= MaxPayload,
         NEW n \in 1 .. 4 + Len(payload)
  PROVE  ReadFrame(Starting(Encode(kind, payload), n)).is = "bad"
<1> DEFINE frame == Encode(kind, payload)
           bytes == Starting(frame, n)
<1>1. Len(payload) \in Nat
  BY LenProperties
<1>2. /\ frame \in Seq(Byte) /\ Len(frame) = 5 + Len(payload)
      /\ \A i \in 1 .. 4 : frame[i + 1] = Le32(Len(payload))[i]
  BY EncodeBytes
<1> HIDE DEF frame
<1>3. bytes \in Seq(Byte) /\ Len(bytes) = n /\ \A i \in 1 .. n : bytes[i] = frame[i]
  <2>1. \A i \in 1 .. n : frame[i] \in Byte
    BY <1>1, <1>2, ElementOfSeq
  <2> QED BY <1>1, <2>1, SubSeqProperties DEF Starting
<1> HIDE DEF bytes
<1>4. bytes # << >> /\ n \in Nat
  BY <1>1, <1>3, EmptySeq
<1>7. BadFrame.is = "bad"
  BY DEF BadFrame, NoFrame
<1>5. CASE n < 5
  <2>1. ReadFrame(bytes) = BadFrame
    BY <1>3, <1>4, <1>5 DEF ReadFrame
  <2> QED BY <2>1, <1>7 DEF bytes, frame
<1>6. CASE n >= 5
  <2>1. \A i \in 1 .. 4 : bytes[i + 1] = Le32(Len(payload))[i]
    BY <1>2, <1>3, <1>4, <1>6
  <2>2. FromLe32(After(bytes, 1)) = Len(payload)
    BY <1>3, <1>6, <2>1, LengthRead
  <2>3. Len(bytes) < 5 + Len(payload)
    BY <1>1, <1>3, <1>4
  <2>4. ReadFrame(bytes) = BadFrame
    BY <1>4, <2>2, <2>3 DEF ReadFrame
  <2> QED BY <2>4, <1>7 DEF bytes, frame
<1> QED BY <1>4, <1>5, <1>6 DEF frame, bytes

(***************************************************************************)
(* The terminal of an attacher.                                            *)
(***************************************************************************)
Place == {"idle", "dialled", "granted", "raw", "handling", "jiggling", "looping", "returning", "gone"}

\* The places between entering raw mode and leaving it.
Within == {"raw", "handling", "jiggling", "looping", "returning"}

Shape ==
  /\ at \in [Client -> Place] /\ role \in [Client -> {None, "reader", "writer"}]
  /\ tty \in [Human -> {"cooked", "raw"}] /\ greeting \subseteq Client /\ serving \subseteq Client

RawWithin == \A h \in Human : tty[h] = "raw" => at[h] \in Within /\ role[h] = "writer"

\* Who was granted the lock, and is still listed, has it.
GrantIsLock == \A c \in Client : c \in greeting \cup serving /\ role[c] = "writer" => lock = c

\* A client is registered once, and replied to once.
ListedOnce == greeting \cap serving = {} /\ \A c \in greeting \cup serving : role[c] # None

IInv == Shape /\ RawWithin /\ GrantIsLock /\ ListedOnce

LEMMA InvInit == Init => IInv
BY SMT DEF Init, IInv, Shape, RawWithin, GrantIsLock, ListedOnce, Place

LEMMA InvImplies == IInv => RawWrites
BY SMT DEF IInv, Shape, RawWithin, GrantIsLock, ListedOnce, RawWrites, Client, Within

\* A handler that ends takes the lock with it only when the lock was its own.
LEMMA LeaveKeeps ==
  ASSUME IInv, NEW c \in serving, Leave(c), UNCHANGED <<at, role, tty, greeting>>
  PROVE  IInv'
BY SMT DEF IInv, Shape, RawWithin, GrantIsLock, ListedOnce, Leave

\* Nothing the invariant speaks of changes.
LEMMA StillKeeps ==
  ASSUME IInv, UNCHANGED <<at, role, tty, lock, greeting, serving>>
  PROVE  IInv'
BY SMT DEF IInv, Shape, RawWithin, GrantIsLock, ListedOnce

\* A client moves outside raw mode, or within it.
LEMMA MoveKeeps ==
  ASSUME IInv, NEW c \in Client, NEW to \in Place, at' = [at EXCEPT ![c] = to],
         to \in Within \/ (c \in Human => tty[c] = "cooked"),
         UNCHANGED <<role, tty, lock, greeting, serving>>
  PROVE  IInv'
BY SMT DEF IInv, Shape, RawWithin, GrantIsLock, ListedOnce

LEMMA HolderKeeps ==
  ASSUME IInv, ChildPrints \/ ChildEnds \/ Publish \/ HolderStops
  PROVE  IInv'
<1>1. CASE ChildPrints
  BY <1>1, StillKeeps DEF ChildPrints, humanVars
<1>2. CASE ChildEnds
  BY <1>2, StillKeeps DEF ChildEnds, humanVars
<1>3. CASE Publish
  BY <1>3, StillKeeps DEF Publish, humanVars
<1>4. CASE HolderStops
  <2>1. greeting' = {} /\ serving' = {} /\ UNCHANGED <<at, role, tty>>
    BY <1>4 DEF HolderStops, humanVars
  <2> QED BY <2>1 DEF IInv, Shape, RawWithin, GrantIsLock, ListedOnce
<1> QED BY <1>1, <1>2, <1>3, <1>4

LEMMA ServeKeeps ==
  ASSUME IInv, NEW c \in Client, Serve(c)
  PROVE  IInv'
<1>1. c \in serving /\ UNCHANGED <<at, role, tty, greeting>>
  BY DEF Serve, humanVars
<1>2. Leave(c) \/ UNCHANGED <<lock, serving>>
  BY DEF Serve
<1> QED BY <1>1, <1>2, LeaveKeeps, StillKeeps

LEMMA RegisterKeeps ==
  ASSUME IInv, NEW c \in Client, Register(c)
  PROVE  IInv'
<1> DEFINE wins == Asked(c) = "writer" /\ lock = None
<1>1. /\ role' = [role EXCEPT ![c] = IF wins THEN "writer" ELSE "reader"]
      /\ lock' = IF wins THEN c ELSE lock
      /\ greeting' = greeting \cup {c} /\ at[c] = "dialled" /\ role[c] = None
      /\ UNCHANGED <<at, tty, serving>>
  BY DEF Register, humanVars
<1>2. None \notin Client /\ None = "none"
  BY AttachAssumption DEF None
<1> HIDE DEF wins
<1>3. wins => lock = None
  BY DEF wins
<1>4. Shape'
  BY <1>1 DEF IInv, Shape
<1>5. RawWithin'
  <2> SUFFICES ASSUME NEW h \in Human, tty'[h] = "raw"
               PROVE  at'[h] \in Within /\ role'[h] = "writer"
    BY DEF RawWithin
  <2>1. at[h] \in Within /\ role[h] = "writer"
    BY <1>1 DEF IInv, RawWithin
  <2>2. h # c
    BY <1>1, <2>1 DEF Within
  <2> QED BY <1>1, <2>1, <2>2 DEF IInv, Shape, Client
<1>6. GrantIsLock'
  <2> SUFFICES ASSUME NEW d \in Client, d \in greeting' \cup serving', role'[d] = "writer"
               PROVE  lock' = d
    BY DEF GrantIsLock
  <2>1. CASE d = c
    BY <1>1, <2>1 DEF IInv, Shape
  <2>2. CASE d # c
    <3>1. d \in greeting \cup serving /\ role[d] = "writer"
      BY <1>1, <2>2 DEF IInv, Shape
    <3>2. lock = d
      BY <3>1 DEF IInv, GrantIsLock
    <3> QED BY <1>1, <1>2, <1>3, <3>2
  <2> QED BY <2>1, <2>2
<1>7. ListedOnce'
  <2>1. c \notin serving
    BY <1>1 DEF IInv, ListedOnce
  <2>2. ASSUME NEW d \in greeting' \cup serving' PROVE role'[d] # None
    BY <1>1, <1>2 DEF IInv, ListedOnce, Shape
  <2> QED BY <1>1, <2>1, <2>2 DEF IInv, ListedOnce
<1> QED BY <1>4, <1>5, <1>6, <1>7 DEF IInv

LEMMA ReplyKeeps ==
  ASSUME IInv, NEW c \in Client, Reply(c)
  PROVE  IInv'
<1>1. /\ c \in greeting /\ greeting' = greeting \ {c} /\ UNCHANGED <<role, tty, lock>>
      /\ \/ serving' = serving \cup {c} /\ at' = [at EXCEPT ![c] = "granted"] /\ at[c] = "dialled"
         \/ UNCHANGED <<serving, at>>
  BY DEF Reply, humanVars
<1>2. Shape'
  BY <1>1 DEF IInv, Shape, Place
<1>3. RawWithin'
  <2> SUFFICES ASSUME NEW h \in Human, tty'[h] = "raw"
               PROVE  at'[h] \in Within /\ role'[h] = "writer"
    BY DEF RawWithin
  <2>1. at[h] \in Within /\ role[h] = "writer"
    BY <1>1 DEF IInv, RawWithin
  <2>2. at'[h] = at[h] \/ (h = c /\ at[h] = "dialled")
    BY <1>1 DEF IInv, Shape, Client
  <2> QED BY <1>1, <2>1, <2>2 DEF Within
<1>4. GrantIsLock' /\ ListedOnce'
  BY <1>1 DEF IInv, GrantIsLock, ListedOnce
<1> QED BY <1>2, <1>3, <1>4 DEF IInv

LEMMA AttachingKeeps ==
  ASSUME IInv, NEW h \in Human, Attaching(h)
  PROVE  IInv'
<1>0. h \in Client
  BY DEF Client
<1>1. CASE EnterRaw(h)
  <2>1. UNCHANGED <<role, lock, greeting, serving>>
    BY <1>1 DEF EnterRaw, holderVars
  <2>2. CASE tty' = [tty EXCEPT ![h] = "raw"] /\ at' = [at EXCEPT ![h] = "raw"] /\ role[h] = "writer"
    BY <1>0, <2>1, <2>2 DEF IInv, Shape, RawWithin, GrantIsLock, ListedOnce, Place, Within
  <2>3. CASE UNCHANGED tty /\ \E to \in {"returning", "looping"} : at' = [at EXCEPT ![h] = to]
    <3>1. PICK to \in {"returning", "looping"} : at' = [at EXCEPT ![h] = to]
      BY <2>3
    <3>2. to \in Place /\ to \in Within
      BY DEF Place, Within
    <3> QED BY <1>0, <2>1, <2>3, <3>1, <3>2, MoveKeeps
  <2> QED BY <1>1, <2>2, <2>3 DEF EnterRaw, Move, HoldsWriter
<1>2. CASE Install(h)
  <2>1. at' = [at EXCEPT ![h] = "handling"] /\ UNCHANGED <<role, tty, lock, greeting, serving>>
    BY <1>2 DEF Install, Move, holderVars
  <2>2. "handling" \in Place /\ "handling" \in Within
    BY DEF Place, Within
  <2> QED BY <1>0, <2>1, <2>2, MoveKeeps
<1>3. CASE Output(h)
  <2>1. UNCHANGED <<role, tty, lock, greeting, serving>>
    BY <1>3 DEF Output, holderVars, humanVars
  <2>2. at' = at \/ at' = [at EXCEPT ![h] = "returning"]
    BY <1>3 DEF Output, Move
  <2>3. "returning" \in Place /\ "returning" \in Within
    BY DEF Place, Within
  <2> QED BY <1>0, <2>1, <2>2, <2>3, MoveKeeps, StillKeeps
<1>4. CASE Return(h)
  <2>1. /\ tty' = [tty EXCEPT ![h] = "cooked"] /\ at' = [at EXCEPT ![h] = "gone"]
        /\ UNCHANGED <<role, lock, greeting, serving>>
    BY <1>4 DEF Return, Gone, holderVars
  <2> QED BY <1>0, <2>1 DEF IInv, Shape, RawWithin, GrantIsLock, ListedOnce, Place
<1> QED BY <1>1, <1>2, <1>3, <1>4 DEF Attaching

LEMMA ResizingKeeps ==
  ASSUME IInv, NEW h \in Human, Resizing(h)
  PROVE  IInv'
<1>0. h \in Client /\ "jiggling" \in Place /\ "jiggling" \in Within
      /\ "looping" \in Place /\ "looping" \in Within
  BY DEF Client, Place, Within
<1>1. CASE FirstSize(h)
  <2>1. UNCHANGED <<role, tty, lock, greeting, serving>>
    BY <1>1 DEF FirstSize, holderVars
  <2>2. at' = [at EXCEPT ![h] = "jiggling"] \/ at' = [at EXCEPT ![h] = "looping"]
    BY <1>1 DEF FirstSize, Move
  <2> QED BY <1>0, <2>1, <2>2, MoveKeeps
<1>2. CASE Jiggle(h)
  <2>1. at' = [at EXCEPT ![h] = "looping"] /\ UNCHANGED <<role, tty, lock, greeting, serving>>
    BY <1>2 DEF Jiggle, Move, holderVars
  <2> QED BY <1>0, <2>1, MoveKeeps
<1>3. CASE TakeLatch(h)
  BY <1>3, StillKeeps DEF TakeLatch, holderVars
<1>4. CASE LookSize(h)
  BY <1>4, StillKeeps DEF LookSize, holderVars
<1>5. CASE SendSize(h)
  BY <1>5, StillKeeps DEF SendSize, holderVars
<1> QED BY <1>1, <1>2, <1>3, <1>4, <1>5 DEF Resizing

LEMMA RunnerKeeps ==
  ASSUME IInv, NEW c \in Runner, Act(c) \/ Capture(c) \/ Stream(c)
  PROVE  IInv'
<1>1. c \in Client /\ c \notin Human /\ "gone" \in Place
  BY AttachAssumption DEF Client, Place
<1>2. UNCHANGED <<role, tty, lock, greeting, serving>>
  BY DEF Act, Capture, Stream, holderVars, humanVars
<1>3. at' = at \/ at' = [at EXCEPT ![c] = "gone"]
  BY DEF Act, Capture, Stream, Gone
<1> QED BY <1>1, <1>2, <1>3, MoveKeeps, StillKeeps

LEMMA ClientKeeps ==
  ASSUME IInv, NEW c \in Client, Dial(c) \/ Refused(c) \/ GiveUp(c) \/ Handler(c)
  PROVE  IInv'
<1>1. ASSUME at[c] \in {"idle", "dialled"}
      PROVE  c \in Human => tty[c] = "cooked"
  BY <1>1 DEF IInv, Shape, RawWithin, Within
<1>2. CASE Dial(c)
  <2>1. at[c] = "idle" /\ at' = [at EXCEPT ![c] = "dialled"] /\ UNCHANGED <<role, tty, lock, greeting, serving>>
    BY <1>2 DEF Dial, holderVars
  <2>2. "dialled" \in Place
    BY DEF Place
  <2> QED BY <1>1, <2>1, <2>2, MoveKeeps
<1>3. CASE Refused(c)
  <2>1. /\ at[c] \in {"idle", "dialled"} /\ at' = [at EXCEPT ![c] = "gone"]
        /\ UNCHANGED <<role, tty, lock, greeting, serving>>
    BY <1>3 DEF Refused, Gone, holderVars, humanVars
  <2>2. "gone" \in Place
    BY DEF Place
  <2> QED BY <1>1, <2>1, <2>2, MoveKeeps
<1>4. CASE Register(c)
  BY <1>4, RegisterKeeps
<1>7. CASE Reply(c)
  BY <1>7, ReplyKeeps
<1>8. CASE GiveUp(c)
  <2>1. /\ at[c] \in {"idle", "dialled"} /\ at' = [at EXCEPT ![c] = "gone"]
        /\ UNCHANGED <<role, tty, lock, greeting, serving>>
    BY <1>8 DEF GiveUp, Gone, holderVars, humanVars
  <2>2. "gone" \in Place
    BY DEF Place
  <2> QED BY <1>1, <2>1, <2>2, MoveKeeps
<1>5. CASE Serve(c)
  BY <1>5, ServeKeeps
<1>6. CASE ServeEnd(c)
  BY <1>6, LeaveKeeps DEF ServeEnd, humanVars
<1> QED BY <1>2, <1>3, <1>4, <1>5, <1>6, <1>7, <1>8 DEF Handler

LEMMA InvNext == IInv /\ [Next]_vars => IInv'
<1> SUFFICES ASSUME IInv, [Next]_vars PROVE IInv'
  OBVIOUS
<1>1. CASE UNCHANGED vars
  BY <1>1, StillKeeps DEF vars, holderVars, humanVars
<1>2. CASE ChildPrints \/ ChildEnds \/ Publish \/ HolderStops
  BY <1>2, HolderKeeps
<1>3. ASSUME NEW c \in Client, Dial(c) \/ Refused(c) \/ GiveUp(c) \/ Handler(c) PROVE IInv'
  BY <1>3, ClientKeeps
<1>4. ASSUME NEW h \in Human, Resizing(h) \/ Attaching(h) PROVE IInv'
  BY <1>4, ResizingKeeps, AttachingKeeps
<1>5. ASSUME NEW h \in Human, Type(h) \/ Turn(h) PROVE IInv'
  BY <1>5, StillKeeps DEF Type, Turn, holderVars
<1>6. ASSUME NEW c \in Runner, Act(c) \/ Capture(c) \/ Stream(c) PROVE IInv'
  BY <1>6, RunnerKeeps
<1> QED BY <1>1, <1>2, <1>3, <1>4, <1>5, <1>6 DEF Next

\* However attach ends, and whoever else attaches, a terminal is raw only while
\* its client runs and may write (RawGuard, client.rs; acquire, server.rs).
THEOREM RawTerminalsWrite == Spec => []RawWrites
<1>1. Init => IInv
  BY InvInit
<1>2. IInv /\ [Next]_vars => IInv'
  BY InvNext
<1>3. IInv => RawWrites
  BY InvImplies
<1> QED BY <1>1, <1>2, <1>3, PTL DEF Spec

(***************************************************************************)
(* What an attacher takes for the end is the child's end.                  *)
(***************************************************************************)
DataFrame(p) == Encode(Data, <<p>>)
EndFrame(e)  == Encode(Exited, e)

\* The bytes of f stand in b after the first n.
Stands(b, n, f) == \A i \in 1 .. Len(f) : b[n + i] = f[i]

\* m data frames, and then t.
Framed(b, m, t) ==
  /\ b \in Seq(Byte) /\ t \in Seq(Byte) /\ m \in Nat /\ Len(b) = 6 * m + Len(t)
  /\ \A k \in 0 .. m - 1 : \E p \in Byte : Stands(b, 6 * k, DataFrame(p))
  /\ Stands(b, 6 * m, t)

\* What may follow the last data frame: nothing or one of the ends in X; and, when
\* the holder is down, a piece of a data frame or of an end.
Last(X) == {<< >>} \cup {EndFrame(e) : e \in X}

Piece(X) ==
  {Starting(DataFrame(p), n) : p \in Byte, n \in 1 .. 5} \cup {Starting(EndFrame(e), n) : e \in X, n \in 1 .. 9}

Clean(b, X) == \E m \in Nat : \E t \in Last(X) : Framed(b, m, t)
Torn(b, X)  == \E m \in Nat : \E t \in Piece(X) : Framed(b, m, t)

Payloads == {e \in Seq(Byte) : Len(e) = 5}

\* A number is a byte string of one.
LEMMA OneByte ==
  ASSUME NEW p \in Byte
  PROVE  <<p>> \in Seq(Byte) /\ Len(<<p>>) = 1 /\ Len(<<p>>) <= MaxPayload
<1>1. <<p>> \in Seq(Byte) /\ Len(<<p>>) = 1
  OBVIOUS
<1> QED BY <1>1, MaxPayloadType, AttachAssumption

\* The two kinds a holder sends.
LEMMA KindsAreBytes == Data \in Byte /\ Exited \in Byte
BY SMT DEF Data, Exited, Byte

\* A chunk is a byte, and its frame six.
LEMMA DataFrameBytes ==
  ASSUME NEW p \in Byte
  PROVE  DataFrame(p) \in Seq(Byte) /\ Len(DataFrame(p)) = 6
<1>1. PICK one \in Seq(Byte) : one = <<p>> /\ Len(one) = 1
  BY OneByte
<1>2. PICK f : f = Encode(Data, one)
  OBVIOUS
<1>3. f \in Seq(Byte) /\ Len(f) = 5 + Len(one)
  BY <1>2, KindsAreBytes, EncodeBytes
<1> QED BY <1>1, <1>2, <1>3 DEF DataFrame

\* The frame of an end is ten bytes.
LEMMA EndFrameBytes ==
  ASSUME NEW e \in Payloads
  PROVE  EndFrame(e) \in Seq(Byte) /\ Len(EndFrame(e)) = 10
<1>1. PICK bytes \in Seq(Byte) : bytes = e /\ Len(bytes) = 5
  BY DEF Payloads
<1>2. PICK f : f = Encode(Exited, bytes)
  OBVIOUS
<1>3. f \in Seq(Byte) /\ Len(f) = 5 + Len(bytes)
  BY <1>2, KindsAreBytes, EncodeBytes
<1> QED BY <1>1, <1>2, <1>3 DEF EndFrame

\* The beginning of a byte string, and what comes after it.
LEMMA StartingBytes ==
  ASSUME NEW b \in Seq(Byte), NEW n \in 0 .. Len(b)
  PROVE  /\ Starting(b, n) \in Seq(Byte) /\ Len(Starting(b, n)) = n
         /\ \A i \in 1 .. n : Starting(b, n)[i] = b[i]
<1>1. Len(b) \in Nat /\ 1 \in Int /\ n \in Int
  BY LenProperties
<1>2. \A i \in 1 .. n : b[i] \in Byte
  BY <1>1, ElementOfSeq
<1>3. /\ SubSeq(b, 1, n) \in Seq(Byte)
      /\ Len(SubSeq(b, 1, n)) = IF 1 <= n THEN n - 1 + 1 ELSE 0
      /\ \A i \in 1 .. n - 1 + 1 : SubSeq(b, 1, n)[i] = b[1 + i - 1]
  BY <1>1, <1>2, SubSeqProperties
<1> QED BY <1>1, <1>3 DEF Starting

\* What comes after the first n bytes.
LEMMA AfterBytes ==
  ASSUME NEW b \in Seq(Byte), NEW n \in 0 .. Len(b)
  PROVE  /\ After(b, n) \in Seq(Byte) /\ Len(After(b, n)) = Len(b) - n
         /\ \A i \in 1 .. Len(b) - n : After(b, n)[i] = b[n + i]
<1>1. Len(b) \in Nat /\ n + 1 \in Int /\ Len(b) \in Int /\ n \in Nat
  BY LenProperties
<1>2. \A i \in n + 1 .. Len(b) : b[i] \in Byte
  BY <1>1, ElementOfSeq
<1>3. /\ SubSeq(b, n + 1, Len(b)) \in Seq(Byte)
      /\ Len(SubSeq(b, n + 1, Len(b))) = IF n + 1 <= Len(b) THEN Len(b) - (n + 1) + 1 ELSE 0
      /\ \A i \in 1 .. Len(b) - (n + 1) + 1 : SubSeq(b, n + 1, Len(b))[i] = b[n + 1 + i - 1]
  BY <1>1, <1>2, SubSeqProperties
<1> QED BY <1>1, <1>3 DEF After

\* An empty socket.
LEMMA FramedEmpty == Framed(<< >>, 0, << >>)
<1>1. << >> \in Seq(Byte) /\ Len(<< >>) = 0
  BY EmptySeq
<1> QED BY <1>1 DEF Framed, Stands

\* Bytes appended after the last data frame.
LEMMA FramedMore ==
  ASSUME NEW b, NEW m, Framed(b, m, << >>), NEW f \in Seq(Byte)
  PROVE  Framed(b \o f, m, f)
<1>1. /\ b \in Seq(Byte) /\ m \in Nat /\ Len(b) = 6 * m + 0
      /\ \A k \in 0 .. m - 1 : \E p \in Byte : Stands(b, 6 * k, DataFrame(p))
  BY EmptySeq DEF Framed
<1>2. PICK u : u = b \o f
  OBVIOUS
<1>3. /\ u \in Seq(Byte) /\ Len(u) = Len(b) + Len(f)
      /\ \A i \in 1 .. Len(b) : u[i] = b[i]
      /\ \A i \in 1 .. Len(f) : u[Len(b) + i] = f[i]
  BY <1>1, <1>2, Joined
<1>4. Len(f) \in Nat /\ Len(b) = 6 * m
  BY <1>1, LenProperties
<1>5. ASSUME NEW k \in 0 .. m - 1 PROVE \E p \in Byte : Stands(u, 6 * k, DataFrame(p))
  <2>1. PICK p \in Byte : Stands(b, 6 * k, DataFrame(p))
    BY <1>1
  <2>2. ASSUME NEW i \in 1 .. 6 PROVE u[6 * k + i] = b[6 * k + i]
    <3>1. 6 * k + i \in 1 .. Len(b)
      BY <1>1, <1>4
    <3> QED BY <3>1, <1>3
  <2>3. Stands(u, 6 * k, DataFrame(p))
    BY <2>1, <2>2, DataFrameBytes DEF Stands
  <2> QED BY <2>3
<1>6. Stands(u, 6 * m, f)
  BY <1>3, <1>4 DEF Stands
<1>7. Framed(u, m, f)
  BY <1>1, <1>3, <1>4, <1>5, <1>6 DEF Framed
<1> QED BY <1>2, <1>7

\* A data frame appended is one more of them.
LEMMA FramedData ==
  ASSUME NEW b, NEW m, Framed(b, m, << >>), NEW p \in Byte
  PROVE  Framed(b \o DataFrame(p), m + 1, << >>)
<1>1. PICK f \in Seq(Byte) : f = DataFrame(p) /\ Len(f) = 6
  BY DataFrameBytes
<1>2. PICK u : u = b \o f
  OBVIOUS
<1>3. Framed(u, m, f)
  BY <1>2, FramedMore
<1>4. /\ u \in Seq(Byte) /\ m \in Nat /\ Len(u) = 6 * m + 6
      /\ \A k \in 0 .. m - 1 : \E q \in Byte : Stands(u, 6 * k, DataFrame(q))
      /\ Stands(u, 6 * m, DataFrame(p))
  BY <1>1, <1>3 DEF Framed
<1>5. ASSUME NEW k \in 0 .. (m + 1) - 1 PROVE \E q \in Byte : Stands(u, 6 * k, DataFrame(q))
  <2>1. k \in 0 .. m - 1 \/ k = m
    BY <1>4
  <2> QED BY <2>1, <1>4
<1>6. << >> \in Seq(Byte) /\ Len(<< >>) = 0
  BY EmptySeq
<1>7. Stands(u, 6 * (m + 1), << >>)
  BY <1>6 DEF Stands
<1>8. m + 1 \in Nat /\ Len(u) = 6 * (m + 1) + 0
  BY <1>4
<1>9. Framed(u, m + 1, << >>)
  BY <1>4, <1>5, <1>6, <1>7, <1>8 DEF Framed
<1> QED BY <1>1, <1>2, <1>9

\* No data frame: the bytes are what follows them.
LEMMA FramedNone ==
  ASSUME NEW b, NEW t, Framed(b, 0, t)
  PROVE  b = t
<1>1. b \in Seq(Byte) /\ t \in Seq(Byte) /\ Len(b) = 6 * 0 + Len(t) /\ \A i \in 1 .. Len(t) : b[6 * 0 + i] = t[i]
  BY DEF Framed, Stands
<1>2. Len(b) = Len(t) /\ \A i \in 1 .. Len(t) : b[i] = t[i]
  BY <1>1, LenProperties
<1> QED BY <1>1, <1>2, SeqEqual

\* The first data frame, and the rest.
LEMMA FramedFirst ==
  ASSUME NEW b, NEW m, NEW t, Framed(b, m, t), m # 0
  PROVE  \E p \in Byte : \E rest \in Seq(Byte) : b = DataFrame(p) \o rest /\ Framed(rest, m - 1, t)
<1>1. /\ b \in Seq(Byte) /\ t \in Seq(Byte) /\ m \in Nat /\ Len(b) = 6 * m + Len(t)
      /\ \A k \in 0 .. m - 1 : \E p \in Byte : Stands(b, 6 * k, DataFrame(p))
      /\ Stands(b, 6 * m, t)
  BY DEF Framed
<1>2. Len(t) \in Nat /\ Len(b) \in Nat /\ 6 \in 0 .. Len(b) /\ 0 \in 0 .. m - 1
  BY <1>1, LenProperties
<1>3. PICK p \in Byte : Stands(b, 6 * 0, DataFrame(p))
  BY <1>1, <1>2
<1>4. PICK f \in Seq(Byte) : f = DataFrame(p) /\ Len(f) = 6
  BY DataFrameBytes
<1>5. PICK rest \in Seq(Byte) : Len(rest) = Len(b) - 6 /\ \A i \in 1 .. Len(b) - 6 : rest[i] = b[6 + i]
  BY <1>1, <1>2, AfterBytes
<1>6. b = f \o rest
  <2>1. PICK u : u = f \o rest
    OBVIOUS
  <2>6. /\ u \in Seq(Byte) /\ Len(u) = Len(f) + Len(rest)
        /\ \A i \in 1 .. Len(f) : u[i] = f[i]
        /\ \A i \in 1 .. Len(rest) : u[Len(f) + i] = rest[i]
    BY <2>1, Joined
  <2>2. /\ u \in Seq(Byte) /\ Len(u) = 6 + Len(rest)
        /\ \A i \in 1 .. 6 : u[i] = f[i]
        /\ \A i \in 1 .. Len(rest) : u[6 + i] = rest[i]
    BY <1>4, <2>6
  <2>3. ASSUME NEW i \in 1 .. Len(b) PROVE b[i] = u[i]
    <3>1. CASE i \in 1 .. 6
      BY <3>1, <1>3, <1>4, <2>2 DEF Stands
    <3>2. CASE i \notin 1 .. 6
      <4>1. i - 6 \in 1 .. Len(b) - 6 /\ i = 6 + (i - 6)
        BY <3>2, <1>2
      <4> QED BY <4>1, <2>2, <1>5
    <3> QED BY <3>1, <3>2
  <2>4. Len(b) = Len(u)
    BY <1>2, <1>5, <2>2
  <2>5. b = u
    BY <1>1, <2>2, <2>3, <2>4, SeqEqual
  <2> QED BY <2>1, <2>5
<1>7. ASSUME NEW k \in 0 .. (m - 1) - 1 PROVE \E q \in Byte : Stands(rest, 6 * k, DataFrame(q))
  <2>1. k + 1 \in 0 .. m - 1
    BY <1>1
  <2>2. PICK q \in Byte : Stands(b, 6 * (k + 1), DataFrame(q))
    BY <1>1, <2>1
  <2>3. ASSUME NEW i \in 1 .. 6 PROVE rest[6 * k + i] = b[6 * (k + 1) + i]
    <3>1. 6 * k + i \in 1 .. Len(b) - 6 /\ 6 + (6 * k + i) = 6 * (k + 1) + i
      BY <1>1, <1>2
    <3> QED BY <3>1, <1>5
  <2>4. Stands(rest, 6 * k, DataFrame(q))
    BY <2>2, <2>3, DataFrameBytes DEF Stands
  <2> QED BY <2>4
<1>8. Stands(rest, 6 * (m - 1), t)
  <2>1. ASSUME NEW i \in 1 .. Len(t) PROVE rest[6 * (m - 1) + i] = t[i]
    <3>1. 6 * (m - 1) + i \in 1 .. Len(b) - 6 /\ 6 + (6 * (m - 1) + i) = 6 * m + i
      BY <1>1, <1>2
    <3>2. b[6 * m + i] = t[i]
      BY <1>1 DEF Stands
    <3> QED BY <3>1, <3>2, <1>5
  <2> QED BY <2>1 DEF Stands
<1>9. m - 1 \in Nat /\ Len(rest) = 6 * (m - 1) + Len(t)
  BY <1>1, <1>2, <1>5
<1>10. Framed(rest, m - 1, t)
  BY <1>1, <1>5, <1>7, <1>8, <1>9 DEF Framed
<1> QED BY <1>4, <1>6, <1>10

\* Where a cut falls among frames of six bytes.
LEMMA SixesAndRest ==
  ASSUME NEW n \in Nat
  PROVE  \E k \in Nat : \E j \in 0 .. 5 : n = 6 * k + j
<1>1. n \div 6 \in Nat
  BY SMT
<1>2. n % 6 \in 0 .. 5
  BY SMT
<1>3. n = 6 * (n \div 6) + (n % 6)
  BY SMT
<1> QED BY <1>1, <1>2, <1>3

\* A cut inside the data frames leaves whole ones and at most a piece of one; a
\* cut inside what follows them a piece of that.
LEMMA FramedCut ==
  ASSUME NEW b, NEW m, NEW t, Framed(b, m, t), NEW n \in 0 .. Len(b)
  PROVE  \/ \E k \in Nat : Framed(Starting(b, n), k, << >>)
         \/ \E k \in Nat : \E p \in Byte : \E j \in 1 .. 5 :
              Framed(Starting(b, n), k, Starting(DataFrame(p), j))
         \/ \E k \in Nat : \E j \in 1 .. Len(t) : Framed(Starting(b, n), k, Starting(t, j))
<1>1. /\ b \in Seq(Byte) /\ t \in Seq(Byte) /\ m \in Nat /\ Len(b) = 6 * m + Len(t)
      /\ \A k \in 0 .. m - 1 : \E p \in Byte : Stands(b, 6 * k, DataFrame(p))
      /\ Stands(b, 6 * m, t)
  BY DEF Framed
<1>2. Len(t) \in Nat /\ Len(b) \in Nat /\ n \in Nat
  BY <1>1, LenProperties
<1>3. PICK u \in Seq(Byte) : u = Starting(b, n) /\ Len(u) = n /\ \A i \in 1 .. n : u[i] = b[i]
  BY <1>1, StartingBytes
<1>4. ASSUME NEW k \in Nat, k <= m, 6 * k <= n
      PROVE  \A l \in 0 .. k - 1 : \E p \in Byte : Stands(u, 6 * l, DataFrame(p))
  <2> SUFFICES ASSUME NEW l \in 0 .. k - 1 PROVE \E p \in Byte : Stands(u, 6 * l, DataFrame(p))
    OBVIOUS
  <2>1. l \in 0 .. m - 1
    BY <1>1, <1>4
  <2>2. PICK p \in Byte : Stands(b, 6 * l, DataFrame(p))
    BY <1>1, <2>1
  <2>3. ASSUME NEW i \in 1 .. 6 PROVE u[6 * l + i] = b[6 * l + i]
    <3>1. 6 * l + i \in 1 .. n
      BY <1>2, <1>4
    <3> QED BY <3>1, <1>3
  <2>4. Stands(u, 6 * l, DataFrame(p))
    BY <2>2, <2>3, DataFrameBytes DEF Stands
  <2> QED BY <2>4
<1>5. CASE n <= 6 * m
  <2>2. PICK k \in Nat, j \in 0 .. 5 : n = 6 * k + j
    BY <1>2, SixesAndRest
  <2>3. k <= m /\ 6 * k <= n /\ (j # 0 => k <= m - 1)
    BY <1>1, <1>2, <1>5, <2>2
  <2>4. CASE j = 0
    <3>1. << >> \in Seq(Byte) /\ Len(<< >>) = 0
      BY EmptySeq
    <3>2. Stands(u, 6 * k, << >>)
      BY <3>1 DEF Stands
    <3>3. Len(u) = 6 * k + 0
      BY <1>3, <2>2, <2>4
    <3>4. Framed(u, k, << >>)
      BY <1>3, <1>4, <2>3, <3>1, <3>2, <3>3 DEF Framed
    <3> QED BY <1>3, <3>4
  <2>5. CASE j # 0
    <3>1. k \in 0 .. m - 1 /\ j \in 1 .. 5 /\ j \in 0 .. 6
      BY <1>1, <2>3, <2>5
    <3>2. PICK p \in Byte : Stands(b, 6 * k, DataFrame(p))
      BY <1>1, <3>1
    <3>3. PICK f \in Seq(Byte) : f = DataFrame(p) /\ Len(f) = 6
      BY DataFrameBytes
    <3>4. PICK v \in Seq(Byte) : v = Starting(f, j) /\ Len(v) = j /\ \A i \in 1 .. j : v[i] = f[i]
      BY <3>1, <3>3, StartingBytes
    <3>5. ASSUME NEW i \in 1 .. j PROVE u[6 * k + i] = v[i]
      <4>1. 6 * k + i \in 1 .. n /\ i \in 1 .. 6
        BY <1>2, <2>2, <3>1
      <4> QED BY <4>1, <1>3, <3>2, <3>3, <3>4 DEF Stands
    <3>6. Stands(u, 6 * k, v)
      BY <3>4, <3>5 DEF Stands
    <3>7. Len(u) = 6 * k + Len(v)
      BY <1>3, <2>2, <3>4
    <3>8. Framed(u, k, v)
      BY <1>3, <1>4, <2>3, <3>4, <3>6, <3>7 DEF Framed
    <3> QED BY <1>3, <3>1, <3>3, <3>4, <3>8
  <2> QED BY <2>4, <2>5
<1>6. CASE ~ (n <= 6 * m)
  <2>1. PICK j \in 1 .. Len(t) : n = 6 * m + j
    <3>1. n - 6 * m \in 1 .. Len(t) /\ n = 6 * m + (n - 6 * m)
      BY <1>1, <1>2, <1>6
    <3> QED BY <3>1
  <2>2. j \in 0 .. Len(t) /\ 6 * m <= n /\ m <= m
    BY <1>1, <1>2, <2>1
  <2>3. PICK v \in Seq(Byte) : v = Starting(t, j) /\ Len(v) = j /\ \A i \in 1 .. j : v[i] = t[i]
    BY <1>1, <2>2, StartingBytes
  <2>4. ASSUME NEW i \in 1 .. j PROVE u[6 * m + i] = v[i]
    <3>1. 6 * m + i \in 1 .. n /\ i \in 1 .. Len(t)
      BY <1>1, <1>2, <2>1
    <3> QED BY <3>1, <1>1, <1>3, <2>3 DEF Stands
  <2>5. Stands(u, 6 * m, v) /\ Len(u) = 6 * m + Len(v)
    BY <1>3, <2>1, <2>3, <2>4 DEF Stands
  <2>6. Framed(u, m, v)
    BY <1>1, <1>3, <1>4, <2>2, <2>3, <2>5 DEF Framed
  <2> QED BY <1>1, <1>3, <2>3, <2>6
<1> QED BY <1>5, <1>6
\* Nothing is clean.
LEMMA CleanEmpty == ASSUME NEW X PROVE Clean(<< >>, X)
<1>1. 0 \in Nat /\ << >> \in Last(X)
  BY DEF Last
<1> QED BY <1>1, FramedEmpty DEF Clean

\* Before the child's end is published, a frame may be appended.
LEMMA CleanData ==
  ASSUME NEW b, Clean(b, {}), NEW p \in Byte
  PROVE  Clean(b \o DataFrame(p), {})
<1>1. PICK m \in Nat : Framed(b, m, << >>)
  BY DEF Clean, Last
<1>2. m + 1 \in Nat /\ << >> \in Last({})
  BY DEF Last
<1> QED BY <1>1, <1>2, FramedData DEF Clean

\* And once, when it is, its end.
LEMMA CleanEnd ==
  ASSUME NEW b, Clean(b, {}), NEW X \in SUBSET Payloads, NEW e \in X
  PROVE  Clean(b \o EndFrame(e), X)
<1>1. PICK m \in Nat : Framed(b, m, << >>)
  BY DEF Clean, Last
<1>2. EndFrame(e) \in Seq(Byte) /\ EndFrame(e) \in Last(X)
  BY EndFrameBytes DEF Last
<1>3. Framed(b \o EndFrame(e), m, EndFrame(e))
  BY <1>1, <1>2, FramedMore
<1> QED BY <1>2, <1>3 DEF Clean

\* A cut leaves clean bytes or a torn end.
LEMMA CleanCut ==
  ASSUME NEW X \in SUBSET Payloads, NEW b, Clean(b, X), NEW n \in 0 .. Len(b)
  PROVE  Clean(Starting(b, n), X) \/ Torn(Starting(b, n), X)
<1>1. PICK m \in Nat, t \in Last(X) : Framed(b, m, t)
  BY DEF Clean
<1>2. PICK u : u = Starting(b, n)
  OBVIOUS
<1>3. CASE \E k \in Nat : Framed(u, k, << >>)
  <2>1. << >> \in Last(X)
    BY DEF Last
  <2> QED BY <1>2, <1>3, <2>1 DEF Clean
<1>4. CASE \E k \in Nat : \E p \in Byte : \E j \in 1 .. 5 : Framed(u, k, Starting(DataFrame(p), j))
  BY <1>2, <1>4 DEF Torn, Piece
<1>5. CASE \E k \in Nat : \E j \in 1 .. Len(t) : Framed(u, k, Starting(t, j))
  <2>1. PICK k \in Nat, j \in 1 .. Len(t) : Framed(u, k, Starting(t, j))
    BY <1>5
  <2>2. PICK e \in X : t = EndFrame(e)
    <3>1. t # << >>
      BY EmptySeq
    <3> QED BY <3>1 DEF Last
  <2>3. t \in Seq(Byte) /\ Len(t) = 10
    BY <2>2, EndFrameBytes
  <2>4. CASE j = 10
    <3>1. Starting(t, j) = t
      BY <2>3, <2>4, SubSeqFull DEF Starting
    <3> QED BY <1>2, <2>1, <3>1 DEF Clean
  <2>5. CASE j # 10
    <3>1. j \in 1 .. 9
      BY <2>3, <2>5
    <3>2. Starting(t, j) \in Piece(X)
      BY <2>2, <3>1 DEF Piece
    <3> QED BY <1>2, <2>1, <3>2 DEF Torn
  <2> QED BY <2>4, <2>5
<1> QED BY <1>1, <1>2, <1>3, <1>4, <1>5, FramedCut

\* Reading a data frame off the front.
LEMMA ReadFirst ==
  ASSUME NEW b, NEW m \in Nat, NEW t, Framed(b, m, t), m # 0
  PROVE  /\ ReadFrame(b).is = "frame" /\ ReadFrame(b).kind = Data
         /\ Framed(ReadFrame(b).rest, m - 1, t)
<1>1. PICK p \in Byte, rest \in Seq(Byte) : b = DataFrame(p) \o rest /\ Framed(rest, m - 1, t)
  BY FramedFirst
<1>2. PICK one \in Seq(Byte) : one = <<p>> /\ Len(one) <= MaxPayload
  BY OneByte
<1>3. ReadFrame(Encode(Data, one) \o rest) = [is |-> "frame", kind |-> Data, payload |-> one, rest |-> rest]
  BY <1>2, KindsAreBytes, FrameRoundTrip
<1>4. ReadFrame(b) = [is |-> "frame", kind |-> Data, payload |-> one, rest |-> rest]
  BY <1>1, <1>2, <1>3 DEF DataFrame
<1> QED BY <1>1, <1>4

\* The end of the bytes is no frame.
LEMMA ReadNothing == ReadFrame(<< >>) = NoFrame
BY DEF ReadFrame

\* The end reads as it was published.
LEMMA ReadEnd ==
  ASSUME NEW e \in Payloads
  PROVE  ReadFrame(EndFrame(e)) = [is |-> "frame", kind |-> Exited, payload |-> e, rest |-> << >>]
<1>1. PICK bytes \in Seq(Byte) : bytes = e /\ Len(bytes) = 5
  BY DEF Payloads
<1>2. Len(bytes) <= MaxPayload
  BY <1>1, MaxPayloadType, AttachAssumption
<1>3. PICK none \in Seq(Byte) : none = << >>
  BY EmptySeq
<1>4. PICK f \in Seq(Byte) : f = Encode(Exited, bytes)
  BY <1>1, EndFrameBytes DEF EndFrame
<1>5. f \o none = f
  BY <1>3, ConcatEmptySeq
<1>6. ReadFrame(Encode(Exited, bytes) \o none) = [is |-> "frame", kind |-> Exited, payload |-> bytes, rest |-> none]
  BY <1>2, KindsAreBytes, FrameRoundTrip
<1> QED BY <1>1, <1>3, <1>4, <1>5, <1>6 DEF EndFrame

\* A torn frame: an error, and nothing after it.
LEMMA ReadPiece ==
  ASSUME NEW X \in SUBSET Payloads, NEW t \in Piece(X)
  PROVE  ReadFrame(t).is = "bad"
<1>1. CASE \E p \in Byte : \E n \in 1 .. 5 : t = Starting(DataFrame(p), n)
  <2>1. PICK p \in Byte, n \in 1 .. 5 : t = Starting(DataFrame(p), n)
    BY <1>1
  <2>2. PICK one \in Seq(Byte) : one = <<p>> /\ Len(one) = 1 /\ Len(one) <= MaxPayload
    BY OneByte
  <2>3. n \in 1 .. 4 + Len(one)
    BY <2>2
  <2>4. ReadFrame(Starting(Encode(Data, one), n)).is = "bad"
    BY <2>2, <2>3, KindsAreBytes, TornFrameIsBad
  <2> QED BY <2>1, <2>2, <2>4 DEF DataFrame
<1>2. CASE \E e \in X : \E n \in 1 .. 9 : t = Starting(EndFrame(e), n)
  <2>1. PICK e \in X, n \in 1 .. 9 : t = Starting(EndFrame(e), n)
    BY <1>2
  <2>2. PICK bytes \in Seq(Byte) : bytes = e /\ Len(bytes) = 5
    BY DEF Payloads
  <2>3. Len(bytes) <= MaxPayload /\ n \in 1 .. 4 + Len(bytes)
    BY <2>2, MaxPayloadType, AttachAssumption
  <2>4. ReadFrame(Starting(Encode(Exited, bytes), n)).is = "bad"
    BY <2>3, KindsAreBytes, TornFrameIsBad
  <2> QED BY <2>1, <2>2, <2>4 DEF EndFrame
<1> QED BY <1>1, <1>2 DEF Piece

\* An answer that is no frame leaves nothing to read.
LEMMA ReadRest ==
  ASSUME NEW b, ReadFrame(b).is # "frame"
  PROVE  ReadFrame(b).rest = << >>
<1>1. NoFrame.rest = << >> /\ BadFrame.rest = << >>
  BY DEF BadFrame, NoFrame
<1>2. PICK x : x = [is |-> "frame", kind |-> b[1], payload |-> SubSeq(b, 6, 5 + FromLe32(After(b, 1))),
                    rest |-> After(b, 5 + FromLe32(After(b, 1)))]
  OBVIOUS
<1>3. x.is = "frame"
  BY <1>2
<1>4. ReadFrame(b) \in {NoFrame, BadFrame, x}
  BY <1>2 DEF ReadFrame
<1> QED BY <1>1, <1>3, <1>4

\* What read_frame makes of clean bytes: output, and bytes that are still clean;
\* or an end that was published; or no frame, at the end of the bytes.
LEMMA ReadClean ==
  ASSUME NEW X \in SUBSET Payloads, NEW b, Clean(b, X)
  PROVE  /\ Clean(ReadFrame(b).rest, X)
         /\ \/ ReadFrame(b).is = "frame" /\ ReadFrame(b).kind = Data
            \/ ReadFrame(b).is = "frame" /\ ReadFrame(b).kind = Exited /\ ReadFrame(b).payload \in X
            \/ ReadFrame(b).is \in {"none", "bad"}
<1>1. PICK m \in Nat, t \in Last(X) : Framed(b, m, t)
  BY DEF Clean
<1>2. CASE m # 0
  <2>1. m - 1 \in Nat
    BY <1>2
  <2>2. /\ ReadFrame(b).is = "frame" /\ ReadFrame(b).kind = Data
        /\ Framed(ReadFrame(b).rest, m - 1, t)
    BY <1>1, <1>2, ReadFirst
  <2> QED BY <2>1, <2>2 DEF Clean
<1>3. CASE m = 0
  <2>1. b = t
    BY <1>1, <1>3, FramedNone
  <2>2. CASE t = << >>
    <3>1. ReadFrame(b).is = "none" /\ ReadFrame(b).rest = << >>
      BY <2>1, <2>2, ReadNothing DEF NoFrame
    <3> QED BY <3>1, CleanEmpty
  <2>3. CASE \E e \in X : t = EndFrame(e)
    <3>1. PICK e \in X : t = EndFrame(e)
      BY <2>3
    <3>2. ReadFrame(b) = [is |-> "frame", kind |-> Exited, payload |-> e, rest |-> << >>]
      BY <2>1, <3>1, ReadEnd
    <3> QED BY <3>2, CleanEmpty
  <2> QED BY <2>2, <2>3 DEF Last
<1> QED BY <1>2, <1>3

\* Of torn bytes it never makes an end.
LEMMA ReadTorn ==
  ASSUME NEW X \in SUBSET Payloads, NEW b, Torn(b, X)
  PROVE  \/ ReadFrame(b).is = "frame" /\ ReadFrame(b).kind = Data /\ Torn(ReadFrame(b).rest, X)
         \/ ReadFrame(b).is = "bad" /\ Clean(ReadFrame(b).rest, X)
<1>1. PICK m \in Nat, t \in Piece(X) : Framed(b, m, t)
  BY DEF Torn
<1>2. CASE m # 0
  <2>1. m - 1 \in Nat
    BY <1>2
  <2>2. /\ ReadFrame(b).is = "frame" /\ ReadFrame(b).kind = Data
        /\ Framed(ReadFrame(b).rest, m - 1, t)
    BY <1>1, <1>2, ReadFirst
  <2> QED BY <2>1, <2>2 DEF Torn
<1>3. CASE m = 0
  <2>1. b = t
    BY <1>1, <1>3, FramedNone
  <2>2. ReadFrame(b).is = "bad"
    BY <2>1, ReadPiece
  <2>3. ReadFrame(b).rest = << >>
    BY <2>2, ReadRest
  <2> QED BY <2>2, <2>3, CleanEmpty
<1> QED BY <1>2, <1>3

-----------------------------------------------------------------------------
Ends   == Exits \cup {Killed(9)}
Ending == IF told THEN {ToPayload(child)} ELSE {}

Results == [is : {"none", "error", "code"}, n : Int]

\* What may wait in a client's socket.
Waits(b) == Clean(b, Ending) \/ (holder = "down" /\ Torn(b, Ending))

\* What a client may have come to.
Real(c, r) ==
  r.is = "code" /\ (r.n # 0 \/ (c \in Runner /\ verb[c] = "stream")) =>
    child # Running /\ r.n = child.n + (IF child.by = "signal" THEN 128 ELSE 0)

World ==
  /\ child \in Ends \cup {Running} /\ told \in BOOLEAN /\ (told => child # Running)
  /\ prints \in 0 .. MaxPrints

Clients ==
  /\ at \in [Client -> Place] /\ result \in [Client -> Results] /\ down \in [Client -> Seq(Byte)]
  /\ \A c \in Client : at[c] = "idle" => result[c].is = "none"
  /\ verb \in [Runner -> Verbs \cup {None}]

Wires   == \A c \in Client : Waits(down[c])
AllReal == \A c \in Client : Real(c, result[c])

EndInv == World /\ Clients /\ Wires /\ AllReal

\* An end has a number that four bytes hold.
LEMMA EndTypes ==
  ASSUME NEW e \in Ends
  PROVE  /\ e \in [by : {"code", "signal"}, n : Int] /\ MinI32 <= e.n /\ e.n <= MaxI32
         /\ e # Running
<1>1. e \in [by : {"code"}, n : -1 .. 255] \cup [by : {"signal"}, n : 1 .. 127]
  BY AttachAssumption, SMT DEF Ends, Killed
<1>2. e \in [by : {"code", "signal"}, n : Int] /\ e.n \in -1 .. 255
  BY <1>1
<1>3. e # Running
  BY <1>1 DEF Running
<1>4. MinI32 <= e.n /\ e.n <= MaxI32
  BY <1>2, SMT DEF MinI32, MaxI32
<1> QED BY <1>2, <1>3, <1>4

\* An end is published in five bytes that say which it was.
LEMMA ToPayloadType ==
  ASSUME NEW e \in Ends
  PROVE  ToPayload(e) \in Payloads /\ FromPayload(ToPayload(e)) = e
<1>1. e \in [by : {"code", "signal"}, n : Int] /\ MinI32 <= e.n /\ e.n <= MaxI32
  BY EndTypes
<1>2. PICK first \in Byte : first = IF e.by = "code" THEN 0 ELSE 1
  BY SMT DEF Byte
<1>3. e.n \in Int
  BY <1>1
<1>4. <<first>> \o Le32(e.n) \in Seq(Byte) /\ Len(<<first>> \o Le32(e.n)) = 5
  BY <1>3, Headed
<1>5. ToPayload(e) = <<first>> \o Le32(e.n)
  BY <1>2 DEF ToPayload
<1> QED BY <1>1, <1>4, <1>5, ExitRoundTrip DEF Payloads

\* What is published is how the child ended.
LEMMA EndingType ==
  ASSUME World
  PROVE  /\ Ending \in SUBSET Payloads
         /\ child # Running => child \in Ends
         /\ \A e \in Ending : child # Running /\ FromPayload(e) = child
<1>1. child # Running => child \in Ends
  BY DEF World
<1> QED BY <1>1, ToPayloadType DEF Ending, World

\* The code of an end that was read is the child's.
LEMMA CodeIsReal ==
  ASSUME World, NEW c \in Client, NEW e \in Ending
  PROVE  Done(ProcessCode(FromPayload(e))) \in Results /\ Real(c, Done(ProcessCode(FromPayload(e))))
<1>1. child # Running /\ FromPayload(e) = child /\ child \in Ends
  BY EndingType
<1>2. child.n \in Int
  BY <1>1, EndTypes
<1>3. ProcessCode(child) = child.n + (IF child.by = "signal" THEN 128 ELSE 0) /\ ProcessCode(child) \in Int
  BY <1>2, SMT DEF ProcessCode
<1>4. Done(ProcessCode(child)).n = ProcessCode(child) /\ Done(ProcessCode(child)) \in Results
  BY <1>3 DEF Done, Results
<1> QED BY <1>1, <1>3, <1>4 DEF Real

\* A success that is not an end, and an error, say nothing of the child.
LEMMA OtherIsReal ==
  ASSUME NEW c
  PROVE  /\ Error \in Results /\ Unfinished \in Results /\ Done(0) \in Results
         /\ Real(c, Error) /\ Real(c, Unfinished)
         /\ ~(c \in Runner /\ verb[c] = "stream") => Real(c, Done(0))
BY DEF Error, Unfinished, Done, Results, Real

\* What waits is bytes.
LEMMA WaitsBytes ==
  ASSUME NEW b, Waits(b)
  PROVE  b \in Seq(Byte)
BY DEF Waits, Clean, Torn, Framed

\* At first nobody has come to anything.
LEMMA EndInit == Init => EndInv
<1> SUFFICES ASSUME Init PROVE EndInv
  OBVIOUS
<1>1. World
  <2>1. 0 \in 0 .. MaxPrints
    BY AttachAssumption DEF Byte
  <2> QED BY <2>1 DEF Init, World
<1>2. << >> \in Seq(Byte) /\ Waits(<< >>)
  BY EmptySeq, CleanEmpty DEF Waits
<1>3. Wires
  BY <1>2 DEF Wires, Init
<1>4. Clients
  <2>1. Unfinished \in Results /\ Unfinished.is = "none"
    BY DEF Unfinished, Results
  <2> QED BY <1>2, <2>1 DEF Clients, Init, Place
<1>5. AllReal
  BY OtherIsReal DEF AllReal, Init
<1> QED BY <1>1, <1>3, <1>4, <1>5 DEF EndInv

\* One client's bytes, result or place change; the child and the holder do not.
LEMMA ClientChanges ==
  ASSUME EndInv, NEW c \in Client, UNCHANGED <<holder, child, told, prints, verb>>,
         NEW b, NEW r, NEW to,
         down' = down \/ (down' = [down EXCEPT ![c] = b] /\ Waits(b)),
         at' = at \/ (at' = [at EXCEPT ![c] = to] /\ to \in Place \ {"idle"}),
         \/ result' = result
         \/ result' = [result EXCEPT ![c] = r] /\ r \in Results /\ Real(c, r) /\ at' # at
  PROVE  EndInv'
<1>1. World'
  BY DEF EndInv, World
<1>2. Ending' = Ending /\ (\A x : Waits(x)' <=> Waits(x))
  BY DEF Ending, Waits
<1>3. Wires'
  BY <1>2 DEF Wires, EndInv, Clients
<1>4. Clients'
  <2>1. at' \in [Client -> Place] /\ result' \in [Client -> Results]
    <3>1. at' \in [Client -> Place]
      BY DEF EndInv, Clients
    <3>2. result' \in [Client -> Results]
      BY DEF EndInv, Clients
    <3> QED BY <3>1, <3>2
  <2>2. down' \in [Client -> Seq(Byte)]
    BY WaitsBytes DEF EndInv, Clients
  <2>3. ASSUME NEW d \in Client, at'[d] = "idle" PROVE result'[d].is = "none"
    <3>1. at[d] = "idle" /\ (at' # at => d # c)
      BY <2>3 DEF EndInv, Clients
    <3>2. result'[d] = result[d]
      BY <3>1 DEF EndInv, Clients
    <3> QED BY <3>1, <3>2 DEF EndInv, Clients
  <2> QED BY <2>1, <2>2, <2>3 DEF EndInv, Clients
<1>5. AllReal'
  <2> SUFFICES ASSUME NEW d \in Client PROVE Real(d, result[d])'
    BY DEF AllReal
  <2>1. Real(d, result'[d])
    BY DEF EndInv, AllReal, Clients
  <2> QED BY <2>1 DEF Real
<1> QED BY <1>1, <1>3, <1>4, <1>5 DEF EndInv

\* Nothing the invariant speaks of changes.
LEMMA NothingChanges ==
  ASSUME EndInv, UNCHANGED <<holder, child, told, prints, verb, down, at, result>>
  PROVE  EndInv'
BY DEF EndInv, World, Clients, Wires, AllReal, Waits, Real, Ending

\* The child ends before its end is published.
LEMMA ChildStops ==
  ASSUME EndInv, child = Running, child' \in Ends,
         UNCHANGED <<holder, told, prints, verb, down, at, result>>
  PROVE  EndInv'
<1>1. ~told /\ ~told' /\ child' # Running
  BY EndTypes DEF EndInv, World
<1>2. World'
  BY <1>1 DEF EndInv, World
<1>3. Ending' = Ending
  BY <1>1 DEF Ending
<1>4. Wires' /\ Clients'
  BY <1>3 DEF EndInv, Wires, Waits, Clients
<1>5. AllReal'
  BY DEF EndInv, AllReal, Real
<1> QED BY <1>2, <1>4, <1>5 DEF EndInv

\* What a client is sent by Broadcast, whatever it is.
LEMMA BroadcastTo ==
  ASSUME Clients, NEW bytes, Broadcast(bytes), NEW c \in Client
  PROVE  down'[c] = down[c] \/ down'[c] = down[c] \o bytes
BY DEF Broadcast

\* Output is appended while nothing is published.
LEMMA PrintsKeep ==
  ASSUME EndInv, ChildPrints
  PROVE  EndInv'
<1>1. /\ holder = "up" /\ child = Running /\ prints < MaxPrints /\ prints' = prints + 1
      /\ Broadcast(Encode(Data, <<prints'>>))
      /\ UNCHANGED <<holder, child, told, at, result, verb>>
  BY DEF ChildPrints
<1>2. ~told /\ MaxPrints \in 0 .. 255
  BY <1>1, AttachAssumption DEF EndInv, World, Byte
<1>3. prints' \in 0 .. MaxPrints /\ prints' \in Byte
  BY <1>1, <1>2 DEF EndInv, World, Byte
<1>4. Ending = {} /\ Ending' = {}
  BY <1>1, <1>2 DEF Ending
<1>5. ASSUME NEW c \in Client PROVE Clean(down'[c], {})
  <2>1. Clean(down[c], {})
    BY <1>1, <1>4 DEF EndInv, Wires, Waits
  <2>2. Clean(down[c] \o DataFrame(prints'), {})
    BY <1>3, <2>1, CleanData
  <2>3. down'[c] = down[c] \/ down'[c] = down[c] \o DataFrame(prints')
    BY <1>1, BroadcastTo DEF EndInv, DataFrame
  <2> QED BY <2>1, <2>2, <2>3
<1>6. Wires'
  BY <1>4, <1>5 DEF Wires, Waits
<1>7. Clients'
  <2>1. \A c \in Client : down'[c] \in Seq(Byte)
    BY <1>6, WaitsBytes DEF Wires, Waits, Clean, Torn, Framed
  <2>2. down' = [c \in Client |-> down'[c]]
    BY <1>1 DEF Broadcast
  <2> QED BY <1>1, <2>1, <2>2 DEF EndInv, Clients
<1>8. World' /\ AllReal'
  BY <1>1, <1>3 DEF EndInv, World, AllReal, Real
<1> QED BY <1>6, <1>7, <1>8 DEF EndInv

\* The end is appended once, as the last frame.
LEMMA PublishKeeps ==
  ASSUME EndInv, Publish
  PROVE  EndInv'
<1>1. /\ holder = "up" /\ child # Running /\ ~told /\ told' = TRUE
      /\ Broadcast(ExitFrame)
      /\ UNCHANGED <<holder, child, prints, at, result, verb>>
  BY DEF Publish
<1>2. World'
  BY <1>1 DEF EndInv, World
<1>3. PICK e : e = ToPayload(child)
  OBVIOUS
<1>4. Ending = {} /\ Ending' = {e} /\ e \in Payloads
  BY <1>1, <1>3, ToPayloadType DEF Ending, EndInv, World
<1>5. ASSUME NEW c \in Client PROVE Clean(down'[c], {e})
  <2>1. Clean(down[c], {})
    BY <1>1, <1>4 DEF EndInv, Wires, Waits
  <2>2. Clean(down[c] \o EndFrame(e), {e})
    BY <1>4, <2>1, CleanEnd
  <2>3. Clean(down[c], {e})
    BY <2>1 DEF Clean, Last
  <2>4. down'[c] = down[c] \/ down'[c] = down[c] \o EndFrame(e)
    BY <1>1, <1>3, BroadcastTo DEF EndInv, EndFrame, ExitFrame
  <2> QED BY <2>2, <2>3, <2>4
<1>6. Wires'
  BY <1>4, <1>5 DEF Wires, Waits
<1>7. Clients'
  <2>1. \A c \in Client : down'[c] \in Seq(Byte)
    BY <1>5 DEF Clean, Framed
  <2>2. down' = [c \in Client |-> down'[c]]
    BY <1>1 DEF Broadcast
  <2> QED BY <1>1, <2>1, <2>2 DEF EndInv, Clients
<1>8. AllReal'
  BY <1>1 DEF EndInv, AllReal, Real
<1> QED BY <1>2, <1>6, <1>7, <1>8 DEF EndInv

\* A holder that stops leaves clean bytes or torn ones.
LEMMA StopKeeps ==
  ASSUME EndInv, HolderStops
  PROVE  EndInv'
<1>1. /\ holder = "up" /\ holder' = "down" /\ UNCHANGED <<child, told, prints, at, result, verb>>
  BY DEF HolderStops
<1>2. PICK cut \in [serving \cap open -> Cuts] :
        down' = [c \in Client |-> IF c \in serving \cap open /\ cut[c] < Len(down[c])
                                  THEN Starting(down[c], cut[c]) ELSE down[c]]
  BY DEF HolderStops
<1>3. World' /\ AllReal' /\ Ending' = Ending
  BY <1>1 DEF EndInv, World, AllReal, Real, Ending
<1>4. ASSUME NEW c \in Client PROVE Clean(down'[c], Ending) \/ Torn(down'[c], Ending)
  <2>1. Clean(down[c], Ending) /\ down[c] \in Seq(Byte)
    BY <1>1 DEF EndInv, Wires, Waits, Clients
  <2>2. CASE c \in serving \cap open /\ cut[c] < Len(down[c])
    <3>1. Len(down[c]) \in Nat /\ cut[c] \in Nat
      BY <2>1, <2>2, LenProperties, AttachAssumption
    <3>2. PICK n \in 0 .. Len(down[c]) : n = cut[c]
      BY <2>2, <3>1
    <3>3. Ending \in SUBSET Payloads
      BY EndingType DEF EndInv
    <3>4. Clean(Starting(down[c], n), Ending) \/ Torn(Starting(down[c], n), Ending)
      BY <2>1, <3>3, CleanCut
    <3> QED BY <1>2, <2>2, <3>2, <3>4
  <2>3. CASE ~(c \in serving \cap open /\ cut[c] < Len(down[c]))
    BY <1>2, <2>1, <2>3
  <2> QED BY <2>2, <2>3
<1>5. Wires'
  BY <1>1, <1>3, <1>4 DEF Wires, Waits
<1>6. Clients'
  <2>1. \A c \in Client : down'[c] \in Seq(Byte)
    BY <1>4 DEF Clean, Torn, Framed
  <2> QED BY <1>1, <1>2, <2>1 DEF EndInv, Clients
<1> QED BY <1>3, <1>5, <1>6 DEF EndInv

\* What the holder does of its own.
LEMMA HolderKeepsEnd ==
  ASSUME EndInv, ChildPrints \/ ChildEnds \/ Publish \/ HolderStops
  PROVE  EndInv'
<1>1. CASE ChildEnds
  <2>1. child = Running /\ child' \in Ends /\ UNCHANGED <<holder, told, prints, verb, down, at, result>>
    BY <1>1 DEF ChildEnds, Ends, wireVars
  <2> QED BY <2>1, ChildStops
<1> QED BY <1>1, PrintsKeep, PublishKeeps, StopKeeps

\* What a client is let in with is clean.
LEMMA ReplayClean ==
  ASSUME World
  PROVE  Clean(Replay, Ending)
<1> DEFINE out == IF prints > 0 THEN Encode(Data, <<prints>>) ELSE << >>
           end == IF told THEN ExitFrame ELSE << >>
<1>1. Clean(out, {}) /\ out \in Seq(Byte)
  <2>1. CASE prints > 0
    <3>1. PICK p \in Byte : p = prints
      BY AttachAssumption DEF World, Byte
    <3>2. PICK f \in Seq(Byte) : f = DataFrame(p)
      BY DataFrameBytes
    <3>3. Clean(<< >> \o DataFrame(p), {})
      BY CleanEmpty, CleanData
    <3>4. << >> \o f = f
      BY ConcatEmptySeq
    <3>5. out = f
      BY <2>1, <3>1, <3>2 DEF DataFrame
    <3> QED BY <3>2, <3>3, <3>4, <3>5
  <2>2. CASE ~(prints > 0)
    BY <2>2, CleanEmpty, EmptySeq
  <2> QED BY <2>1, <2>2
<1>2. Replay = out \o end
  BY DEF Replay
<1> HIDE DEF out
<1>3. CASE told
  <2>1. PICK e : e = ToPayload(child)
    OBVIOUS
  <2>2. Ending = {e} /\ e \in Payloads
    BY <1>3, <2>1, EndingType DEF Ending
  <2>3. Clean(out \o EndFrame(e), {e})
    BY <1>1, <2>2, CleanEnd
  <2>4. end = EndFrame(e)
    BY <1>3, <2>1 DEF EndFrame, ExitFrame
  <2> QED BY <1>2, <2>2, <2>3, <2>4
<1>4. CASE ~told
  <2>1. Ending = {} /\ end = << >>
    BY <1>4 DEF Ending
  <2>2. out \o << >> = out
    BY <1>1, ConcatEmptySeq
  <2> QED BY <1>1, <1>2, <2>1, <2>2
<1> QED BY <1>3, <1>4

\* A client moves on.
LEMMA MoveKeepsEnd ==
  ASSUME EndInv, NEW c \in Client, NEW to \in Place \ {"idle"}, at' = [at EXCEPT ![c] = to],
         UNCHANGED <<holder, child, told, prints, verb, down, result>>
  PROVE  EndInv'
BY ClientChanges

\* A client is let in with a clean replay; what it sends may end the child.
LEMMA HandlerKeepsEnd ==
  ASSUME EndInv, NEW c \in Client, Handler(c)
  PROVE  EndInv'
<1>1. CASE Register(c)
  <2>1. /\ UNCHANGED <<holder, child, told, prints, verb, result, at>>
        /\ down' = [down EXCEPT ![c] = Replay]
    BY <1>1 DEF Register
  <2>2. Waits(Replay)
    BY ReplayClean DEF EndInv, Waits
  <2>3. PICK b, to : b = Replay /\ to = "granted"
    OBVIOUS
  <2> QED BY <2>1, <2>2, <2>3, ClientChanges
<1>4. CASE Reply(c)
  <2>1. UNCHANGED <<holder, child, told, prints, verb, down, result>>
    BY <1>4 DEF Reply, wireVars
  <2>2. at' = at \/ at' = [at EXCEPT ![c] = "granted"]
    BY <1>4 DEF Reply
  <2>3. "granted" \in Place \ {"idle"}
    BY DEF Place
  <2> QED BY <2>1, <2>2, <2>3, MoveKeepsEnd, NothingChanges
<1>2. CASE Serve(c)
  <2>1. UNCHANGED <<holder, told, prints, verb, down, at, result>>
    BY <1>2 DEF Serve
  <2>2. child' = child \/ (child = Running /\ child' \in Ends)
    BY <1>2 DEF Serve, Ends
  <2> QED BY <2>1, <2>2, ChildStops, NothingChanges
<1>3. CASE ServeEnd(c)
  <2>1. UNCHANGED <<holder, child, told, prints, verb, down, at, result>>
    BY <1>3 DEF ServeEnd, wireVars
  <2> QED BY <2>1, NothingChanges
<1> QED BY <1>1, <1>2, <1>3, <1>4 DEF Handler

\* A frame that is read is output, or an end that was published; the bytes after
\* it may wait as those before it did.
LEMMA NextFrameIs ==
  ASSUME EndInv, NEW c \in Client, NEW f \in NextFrame(c)
  PROVE  /\ Waits(f.rest)
         /\ f.is = "frame" /\ f.kind = Exited => f.payload \in Ending
<1>1. Ending \in SUBSET Payloads
  BY EndingType DEF EndInv
<1>2. Waits(down[c])
  BY DEF EndInv, Wires
<1>3. Data # Exited
  BY DEF Data, Exited
<1>4. CASE f = ReadFrame(down[c])
  <2>1. CASE Clean(down[c], Ending)
    BY <1>1, <1>3, <1>4, <2>1, ReadClean DEF Waits
  <2>2. CASE holder = "down" /\ Torn(down[c], Ending)
    BY <1>1, <1>3, <1>4, <2>2, ReadTorn DEF Waits
  <2> QED BY <1>2, <2>1, <2>2 DEF Waits
<1>5. CASE f = BadFrame
  <2>1. f.is = "bad" /\ f.rest = << >>
    BY <1>5 DEF BadFrame, NoFrame
  <2> QED BY <2>1, CleanEmpty DEF Waits
<1>6. f = ReadFrame(down[c]) \/ f = BadFrame
  BY DEF NextFrame
<1> QED BY <1>4, <1>5, <1>6

\* A client ends.
LEMMA GoneKeeps ==
  ASSUME EndInv, NEW c \in Client, NEW r \in Results, Real(c, r), Gone(c, r), at[c] # "gone",
         UNCHANGED <<holder, child, told, prints, verb>>
  PROVE  EndInv'
<1>1. PICK none, to : none = << >> /\ to = "gone"
  OBVIOUS
<1>2. down' = [down EXCEPT ![c] = none] /\ Waits(none)
  BY <1>1, CleanEmpty DEF Gone, Waits
<1>3. at' = [at EXCEPT ![c] = to] /\ to \in Place \ {"idle"} /\ at' # at
  BY <1>1 DEF Gone, Place, EndInv, Clients
<1>4. result' = [result EXCEPT ![c] = r]
  BY DEF Gone
<1> QED BY <1>2, <1>3, <1>4, ClientChanges

\* A verb is chosen before there is a result.
LEMMA DialKeepsEnd ==
  ASSUME EndInv, NEW c \in Client, Dial(c)
  PROVE  EndInv'
<1>1. /\ at[c] = "idle" /\ at' = [at EXCEPT ![c] = "dialled"]
      /\ UNCHANGED <<holder, child, told, prints, down, result>>
      /\ verb' = verb \/ (c \in Runner /\ \E does \in Verbs : verb' = [verb EXCEPT ![c] = does])
  <2>1. c \in Human \/ c \in Runner
    BY DEF Client
  <2> QED BY <2>1 DEF Dial, holderVars
<1>2. World' /\ Ending' = Ending
  BY <1>1 DEF EndInv, World, Ending
<1>3. Wires'
  BY <1>1, <1>2 DEF EndInv, Wires, Waits
<1>4. Clients'
  BY <1>1 DEF EndInv, Clients, Place
<1>5. ASSUME NEW d \in Client PROVE Real(d, result[d])'
  <2>1. CASE d = c
    BY <1>1, <2>1 DEF EndInv, Clients, Real
  <2>2. CASE d # c
    <3>1. d \in Runner => verb'[d] = verb[d]
      BY <1>1, <2>2 DEF EndInv, Clients
    <3> QED BY <1>1, <3>1 DEF EndInv, AllReal, Real
  <2> QED BY <2>1, <2>2
<1> QED BY <1>2, <1>3, <1>4, <1>5 DEF EndInv, AllReal

\* A refusal is an error, and so is an end before the reply.
LEMMA RefusedKeepsEnd ==
  ASSUME EndInv, NEW c \in Client, Refused(c) \/ GiveUp(c)
  PROVE  EndInv'
<1>1. /\ Gone(c, Error) /\ at[c] # "gone" /\ UNCHANGED <<holder, child, told, prints, verb>>
  BY DEF Refused, GiveUp, holderVars
<1> QED BY <1>1, OtherIsReal, GoneKeeps

\* Sizes go the other way.
LEMMA ResizingKeepsEnd ==
  ASSUME EndInv, NEW h \in Human, Resizing(h)
  PROVE  EndInv'
<1>1. h \in Client /\ "jiggling" \in Place \ {"idle"} /\ "looping" \in Place \ {"idle"}
  BY DEF Client, Place
<1>2. UNCHANGED <<holder, child, told, prints, verb, down, result>>
  BY DEF Resizing, FirstSize, Jiggle, TakeLatch, LookSize, SendSize, holderVars, wireVars
<1>3. at' = at \/ at' = [at EXCEPT ![h] = "jiggling"] \/ at' = [at EXCEPT ![h] = "looping"]
  BY DEF Resizing, FirstSize, Jiggle, TakeLatch, LookSize, SendSize, Move
<1> QED BY <1>1, <1>2, <1>3, MoveKeepsEnd, NothingChanges

\* The loop: an error, 0, or the code of a frame that was read.
LEMMA OutputKeepsEnd ==
  ASSUME EndInv, NEW h \in Human, Output(h)
  PROVE  EndInv'
<1>1. h \in Client /\ h \notin Runner
  BY AttachAssumption DEF Client
<1>2. /\ at[h] = "looping" /\ UNCHANGED <<holder, child, told, prints, verb>>
  BY DEF Output, holderVars
<1>3. PICK f \in NextFrame(h) :
        /\ down' = [down EXCEPT ![h] = f.rest]
        /\ \/ UNCHANGED <<at, result>>
           \/ Move(h, "returning") /\ result' = [result EXCEPT ![h] = Error]
           \/ /\ f.is = "frame" /\ f.kind = Exited /\ Move(h, "returning")
              /\ result' = [result EXCEPT ![h] = Done(ProcessCode(FromPayload(f.payload)))]
           \/ Move(h, "returning") /\ result' = [result EXCEPT ![h] = Done(0)]
  BY DEF Output
<1>4. PICK b : b = f.rest
  OBVIOUS
<1>5. down' = [down EXCEPT ![h] = b] /\ Waits(b)
  BY <1>1, <1>3, <1>4, NextFrameIs
<1>6. PICK to \in Place \ {"idle"} : to = "returning"
  BY DEF Place
<1>7. Move(h, "returning") => at' = [at EXCEPT ![h] = to] /\ at' # at
  BY <1>1, <1>2, <1>6 DEF Move, EndInv, Clients
<1>8. CASE UNCHANGED <<at, result>>
  <2>1. PICK r : r = Error
    OBVIOUS
  <2> QED BY <1>1, <1>2, <1>5, <1>8, ClientChanges
<1>9. ASSUME NEW r \in Results, Real(h, r), Move(h, "returning"), result' = [result EXCEPT ![h] = r]
      PROVE  EndInv'
  BY <1>1, <1>2, <1>5, <1>7, <1>9, ClientChanges
<1>10. CASE /\ f.is = "frame" /\ f.kind = Exited /\ Move(h, "returning")
            /\ result' = [result EXCEPT ![h] = Done(ProcessCode(FromPayload(f.payload)))]
  <2>1. f.payload \in Ending
    BY <1>1, <1>10, NextFrameIs
  <2>2. PICK e \in Ending : e = f.payload
    BY <2>1
  <2>3. PICK r : r = Done(ProcessCode(FromPayload(e)))
    OBVIOUS
  <2>4. r \in Results /\ Real(h, r)
    BY <1>1, <2>3, CodeIsReal DEF EndInv
  <2> QED BY <1>9, <1>10, <2>2, <2>3, <2>4
<1> QED BY <1>1, <1>3, <1>8, <1>9, <1>10, OtherIsReal

\* An attacher comes to what its loop came to.
LEMMA AttachingKeepsEnd ==
  ASSUME EndInv, NEW h \in Human, Attaching(h)
  PROVE  EndInv'
<1>1. h \in Client /\ {"raw", "returning", "looping", "handling"} \subseteq Place \ {"idle"}
  BY DEF Client, Place
<1>2. CASE EnterRaw(h)
  <2>1. at[h] = "granted" /\ UNCHANGED <<holder, child, told, prints, verb, down>>
    BY <1>2 DEF EnterRaw, holderVars, wireVars
  <2>2. PICK to \in Place \ {"idle"} : /\ to # "granted" /\ at' = [at EXCEPT ![h] = to]
                                       /\ result' = result \/ result' = [result EXCEPT ![h] = Error]
    BY <1>1, <1>2 DEF EnterRaw, Move
  <2>3. at' # at
    BY <1>1, <2>1, <2>2 DEF EndInv, Clients
  <2>4. PICK r \in Results : r = Error /\ Real(h, r)
    BY OtherIsReal
  <2> QED BY <1>1, <2>1, <2>2, <2>3, <2>4, ClientChanges
<1>3. CASE Install(h)
  <2>1. /\ UNCHANGED <<holder, child, told, prints, verb, down, result>>
        /\ at' = [at EXCEPT ![h] = "handling"]
    BY <1>3 DEF Install, Move, holderVars, wireVars
  <2> QED BY <1>1, <2>1, MoveKeepsEnd
<1>4. CASE Output(h)
  BY <1>4, OutputKeepsEnd
<1>5. CASE Return(h)
  <2>1. /\ Gone(h, result[h]) /\ at[h] # "gone" /\ UNCHANGED <<holder, child, told, prints, verb>>
    BY <1>5 DEF Return, holderVars
  <2>2. result[h] \in Results /\ Real(h, result[h])
    BY <1>1 DEF EndInv, Clients, AllReal
  <2> QED BY <1>1, <2>1, <2>2, GoneKeeps
<1> QED BY <1>2, <1>3, <1>4, <1>5 DEF Attaching

\* The verbs: a client that ends with a result that is real, or that reads on.
LEMMA RunnerKeepsEnd ==
  ASSUME EndInv, NEW c \in Runner, Act(c) \/ Capture(c) \/ Stream(c)
  PROVE  EndInv'
<1>1. c \in Client
  BY DEF Client
<1>2. /\ at[c] = "granted" /\ at[c] # "gone" /\ UNCHANGED <<holder, child, told, prints, verb>>
  BY DEF Act, Capture, Stream, holderVars
<1>3. ASSUME Gone(c, Error) \/ Gone(c, Unfinished) \/ (verb[c] # "stream" /\ Gone(c, Done(0)))
      PROVE  EndInv'
  BY <1>1, <1>2, <1>3, OtherIsReal, GoneKeeps
<1>4. ASSUME NEW f \in NextFrame(c), down' = [down EXCEPT ![c] = f.rest], UNCHANGED <<at, result>>
      PROVE  EndInv'
  <2>1. PICK b, r : b = f.rest /\ r = Error
    OBVIOUS
  <2>2. Waits(b)
    BY <1>1, <2>1, NextFrameIs
  <2> QED BY <1>1, <1>2, <1>4, <2>1, <2>2, ClientChanges
<1>5. CASE Act(c)
  <2>1. verb[c] # "stream"
    BY <1>5 DEF Act, Typing
  <2>2. Gone(c, Error) \/ Gone(c, Done(0))
    BY <1>5 DEF Act
  <2> QED BY <1>3, <2>1, <2>2
<1>6. CASE Capture(c)
  <2>1. verb[c] # "stream"
    BY <1>6 DEF Capture
  <2> QED BY <1>3, <1>4, <1>6, <2>1 DEF Capture
<1>7. CASE Stream(c)
  <2>1. PICK f \in NextFrame(c) :
          \/ down' = [down EXCEPT ![c] = f.rest] /\ UNCHANGED <<at, result, open>>
          \/ f.is = "frame" /\ f.kind = Exited /\ Gone(c, Done(ProcessCode(FromPayload(f.payload))))
          \/ Gone(c, Unfinished)
    BY <1>7 DEF Stream
  <2>2. CASE f.is = "frame" /\ f.kind = Exited /\ Gone(c, Done(ProcessCode(FromPayload(f.payload))))
    <3>1. PICK e \in Ending : e = f.payload
      BY <1>1, <2>2, NextFrameIs
    <3>2. PICK r : r = Done(ProcessCode(FromPayload(e)))
      OBVIOUS
    <3>3. r \in Results /\ Real(c, r)
      BY <1>1, <3>2, CodeIsReal DEF EndInv
    <3> QED BY <1>1, <1>2, <2>2, <3>1, <3>2, <3>3, GoneKeeps
  <2> QED BY <1>3, <1>4, <2>1, <2>2
<1> QED BY <1>5, <1>6, <1>7

\* The invariant is inductive.
LEMMA EndNext == EndInv /\ [Next]_vars => EndInv'
<1> SUFFICES ASSUME EndInv, [Next]_vars PROVE EndInv'
  OBVIOUS
<1>1. CASE UNCHANGED vars
  BY <1>1, NothingChanges DEF vars, holderVars, wireVars
<1>2. CASE ChildPrints \/ ChildEnds \/ Publish \/ HolderStops
  BY <1>2, HolderKeepsEnd
<1>3. ASSUME NEW c \in Client, Dial(c) \/ Refused(c) \/ GiveUp(c) \/ Handler(c) PROVE EndInv'
  BY <1>3, DialKeepsEnd, RefusedKeepsEnd, HandlerKeepsEnd
<1>4. ASSUME NEW h \in Human, Resizing(h) \/ Attaching(h) PROVE EndInv'
  BY <1>4, ResizingKeepsEnd, AttachingKeepsEnd
<1>5. ASSUME NEW h \in Human, Type(h) \/ Turn(h) PROVE EndInv'
  BY <1>5, NothingChanges DEF Type, Turn, holderVars, wireVars
<1>6. ASSUME NEW c \in Runner, Act(c) \/ Capture(c) \/ Stream(c) PROVE EndInv'
  BY <1>6, RunnerKeepsEnd
<1> QED BY <1>1, <1>2, <1>3, <1>4, <1>5, <1>6 DEF Next

\* A code other than 0, and every exit an observer's stream passes on, is the
\* child's, wherever a dying holder cuts the bytes (read_frame, attach, and the
\* stream of an observer).
THEOREM EndsAreReal == Spec => []EndIsReal
<1>1. Init => EndInv
  BY EndInit
<1>2. EndInv /\ [Next]_vars => EndInv'
  BY EndNext
<1>3. EndInv => EndIsReal
  BY DEF EndInv, AllReal, Real, EndIsReal
<1> QED BY <1>1, <1>2, <1>3, PTL DEF Spec
=============================================================================
