--------------------------------- MODULE Frames ---------------------------------
(***************************************************************************)
(* The attach wire protocol, byte by byte: a frame is a kind, the length   *)
(* of its payload in four bytes, and the payload; the payload of an exit   *)
(* is how the child ended and a signed number.                             *)
(***************************************************************************)
EXTENDS Integers, Sequences

CONSTANT MaxPayload   \* bytes a frame may carry (16384)

Byte == 0 .. 255
MaxI32 == 2147483647
MinI32 == -MaxI32 - 1

ASSUME FramesAssumption == MaxPayload \in 0 .. MaxI32

-----------------------------------------------------------------------------
\* u32, little endian.
Le32(n) == <<n % 256, (n \div 256) % 256, (n \div 65536) % 256, (n \div 16777216) % 256>>

FromLe32(b) == b[1] + 256 * b[2] + 65536 * b[3] + 16777216 * b[4]

\* i32, little endian and two's complement: the top byte holds the sign.
I32(b) == b[1] + 256 * b[2] + 65536 * b[3] + 16777216 * (IF b[4] >= 128 THEN b[4] - 256 ELSE b[4])

-----------------------------------------------------------------------------
\* How a child ended.
Code(n)   == [by |-> "code", n |-> n]
Killed(n) == [by |-> "signal", n |-> n]

ToPayload(e) == <<IF e.by = "code" THEN 0 ELSE 1>> \o Le32(e.n)

BadExit == [by |-> "bad", n |-> 0]

MutFromPayloadCode(p) == Code(I32(Tail(p)))

FromPayload(p) ==
  IF Len(p) # 5 \/ p[1] \notin {0, 1} THEN BadExit
  ELSE IF p[1] = 0 THEN Code(I32(Tail(p))) ELSE Killed(I32(Tail(p)))

\* The status a command line exits with.
ProcessCode(e) == IF e.by = "signal" THEN 128 + e.n ELSE e.n

-----------------------------------------------------------------------------
\* Kinds, by direction: holder to client, client to holder.
Data   == 0
Exited == 2
Input  == 0
Resize == 1
Signal == 3

Encode(kind, payload) == <<kind>> \o Le32(Len(payload)) \o payload

NoFrame  == [is |-> "none", kind |-> 0, payload |-> << >>, rest |-> << >>]
BadFrame == [NoFrame EXCEPT !.is = "bad"]

Starting(bytes, n) == SubSeq(bytes, 1, n)
After(bytes, n)    == SubSeq(bytes, n + 1, Len(bytes))

\* What read_frame returns of bytes after which the peer is gone: None at the
\* end of a frame, an error inside of one or for a length over the limit.
ReadFrame(bytes) ==
  LET len == FromLe32(After(bytes, 1))
  IN IF bytes = << >> THEN NoFrame
     ELSE IF Len(bytes) < 5 THEN BadFrame
     ELSE IF len > MaxPayload \/ Len(bytes) < 5 + len THEN BadFrame
     ELSE [is |-> "frame", kind |-> bytes[1], payload |-> SubSeq(bytes, 6, 5 + len),
           rest |-> After(bytes, 5 + len)]
=============================================================================
