--------------------------------- MODULE Attach ---------------------------------
(***************************************************************************)
(* The attach client: the interactive loop of `disponent attach` with its  *)
(* terminal, its threads and its window, and the one-shot verbs the engine *)
(* and the command line drive a held session with.  What passes between a  *)
(* client and the holder is bytes (Frames), which a holder that dies cuts  *)
(* anywhere.                                                               *)
(*                                                                         *)
(* The holder is here what module Holder says of it: a registered client   *)
(* gets all output and then the exit, one writer at a time.  Heartbeats    *)
(* are left out; a reader ignores them.                                    *)
(***************************************************************************)
EXTENDS Frames, FiniteSets

CONSTANTS
  Human,      \* interactive attachers
  Runner,     \* one-shot verbs, each run once
  Exits,      \* how the child may end
  Windows,    \* sizes a window may have
  Widest,     \* the largest size (65535)
  FirstRows,  \* the size the pty is opened with
  MaxPrints, MaxActs,  \* bounds: output (a chunk is a byte), what a human does
  Cuts                           \* bound: where a dead holder may cut a client's bytes

Client == Human \cup Runner
None   == "none"

Modes == {m \in [write : BOOLEAN, restore : BOOLEAN] : m.restore => m.write}
\* An interrupt is a send of C-c; a paste is one of more than a frame may carry.
Typing == {"send", "paste"}
Verbs  == Typing \cup {"kill", "capture", "stream"}

Running == [by |-> "nobody", n |-> 0]

ASSUME AttachAssumption ==
  /\ Human \cap Runner = {} /\ None \notin Client
  /\ Windows \subseteq 1 .. Widest /\ FirstRows \in 1 .. Widest
  /\ Exits \subseteq [by : {"code"}, n : -1 .. 255] \cup [by : {"signal"}, n : 1 .. 127]
  /\ MaxPrints \in Byte /\ MaxPayload >= 5 /\ Cuts \subseteq Nat

VARIABLES
  \* the holder
  holder,    \* up or down: main returned, or the process was killed
  child,     \* running, or how it ended
  told,      \* TRUE once the exit is published
  prints,    \* chunks printed
  lock,      \* who holds the writer lock
  size,      \* the pty's size
  typed,     \* per client, inputs of its that reached the pty
  greeting,  \* clients in the list whose handler has not replied to them
  serving,   \* clients whose handler relays their frames
  \* the two directions of each socket
  down,      \* per client, bytes for it
  up,        \* per client, frames the handler has not read
  open,      \* clients whose end is open
  \* every client
  at,        \* where it is
  role,      \* the role it was granted
  result,    \* what it came to
  \* a human's
  wants,     \* [write, restore]; a reader's restore changes only what its replay shows
  tty,       \* the mode of the terminal: cooked or raw
  window,    \* its window's size
  handled,   \* TRUE once SIGWINCH has its handler
  latch,     \* WINCH
  sizing,    \* the resize thread, or the jiggle: [at, seen]
  acts,      \* keys typed and windows resized so far
  \* a runner's
  verb

holderVars == <<holder, child, told, prints, lock, size, typed, greeting, serving>>
wireVars   == <<down, up, open>>
humanVars  == <<wants, tty, window, handled, latch, sizing, acts>>
vars       == <<holderVars, wireVars, humanVars, at, role, result, verb>>

(***************************************************************************)
(* The holder.                                                             *)
(***************************************************************************)
Listed == greeting \cup serving

Broadcast(bytes) == down' = [c \in Client |-> IF c \in Listed \cap open THEN down[c] \o bytes ELSE down[c]]

ChildPrints ==
  /\ holder = "up" /\ child = Running /\ prints < MaxPrints
  /\ prints' = prints + 1
  /\ Broadcast(Encode(Data, <<prints'>>))
  /\ UNCHANGED <<holder, child, told, lock, size, typed, greeting, serving, up, open, humanVars, at, role, result, verb>>

ChildEnds ==
  /\ holder = "up" /\ child = Running
  /\ child' \in Exits
  /\ UNCHANGED <<holder, told, prints, lock, size, typed, greeting, serving, wireVars, humanVars, at, role, result, verb>>

ExitFrame == Encode(Exited, ToPayload(child))

Publish ==
  /\ holder = "up" /\ child # Running /\ ~told
  /\ told' = TRUE
  /\ Broadcast(ExitFrame)
  /\ UNCHANGED <<holder, child, prints, lock, size, typed, greeting, serving, up, open, humanVars, at, role, result, verb>>

\* The process returns from main or is killed.  What its threads have not
\* written is lost: a client's bytes end anywhere.
HolderStops ==
  /\ holder = "up"
  /\ holder' = "down" /\ greeting' = {} /\ serving' = {} /\ lock' = None
  /\ \E cut \in [serving \cap open -> Cuts] :
       down' = [c \in Client |-> IF c \in serving \cap open /\ cut[c] < Len(down[c])
                                 THEN Starting(down[c], cut[c]) ELSE down[c]]
  /\ UNCHANGED <<child, told, prints, size, typed, up, open, humanVars, at, role, result, verb>>

\* The first request for the free lock gets it; everyone is let in.  The first
\* bytes are what was printed, and the exit when there is one.
Replay ==
  (IF prints > 0 THEN Encode(Data, <<prints>>) ELSE << >>) \o (IF told THEN ExitFrame ELSE << >>)

\* attach asks for the lock iff it is to write.
AttachRole(h) == IF wants[h].write THEN "writer" ELSE "reader"

\* The roles: what a client asks for, and what the reply says it was granted.
Asked(c) ==
  IF c \in Human THEN AttachRole(c)
  ELSE IF verb[c] \in Typing THEN "writer" ELSE "reader"

\* Under the list's lock: the grant, the replay, the entry.
Register(c) ==
  /\ holder = "up" /\ at[c] = "dialled" /\ role[c] = None
  /\ LET wins == Asked(c) = "writer" /\ lock = None
     IN /\ role' = [role EXCEPT ![c] = IF wins THEN "writer" ELSE "reader"]
        /\ lock' = IF wins THEN c ELSE lock
  /\ greeting' = greeting \cup {c}
  /\ down' = [down EXCEPT ![c] = Replay]
  /\ UNCHANGED <<holder, child, told, prints, size, typed, serving, up, open, humanVars, at, result, verb>>

\* The reply is written without the lock.  To a client that has ended it fails and
\* the handler returns: the lock, if it was granted, stays granted.
Reply(c) ==
  /\ c \in greeting
  /\ greeting' = greeting \ {c}
  /\ IF at[c] = "dialled"
     THEN serving' = serving \cup {c} /\ at' = [at EXCEPT ![c] = "granted"]
     ELSE UNCHANGED <<serving, at>>
  /\ UNCHANGED <<holder, child, told, prints, lock, size, typed, wireVars, humanVars, role, result, verb>>

\* The handler ends: out of the list, the lock freed if it was its own.
MutLeaveKeepsLock(c) == serving' = serving \ {c} /\ UNCHANGED lock

Leave(c) == serving' = serving \ {c} /\ lock' = IF lock = c THEN None ELSE lock

Head1(c) == up[c][1]

\* Only the writer's input and sizes reach the pty; a signal is anybody's.
MutReachesWriterOnly(c, kind) == role[c] = "writer"

Reaches(c, kind) == kind = Signal \/ role[c] = "writer"

Fits(frame) == frame.kind = Input => frame.size <= MaxPayload

\* One frame of a client.  A frame over the limit is an error, and a pty without
\* a child may refuse: the handler ends.
Serve(c) ==
  /\ c \in serving /\ up[c] # << >>
  /\ up' = [up EXCEPT ![c] = Tail(@)]
  /\ \/ /\ ~ Fits(Head1(c))
        /\ Leave(c) /\ UNCHANGED <<child, size, typed>>
     \/ /\ ~ Reaches(c, Head1(c).kind) /\ Fits(Head1(c))
        /\ UNCHANGED <<child, size, typed, lock, serving>>
     \/ /\ Head1(c).kind = Input /\ Reaches(c, Input) /\ Fits(Head1(c))
        /\ \/ typed' = [typed EXCEPT ![c] = @ + 1] /\ UNCHANGED <<lock, serving>>
           \/ child # Running /\ UNCHANGED typed /\ Leave(c)
        /\ UNCHANGED <<child, size>>
     \/ /\ Head1(c).kind = Resize /\ Reaches(c, Resize)
        /\ \/ size' = Head1(c).size /\ UNCHANGED <<lock, serving>>
           \/ child # Running /\ UNCHANGED size /\ Leave(c)
        /\ UNCHANGED <<child, typed>>
     \/ /\ Head1(c).kind = Signal /\ Reaches(c, Signal)
        /\ child' = IF child = Running THEN Killed(9) ELSE child
        /\ UNCHANGED <<size, typed, lock, serving>>
  /\ UNCHANGED <<holder, told, prints, greeting, down, open, humanVars, at, role, result, verb>>

\* The end of the client's bytes.
ServeEnd(c) ==
  /\ c \in serving /\ up[c] = << >> /\ c \notin open
  /\ Leave(c)
  /\ UNCHANGED <<holder, child, told, prints, size, typed, greeting, wireVars, humanVars, at, role, result, verb>>

(***************************************************************************)
(* Every client: dial, and the handshake.                                  *)
(***************************************************************************)
\* A process that ends closes its socket; what it had not read is dropped.
Gone(c, what) ==
  /\ at'     = [at EXCEPT ![c] = "gone"]
  /\ result' = [result EXCEPT ![c] = what]
  /\ open'   = open \ {c}
  /\ down'   = [down EXCEPT ![c] = << >>]

Error == [is |-> "error", n |-> 1]
Done(n) == [is |-> "code", n |-> n]
Unfinished == [is |-> "none", n |-> 0]

\* Nobody listens any more, or the holder died before it replied.
Refused(c) ==
  /\ holder = "down" /\ at[c] \in {"idle", "dialled"}
  /\ Gone(c, Error)
  /\ UNCHANGED <<holderVars, up, humanVars, role, verb>>

\* The process is killed while it waits for its reply.  (Killed before its request
\* is read, it is registered all the same.)
GiveUp(c) ==
  /\ c \in greeting /\ at[c] = "dialled"
  /\ Gone(c, Error)
  /\ UNCHANGED <<holderVars, up, humanVars, role, verb>>

\* The bounds on what a human does: one act less beside a verb, and nothing to a
\* dead holder, where it makes no difference.
MayAct(h) ==
  /\ holder = "up"
  /\ acts[h] < (IF \A c \in Runner : at[c] = "idle" THEN MaxActs ELSE MaxActs - 1)

MayDial(c) == c \in Runner => \A h \in Human : acts[h] < MaxActs

\* A command line: which verb, or attach with which flags, in what window.
Dial(c) ==
  /\ holder = "up" /\ at[c] = "idle" /\ MayDial(c)
  /\ at' = [at EXCEPT ![c] = "dialled"]
  /\ open' = open \cup {c}
  /\ IF c \in Human
     THEN /\ \E m \in Modes : wants' = [wants EXCEPT ![c] = m]
          /\ \E n \in Windows : window' = [window EXCEPT ![c] = n]
          /\ UNCHANGED verb
     ELSE /\ \E does \in Verbs : verb' = [verb EXCEPT ![c] = does]
          /\ UNCHANGED <<wants, window>>
  /\ UNCHANGED <<holderVars, down, up, tty, handled, latch, sizing, acts, role, result>>

\* A frame to the holder, if it is there to take it.
Send(c, frame) ==
  up' = [up EXCEPT ![c] = IF c \in serving THEN Append(@, frame) ELSE @]

Key        == [kind |-> Input, size |-> 0]
Paste      == [kind |-> Input, size |-> MaxPayload + 1]
Sized(n)   == [kind |-> Resize, size |-> n]
SignalNine == [kind |-> Signal, size |-> 0]

\* What a blocking read of the next frame gets: a frame, the end of the stream,
\* an error, or nothing yet.  A dead holder's unread input may reset the
\* connection.
NextFrame(c) ==
  LET f == ReadFrame(down[c])
  IN IF f.is = "frame" THEN {f}
     ELSE IF c \in serving THEN {}
     ELSE IF f.is = "none" /\ up[c] # << >> THEN {f, BadFrame} ELSE {f}

(***************************************************************************)
(* attach.                                                                 *)
(***************************************************************************)
Move(h, to) == at' = [at EXCEPT ![h] = to]

\* Who asked for the lock and was refused reads on, with a notice.
HoldsWriter(h) == role[h] = "writer"

\* RawGuard::enter, for the writer; reading the terminal's mode may fail.
EnterRaw(h) ==
  /\ at[h] = "granted"
  /\ \/ /\ HoldsWriter(h)
        /\ tty' = [tty EXCEPT ![h] = "raw"] /\ Move(h, "raw") /\ UNCHANGED result
     \/ /\ HoldsWriter(h)
        /\ Move(h, "returning") /\ result' = [result EXCEPT ![h] = Error] /\ UNCHANGED tty
     \/ /\ ~HoldsWriter(h)
        /\ Move(h, "looping") /\ UNCHANGED <<tty, result>>
  /\ UNCHANGED <<holderVars, wireVars, wants, window, handled, latch, sizing, acts, role, verb>>

Install(h) ==
  /\ at[h] = "raw"
  /\ handled' = [handled EXCEPT ![h] = TRUE]
  /\ Move(h, "handling")
  /\ UNCHANGED <<holderVars, wireVars, wants, tty, window, latch, sizing, acts, role, result, verb>>

Wider(n) == IF n < Widest THEN n + 1 ELSE n

NotSizing == [at |-> "idle", seen |-> 0]

\* The first size: as it is, or one larger and, a pause later, as it was.
FirstSize(h) ==
  /\ at[h] = "handling"
  /\ IF wants[h].restore
     THEN /\ Send(h, Sized(Wider(window[h])))
          /\ sizing' = [sizing EXCEPT ![h] = [at |-> "jiggle", seen |-> window[h]]]
          /\ Move(h, "jiggling")
     ELSE Send(h, Sized(window[h])) /\ UNCHANGED sizing /\ Move(h, "looping")
  /\ UNCHANGED <<holderVars, down, open, wants, tty, window, handled, latch, acts, role, result, verb>>

Jiggle(h) ==
  /\ at[h] = "jiggling"
  /\ Send(h, Sized(sizing[h].seen))
  /\ sizing' = [sizing EXCEPT ![h] = NotSizing]
  /\ Move(h, "looping")
  /\ UNCHANGED <<holderVars, down, open, wants, tty, window, handled, latch, acts, role, result, verb>>

\* The threads of a writer run from here until the process ends.
Threads(h) == at[h] \in {"looping", "returning"} /\ handled[h]

Type(h) ==
  /\ Threads(h) /\ MayAct(h)
  /\ acts' = [acts EXCEPT ![h] = @ + 1]
  /\ Send(h, Key)
  /\ UNCHANGED <<holderVars, down, open, wants, tty, window, handled, latch, sizing, at, role, result, verb>>

Turn(h) ==
  /\ at[h] \notin {"idle", "dialled", "gone"} /\ MayAct(h)
  /\ acts' = [acts EXCEPT ![h] = @ + 1]
  /\ \E w \in Windows \ {window[h]} : window' = [window EXCEPT ![h] = w]
  /\ latch' = [latch EXCEPT ![h] = handled[h]]
  /\ UNCHANGED <<holderVars, wireVars, wants, tty, handled, sizing, at, role, result, verb>>

\* The resize thread: take the latch, look at the window, send the size seen.
TakeLatch(h) ==
  /\ Threads(h) /\ sizing[h].at = "idle" /\ latch[h]
  /\ latch' = [latch EXCEPT ![h] = FALSE]
  /\ sizing' = [sizing EXCEPT ![h].at = "took"]
  /\ UNCHANGED <<holderVars, wireVars, wants, tty, window, handled, acts, at, role, result, verb>>

LookSize(h) ==
  /\ Threads(h) /\ sizing[h].at = "took"
  /\ sizing' = [sizing EXCEPT ![h] = [at |-> "looked", seen |-> window[h]]]
  /\ UNCHANGED <<holderVars, wireVars, wants, tty, window, handled, latch, acts, at, role, result, verb>>

MutSendSizeDrains(h) ==
  /\ Threads(h) /\ sizing[h].at = "looked"
  /\ Send(h, Sized(sizing[h].seen))
  /\ sizing' = [sizing EXCEPT ![h] = NotSizing] /\ latch' = [latch EXCEPT ![h] = FALSE]
  /\ UNCHANGED <<holderVars, down, open, wants, tty, window, handled, acts, at, role, result, verb>>

SendSize(h) ==
  /\ Threads(h) /\ sizing[h].at = "looked"
  /\ Send(h, Sized(sizing[h].seen))
  /\ sizing' = [sizing EXCEPT ![h] = NotSizing]
  /\ UNCHANGED <<holderVars, down, open, wants, tty, window, handled, latch, acts, at, role, result, verb>>

\* The output loop: a frame to stdout, which may be closed; the exit; the end of
\* the stream, which is taken for an exit with 0; an error.
Output(h) ==
  /\ at[h] = "looping"
  /\ \E f \in NextFrame(h) :
       /\ down' = [down EXCEPT ![h] = f.rest]
       /\ \/ f.is = "frame" /\ f.kind = Data /\ UNCHANGED <<at, result>>
          \/ f.is = "frame" /\ f.kind = Data /\ Move(h, "returning") /\ result' = [result EXCEPT ![h] = Error]
          \/ /\ f.is = "frame" /\ f.kind = Exited /\ Move(h, "returning")
             /\ result' = [result EXCEPT ![h] = Done(ProcessCode(FromPayload(f.payload)))]
          \/ f.is = "none" /\ Move(h, "returning") /\ result' = [result EXCEPT ![h] = Done(0)]
          \/ f.is = "bad" /\ Move(h, "returning") /\ result' = [result EXCEPT ![h] = Error]
  /\ UNCHANGED <<holderVars, up, open, humanVars, role, verb>>

\* attach returns on any of its paths: the guard is dropped, the process ends,
\* and with it the threads.
MutReturnKeepsRaw(h) ==
  /\ at[h] = "returning"
  /\ Gone(h, result[h])
  /\ UNCHANGED <<holderVars, up, humanVars, role, verb>>

Return(h) ==
  /\ at[h] = "returning"
  /\ tty' = [tty EXCEPT ![h] = "cooked"]
  /\ latch' = [latch EXCEPT ![h] = FALSE] /\ sizing' = [sizing EXCEPT ![h] = NotSizing]
  /\ Gone(h, result[h])
  /\ UNCHANGED <<holderVars, up, wants, window, handled, acts, role, verb>>

(***************************************************************************)
(* The verbs.                                                              *)
(***************************************************************************)
\* send, interrupt: a writer or a rejection.  kill: any client.  A dead
\* holder's socket refuses the frame.
Sends(c) == CASE verb[c] = "kill" -> SignalNine [] verb[c] = "paste" -> Paste [] OTHER -> Key

Act(c) ==
  /\ at[c] = "granted" /\ verb[c] \in Typing \cup {"kill"}
  /\ IF verb[c] \in Typing /\ role[c] # "writer"
     THEN UNCHANGED up /\ Gone(c, Error)
     ELSE /\ Send(c, Sends(c))
          /\ Gone(c, IF c \notin serving THEN Error ELSE Done(0))
  /\ UNCHANGED <<holderVars, humanVars, role, verb>>

\* capture: frames until the exit or the end, or until none came for a while.
Capture(c) ==
  /\ at[c] = "granted" /\ verb[c] = "capture"
  /\ \/ \E f \in NextFrame(c) :
          \/ /\ f.is = "frame" /\ f.kind = Data
             /\ down' = [down EXCEPT ![c] = f.rest]
             /\ UNCHANGED <<at, result, open>>
          \/ f.is = "frame" /\ f.kind = Exited /\ Gone(c, Done(0))
          \/ f.is = "none" /\ Gone(c, Done(0))
          \/ f.is = "bad" /\ Gone(c, Error)
     \/ Gone(c, Done(0))
  /\ UNCHANGED <<holderVars, up, humanVars, role, verb>>

\* The reader behind an observer's stream: it passes the exit on.  The end of the
\* frames, and an error, end the stream without one.
Stream(c) ==
  /\ at[c] = "granted" /\ verb[c] = "stream"
  /\ \E f \in NextFrame(c) :
       \/ /\ f.is = "frame" /\ f.kind = Data
          /\ down' = [down EXCEPT ![c] = f.rest]
          /\ UNCHANGED <<at, result, open>>
       \/ f.is = "frame" /\ f.kind = Exited /\ Gone(c, Done(ProcessCode(FromPayload(f.payload))))
       \/ f.is \in {"none", "bad"} /\ Gone(c, Unfinished)
  /\ UNCHANGED <<holderVars, up, humanVars, role, verb>>

-----------------------------------------------------------------------------
Init ==
  /\ holder = "up" /\ child = Running /\ told = FALSE /\ prints = 0
  /\ lock = None /\ size = FirstRows /\ typed = [c \in Client |-> 0] /\ greeting = {} /\ serving = {}
  /\ down = [c \in Client |-> << >>] /\ up = [c \in Client |-> << >>] /\ open = {}
  /\ at = [c \in Client |-> "idle"] /\ role = [c \in Client |-> None]
  /\ result = [c \in Client |-> Unfinished]
  /\ wants = [h \in Human |-> [write |-> FALSE, restore |-> FALSE]]
  /\ tty = [h \in Human |-> "cooked"]
  /\ window = [h \in Human |-> FirstRows]
  /\ handled = [h \in Human |-> FALSE] /\ latch = [h \in Human |-> FALSE]
  /\ sizing = [h \in Human |-> NotSizing]
  /\ acts = [h \in Human |-> 0]
  /\ verb = [c \in Runner |-> None]

Resizing(h) == FirstSize(h) \/ Jiggle(h) \/ TakeLatch(h) \/ LookSize(h) \/ SendSize(h)

Attaching(h) == EnterRaw(h) \/ Install(h) \/ Output(h) \/ Return(h)

Handler(c) == Register(c) \/ Reply(c) \/ Serve(c) \/ ServeEnd(c)

Next ==
  \/ ChildPrints \/ ChildEnds \/ Publish \/ HolderStops
  \/ \E c \in Client : Dial(c) \/ Refused(c) \/ GiveUp(c) \/ Handler(c)
  \/ \E h \in Human : Resizing(h) \/ Attaching(h) \/ Type(h) \/ Turn(h)
  \/ \E c \in Runner : Act(c) \/ Capture(c) \/ Stream(c)

Spec == Init /\ [][Next]_vars

\* Threads run on, the holder's and the clients'; the pty takes its input.
\* Nothing makes anyone dial, type or resize, or the child print or end.
Fairness ==
  /\ \A c \in Client : WF_vars(Handler(c))
  /\ \A h \in Human : WF_vars(Resizing(h)) /\ WF_vars(Attaching(h))
  /\ \A c \in Runner : WF_vars(Act(c))

FairSpec == Spec /\ Fairness

-----------------------------------------------------------------------------
TypeOK ==
  /\ holder \in {"up", "down"} /\ child \in Exits \cup {Running, Killed(9)}
  /\ told \in BOOLEAN /\ prints \in 0 .. MaxPrints
  /\ lock \in Client \cup {None} /\ size \in 1 .. Widest
  /\ greeting \subseteq Client /\ serving \subseteq Client /\ open \subseteq Client
  /\ \A c \in Client :
       /\ down[c] \in Seq(Byte)
       /\ at[c] \in {"idle", "dialled", "granted", "raw", "handling", "jiggling", "looping",
                     "returning", "gone"}
       /\ role[c] \in {None, "reader", "writer"}
       /\ result[c] \in [is : {"none", "error", "code"}, n : -1 .. 255]
  /\ \A h \in Human : sizing[h].seen \in {0} \cup Windows

\* A terminal is raw only while its client runs and is the one the holder lets
\* write: whichever way attach ends the terminal is cooked again, and nobody
\* types blind at a session that ignores the keys.
RawWrites ==
  \A h \in Human : tty[h] = "raw" =>
    at[h] # "gone" /\ role[h] = "writer" /\ (h \in serving => lock = h)

\* A code other than 0, and every exit of the observers' stream, is the child's:
\* its own code, or 128 and the signal that ended it.  (An error of attach itself
\* is no code here, though main gives it the exit status 1.)
EndIsReal ==
  \A c \in Client :
    LET r == result[c]
        streams == c \in Runner /\ verb[c] = "stream"
    IN r.is = "code" /\ (r.n # 0 \/ streams) =>
         child # Running /\ r.n = child.n + (IF child.by = "signal" THEN 128 ELSE 0)

\* The engine's verbs do what they report, whoever else is attached, unless the
\* child or the holder ended first.  A send that reported success was not ignored:
\* its input is typed.  A kill that was let in ends the child, also while a human
\* is the writer.
VerbsTakeEffect ==
  \A c \in Runner :
    \/ verb[c] = "send" /\ result[c] = Done(0)
    \/ verb[c] = "kill" /\ at[c] = "granted"
    ~> \/ verb[c] = "send" /\ typed[c] = 1
       \/ child # Running \/ holder = "down"

\* The lock of a momentary writer that was told it has it comes back.  (A client
\* that ends before the reply keeps it for good: LockFrees of module Holder.)
LockComesBack == \A c \in Runner : lock = c /\ c \in serving ~> lock # c

\* The pty of a session that a human drives has, in the end, the window's size,
\* however often and whenever the window was resized.
WindowTracked ==
  \A h \in Human :
    <>[](at[h] = "looping" /\ role[h] = "writer" /\ h \in serving => size = window[h])

(***************************************************************************)
(* What the documentation says and the code does not do.                   *)
(***************************************************************************)
\* local.rs:756-759: a reason instead of a silent drop.  Nothing splits the input
\* of a send, protocol.rs:227-228 leaves that to the caller: an input longer than
\* a frame is sent, reported as sent, and thrown away with the connection.
PasteArrives ==
  \A c \in Runner : verb[c] = "paste" /\ result[c] = Done(0) ~>
    typed[c] = 1 \/ child # Running \/ holder = "down"

\* main.rs:83-84: attach exits with the child's code.  The holder publishes the
\* exit and returns from main; a frame that is still queued is gone, and attach
\* takes the end of the stream for an exit with 0.
ExitsWithChildsCode ==
  \A h \in Human : told /\ result[h].is = "code" =>
    result[h].n = child.n + (IF child.by = "signal" THEN 128 ELSE 0)
=============================================================================
