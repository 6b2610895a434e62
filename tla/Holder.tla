-------------------------------- MODULE Holder --------------------------------
(***************************************************************************)
(* The first-party terminal holder (disponent-hold): one process that owns *)
(* a pty and its child, and serves the child's output to attached clients. *)
(* The reader, the watcher, and a handler and a writer thread per client   *)
(* share one mutex; each lock section, and each step between two of them,  *)
(* is an action.                                                           *)
(*                                                                         *)
(* Output is counted in chunks, the chunk n being the n-th read from the   *)
(* pty.  A frame is [kind, upto]: the chunk `upto`, a screen repaint that  *)
(* shows the first `upto` chunks, or the exit.  Heartbeats are left out:   *)
(* they carry nothing, and a dead client is also met by the next chunk.    *)
(***************************************************************************)
EXTENDS Naturals, Sequences, SequencesExt

CONSTANTS
  Client,    \* connections, each made once
  Cap,       \* chunks the ring keeps
  Size,      \* terminal geometries
  Launch,    \* ... the one the pty starts with
  MaxOutput  \* bound on the chunks the child writes

NoClient == "none"
NoSize == "none"

ASSUME HolderAssumption ==
  /\ Cap \in Nat \ {0}
  /\ MaxOutput \in Nat
  /\ Launch \in Size
  /\ NoSize \notin Size
  /\ NoClient \notin Client

VARIABLES
  child,     \* the child: starting (slave not open yet), running, a status
  slave,     \* TRUE while some process holds the pty's slave side open
  written,   \* chunks written to the slave side
  holding,   \* chunks the reader has taken from the pty
  reader,    \* the reader thread: reading, pushing, eof, done
  ring,      \* Inner.ring, the chunks it keeps
  reaped, exit,          \* Inner.reaped, Inner.exit
  clients, writerId,     \* Inner.clients, Inner.writer_id
  pty, screen,           \* geometry of the pty and of the vt100 screen
  conn,      \* per connection: its handler thread
  granted,   \* ... the role it was granted
  queue,     \* ... frames in its channel
  alive,     \* ... TRUE while the receiving end of the channel exists
  peer,      \* ... TRUE while the other end of the socket is open
  resizing,  \* ... the geometry of a Resize frame half applied
  got,       \* ... frames written to the socket
  process    \* up, or down once main has returned

childVars  == <<child, slave, written>>
streamVars == <<holding, reader, ring, reaped, exit>>
clientVars == <<conn, granted, peer, resizing>>
frameVars  == <<queue, alive, got>>
vars == <<child, slave, written, holding, reader, ring, reaped, exit, clients,
          writerId, pty, screen, conn, granted, queue, alive, peer, resizing, got, process>>

Statuses == {"success", "failure"}

Data(n)   == [kind |-> "data", upto |-> n]
Screen(n) == [kind |-> "screen", upto |-> n]
Exited    == [kind |-> "exit", upto |-> 0]

Pushed == IF reader = "pushing" THEN holding - 1 ELSE holding

\* Under the lock: queue the frame for every registered client; a client whose
\* receiver is gone is dropped from the list.
Broadcast(frame) ==
  /\ queue'   = [c \in Client |-> IF c \in clients /\ alive[c]
                                  THEN Append(queue[c], frame) ELSE queue[c]]
  /\ clients' = {c \in clients : alive[c]}

(***************************************************************************)
(* The child and the watcher.                                              *)
(***************************************************************************)
\* The forked child dups the slave side onto its stdio and execs.
ChildStarts ==
  /\ child = "starting"
  /\ child' = "running" /\ slave' = TRUE
  /\ UNCHANGED <<written, streamVars, clients, writerId, pty, screen, clientVars, frameVars, process>>

\* The child, or what it left in the background, prints.
ChildWrites ==
  /\ slave /\ written < MaxOutput
  /\ written' = written + 1
  /\ UNCHANGED <<child, slave, streamVars, clients, writerId, pty, screen, clientVars, frameVars, process>>

\* A descendant may keep the slave side open for longer.
ChildExits ==
  /\ child = "running"
  /\ child' \in Statuses
  /\ slave' \in {slave, FALSE}
  /\ UNCHANGED <<written, streamVars, clients, writerId, pty, screen, clientVars, frameVars, process>>

\* The last holder of the slave side closes it, the child perhaps before it ends.
SlaveCloses ==
  /\ slave
  /\ slave' = FALSE
  /\ UNCHANGED <<child, written, streamVars, clients, writerId, pty, screen, clientVars, frameVars, process>>

\* The watcher records the status waitpid returned; it publishes nothing.
WatcherReaps ==
  /\ child \in Statuses /\ reaped = "none"
  /\ reaped' = child
  /\ UNCHANGED <<childVars, holding, reader, ring, exit, clients, writerId, pty, screen, clientVars, frameVars, process>>

(***************************************************************************)
(* The reader.                                                             *)
(***************************************************************************)
\* read() on the master, unlocked.
ReaderReads ==
  /\ reader = "reading"
  /\ holding < written
  /\ holding' = holding + 1
  /\ reader' = "pushing"
  /\ UNCHANGED <<childVars, ring, reaped, exit, clients, writerId, pty, screen, clientVars, frameVars, process>>

RingPush(r, n) ==
  LET all == Append(r, n)
  IN IF Len(all) > Cap THEN Tail(all) ELSE all

\* The lock section: ring, screen and every client's queue in one.
MutReaderPushesRingOnly ==
  /\ reader = "pushing"
  /\ ring' = RingPush(ring, holding)
  /\ reader' = "reading"
  /\ UNCHANGED <<queue, clients>>
  /\ UNCHANGED <<childVars, holding, reaped, exit, writerId, pty, screen, clientVars, alive, got, process>>

ReaderPushes ==
  /\ reader = "pushing"
  /\ ring' = RingPush(ring, holding)
  /\ Broadcast(Data(holding))
  /\ reader' = "reading"
  /\ UNCHANGED <<childVars, holding, reaped, exit, writerId, pty, screen, clientVars, alive, got, process>>

\* End of file, as EIO or a read of zero bytes.  Before the child has opened
\* the slave side a read of zero bytes (BSD) is no end: nothing is reaped then,
\* and the reader retries.
MutReaderBelievesZero ==
  /\ reader = "reading"
  /\ holding = written /\ ~slave
  /\ reader' = "eof"
  /\ UNCHANGED <<childVars, holding, ring, reaped, exit, clients, writerId, pty, screen, clientVars, frameVars, process>>

ReaderMeetsEof ==
  /\ reader = "reading"
  /\ holding = written /\ ~slave
  /\ child # "starting"
  /\ reader' = "eof"
  /\ UNCHANGED <<childVars, holding, ring, reaped, exit, clients, writerId, pty, screen, clientVars, frameVars, process>>

MutReaderAwaitsExit ==
  /\ reader = "eof"
  /\ exit # "none"
  /\ Broadcast(Exited)
  /\ reader' = "done"
  /\ UNCHANGED <<childVars, holding, ring, reaped, exit, writerId, pty, screen, clientVars, alive, got, process>>

MutReaderExitsUnheard ==
  /\ reader = "eof"
  /\ reaped # "none"
  /\ exit' = reaped
  /\ reader' = "done"
  /\ UNCHANGED <<queue, clients>>
  /\ UNCHANGED <<childVars, holding, ring, reaped, writerId, pty, screen, clientVars, alive, got, process>>

\* emit_exit waits on the condition variable for the status, then publishes.
ReaderEmitsExit ==
  /\ reader = "eof"
  /\ reaped # "none"
  /\ exit' = reaped
  /\ Broadcast(Exited)
  /\ reader' = "done"
  /\ UNCHANGED <<childVars, holding, ring, reaped, writerId, pty, screen, clientVars, alive, got, process>>

(***************************************************************************)
(* A client's connection.                                                  *)
(***************************************************************************)
\* The peer dials; its role request is on the wire when the handler reads it.
Dial(c) ==
  /\ conn[c] = "none"
  /\ conn' = [conn EXCEPT ![c] = "dialled"]
  /\ peer' = [peer EXCEPT ![c] = TRUE]
  /\ UNCHANGED <<childVars, streamVars, clients, writerId, pty, screen, granted, resizing, frameVars, process>>

PeerLeaves(c) ==
  /\ peer[c]
  /\ peer' = [peer EXCEPT ![c] = FALSE]
  /\ UNCHANGED <<childVars, streamVars, clients, writerId, pty, screen, conn, granted, resizing, frameVars, process>>

\* One lock section: grant, restore, hand out an exit already published, join.
Restored(how) ==
  IF how = "raw" THEN [i \in 1 .. Len(ring) |-> Data(ring[i])]
  ELSE <<Screen(Pushed)>>

MutRegisterGrantsAll(c) ==
  /\ conn[c] = "dialled"
  /\ \E role \in {"reader", "writer"}, how \in {"raw", "screen"} :
       /\ granted' = [granted EXCEPT ![c] = role]
       /\ writerId' = IF role = "writer" THEN c ELSE writerId
       /\ queue' = [queue EXCEPT ![c] =
                      Restored(how) \o IF exit # "none" THEN <<Exited>> ELSE << >>]
  /\ alive' = [alive EXCEPT ![c] = TRUE]
  /\ clients' = clients \cup {c}
  /\ conn' = [conn EXCEPT ![c] = "granted"]
  /\ UNCHANGED <<childVars, streamVars, pty, screen, peer, resizing, got, process>>

Register(c) ==
  /\ conn[c] = "dialled"
  /\ \E role \in {"reader", "writer"}, how \in {"raw", "screen"} :
       LET wins == role = "writer" /\ writerId = NoClient
       IN /\ granted'  = [granted EXCEPT ![c] = IF wins THEN "writer" ELSE "reader"]
          /\ writerId' = IF wins THEN c ELSE writerId
          /\ queue' = [queue EXCEPT ![c] =
                         Restored(how) \o IF exit # "none" THEN <<Exited>> ELSE << >>]
  /\ alive' = [alive EXCEPT ![c] = TRUE]
  /\ clients' = clients \cup {c}
  /\ conn' = [conn EXCEPT ![c] = "granted"]
  /\ UNCHANGED <<childVars, streamVars, pty, screen, peer, resizing, got, process>>

\* The handshake reply, unlocked.  A peer that is gone fails the write and the
\* handler returns at once: its receiver is dropped, nothing else is undone.
Reply(c) ==
  /\ conn[c] = "granted"
  /\ \/ peer[c] /\ conn' = [conn EXCEPT ![c] = "serving"] /\ UNCHANGED alive
     \/ /\ ~peer[c]
        /\ conn'  = [conn EXCEPT ![c] = "ended"]
        /\ alive' = [alive EXCEPT ![c] = FALSE]
  /\ UNCHANGED <<childVars, streamVars, clients, writerId, pty, screen, granted, queue, peer, resizing, got, process>>

\* The writer thread: one frame to the socket, or the end on a broken pipe.
Deliver(c) ==
  /\ conn[c] \in {"serving", "ended"}
  /\ alive[c] /\ queue[c] # << >>
  /\ \/ /\ peer[c]
        /\ got'   = [got EXCEPT ![c] = Append(@, Head(queue[c]))]
        /\ queue' = [queue EXCEPT ![c] = Tail(@)]
        /\ UNCHANGED alive
     \/ /\ ~peer[c]
        /\ alive' = [alive EXCEPT ![c] = FALSE]
        /\ UNCHANGED <<got, queue>>
  /\ UNCHANGED <<childVars, streamVars, clients, writerId, pty, screen, clientVars, process>>

\* A Resize frame: the ioctl, then the screen under the lock.  A reader's
\* frames are ignored.
MutResizeUngated(c) ==
  /\ conn[c] = "serving" /\ peer[c] /\ resizing[c] = NoSize
  /\ \E size \in Size : pty' = size /\ resizing' = [resizing EXCEPT ![c] = size]
  /\ UNCHANGED <<childVars, streamVars, clients, writerId, screen, conn, granted, peer, frameVars, process>>

ResizePty(c) ==
  /\ conn[c] = "serving" /\ peer[c] /\ resizing[c] = NoSize
  /\ granted[c] = "writer"
  /\ \E size \in Size : pty' = size /\ resizing' = [resizing EXCEPT ![c] = size]
  /\ UNCHANGED <<childVars, streamVars, clients, writerId, screen, conn, granted, peer, frameVars, process>>

ResizeScreen(c) ==
  /\ resizing[c] # NoSize
  /\ screen' = resizing[c]
  /\ resizing' = [resizing EXCEPT ![c] = NoSize]
  /\ UNCHANGED <<childVars, streamVars, clients, writerId, pty, conn, granted, peer, frameVars, process>>

\* A Signal frame reaches the child's process group, whoever sent it.
Signal(c) ==
  /\ conn[c] = "serving" /\ peer[c] /\ resizing[c] = NoSize
  /\ child = "running"
  /\ child' = "failure"
  /\ slave' \in {slave, FALSE}
  /\ UNCHANGED <<written, streamVars, clients, writerId, pty, screen, clientVars, frameVars, process>>

\* A Detach frame, the end of the connection, or an input the pty refuses: out
\* of the list, and the writer lock is freed if this was its holder.
Detach(c) ==
  /\ conn[c] = "serving" /\ resizing[c] = NoSize
  /\ conn' = [conn EXCEPT ![c] = "ended"]
  /\ clients' = clients \ {c}
  /\ writerId' = IF writerId = c THEN NoClient ELSE writerId
  /\ UNCHANGED <<childVars, streamVars, pty, screen, granted, peer, resizing, frameVars, process>>

(***************************************************************************)
(* main: wait_for_exit, drop the holder (no more accepts, the socket file  *)
(* removed, the four service threads joined), return.  The clients'        *)
(* threads are not joined: the process takes them with it.                 *)
(***************************************************************************)
Quit ==
  /\ exit # "none"
  /\ process' = "down"
  /\ UNCHANGED <<childVars, streamVars, clients, writerId, pty, screen, clientVars, frameVars>>

-----------------------------------------------------------------------------
Init ==
  /\ child = "starting" /\ slave = FALSE /\ written = 0
  /\ holding = 0 /\ reader = "reading" /\ ring = << >>
  /\ reaped = "none" /\ exit = "none"
  /\ clients = {} /\ writerId = NoClient
  /\ pty = Launch /\ screen = Launch
  /\ conn     = [c \in Client |-> "none"]
  /\ granted  = [c \in Client |-> "none"]
  /\ queue    = [c \in Client |-> << >>]
  /\ alive    = [c \in Client |-> FALSE]
  /\ peer     = [c \in Client |-> FALSE]
  /\ resizing = [c \in Client |-> NoSize]
  /\ got      = [c \in Client |-> << >>]
  /\ process = "up"

Service == WatcherReaps \/ ReaderReads \/ ReaderPushes \/ ReaderMeetsEof \/ ReaderEmitsExit

Handler(c) == Register(c) \/ Reply(c) \/ Deliver(c) \/ ResizeScreen(c)

Next ==
  /\ process # "down"
  /\ \/ ChildStarts \/ ChildWrites \/ ChildExits \/ SlaveCloses
     \/ Service \/ Quit
     \/ \E c \in Client :
          \/ Handler(c) \/ Dial(c) \/ PeerLeaves(c)
          \/ ResizePty(c) \/ Signal(c) \/ Detach(c)

Spec == Init /\ [][Next]_vars

\* The holder's threads keep running while the process does; nothing says when
\* the child ends, a client comes or goes, or how soon main returns.
Running(A) == process # "down" /\ A

Fairness ==
  /\ WF_vars(Running(WatcherReaps))
  /\ WF_vars(Running(ReaderReads \/ ReaderPushes \/ ReaderMeetsEof \/ ReaderEmitsExit))
  /\ \A c \in Client :
       /\ WF_vars(Running(Register(c) \/ Reply(c) \/ ResizeScreen(c)))
       /\ WF_vars(Running(Deliver(c)))

FairSpec == Spec /\ Fairness

-----------------------------------------------------------------------------
Frame == [kind : {"data", "screen", "exit"}, upto : 0 .. MaxOutput]

TypeOK ==
  /\ child \in {"starting", "running"} \cup Statuses
  /\ slave \in BOOLEAN
  /\ written \in 0 .. MaxOutput
  /\ holding \in 0 .. written
  /\ reader \in {"reading", "pushing", "eof", "done"}
  /\ ring \in Seq(1 .. MaxOutput) /\ Len(ring) <= Cap
  /\ reaped \in {"none"} \cup Statuses
  /\ exit \in {"none"} \cup Statuses
  /\ clients \subseteq Client
  /\ writerId \in Client \cup {NoClient}
  /\ pty \in Size /\ screen \in Size
  /\ conn \in [Client -> {"none", "dialled", "granted", "serving", "ended"}]
  /\ granted \in [Client -> {"none", "reader", "writer"}]
  /\ queue \in [Client -> Seq(Frame)]
  /\ alive \in [Client -> BOOLEAN]
  /\ peer \in [Client -> BOOLEAN]
  /\ resizing \in [Client -> Size \cup {NoSize}]
  /\ got \in [Client -> Seq(Frame)]
  /\ process \in {"up", "down"}

\* A handler that may drive the pty, now or once its reply is written.
Drives(c) == conn[c] \in {"granted", "serving"} /\ granted[c] = "writer"

\* However attaches, detaches and dead peers interleave, at most one connection
\* may drive the pty, and it is the one the lock names.
OneWriter == \A c \in Client : Drives(c) => writerId = c

Stream(c) == got[c] \o queue[c]

Follows(f, g) ==
  /\ f.kind # "exit"
  /\ g = Exited \/ g = Data(f.upto + 1)

\* The ring keeps the last chunks, as many as it may.
RingIsTail ==
  LET kept == IF Pushed < Cap THEN Pushed ELSE Cap
  IN ring = [i \in 1 .. kept |-> Pushed - kept + i]

\* What a client is sent is byte-exact: from wherever its restore begins, every
\* later chunk once and in order, and the exit after the last of them; and what
\* the next one is restored from are the latest chunks.
ByteExact ==
  /\ RingIsTail
  /\ \A c \in Client :
      /\ \A i \in 1 .. Len(Stream(c)) - 1 : Follows(Stream(c)[i], Stream(c)[i + 1])
      /\ c \in clients /\ alive[c] =>
           IF Stream(c) = << >> THEN Pushed = 0 /\ exit = "none"
           ELSE Last(Stream(c)) = Exited \/ Last(Stream(c)).upto = Pushed

\* The exit is published only once all the output there will be is in the
\* clients' queues: no chunk is left in the pty or with the reader.
ExitAfterOutput == exit # "none" => Pushed = written /\ exit = child

\* The screen a repaint is taken from has the geometry of the pty, except while
\* the writer's resize is between its two halves.
ScreenMatchesPty == (\A c \in Client : resizing[c] = NoSize) => screen = pty

\* Once the child has ended and every copy of the slave side is closed, the
\* real exit is published, whatever the clients do.
ExitPublished == child \in Statuses /\ ~slave ~> exit = child

\* A client that stays and reads is told the exit, unless main returns first.
ClientsHearExit ==
  \A c \in Client :
    exit # "none" /\ c \in clients ~>
      \/ \E i \in 1 .. Len(got[c]) : got[c][i] = Exited
      \/ ~peer[c] \/ c \notin clients \/ process # "up"

(***************************************************************************)
(* What a comment says and the code does not do.                           *)
(***************************************************************************)
\* server.rs:21, the lock frees when the writer disconnects.  A writer gone
\* before the handshake reply is written keeps it for good.
LockFrees == \A c \in Client : writerId = c => conn[c] # "ended"
=============================================================================
