------------------------------- MODULE Messaging -------------------------------
(***************************************************************************)
(* The event timelines and the manager-worker messages, in the ledgers of  *)
(* the engine processes that open one SQLite mirror: the supervisor's, and *)
(* the worker-role servers, each bound to a session.  A process reads the  *)
(* mirror once, when it opens, and from then on serves its own memory and  *)
(* upserts what it changes.                                                *)
(*                                                                         *)
(* An operation that holds the ledger mutex is one action; the two lock    *)
(* sections of send are two, and anything may come between.  What a        *)
(* session does is in module Engine; here it is live or over.  The         *)
(* telemetry receiver is added by module Telemetry.                        *)
(***************************************************************************)
EXTENDS Catalog, Selection, FiniteSets

CONSTANTS
  Proc,          \* engine processes
  Session,       \* session uids
  Unknown,       \* uids a caller may name that no dispatch ever minted
  Tagged,        \* the sessions whose dispatch carries the tag
  Bound,         \* per process: the session of a worker-role server, or ...
  NoSession,     \* ... this one, of a supervisor
  MaxOpen,       \* bound on processes open at once
  MaxBorn,       \* bound on events and probe stamps
  MaxSinkFails   \* bound on failed writes to the mirror

ASSUME MessagingAssumption ==
  /\ Unknown \cap Session = {} /\ IsFiniteSet(Session)
  /\ NoSession \notin Session
  /\ Tagged \subseteq Session
  /\ Bound \in [Proc -> Session \cup {NoSession}]
  /\ {MaxOpen, MaxBorn, MaxSinkFails} \subseteq Nat

VARIABLES
  up,         \* the processes that are open
  rows,       \* per process: Ledger.sessions
  events,     \* per process: Ledger.events
  messages,   \* per process: Ledger.messages
  probed,     \* per process: the last probe of each of Ledger.environments
  sending,    \* per process: a send between its two lock sections
  disk,       \* the mirror's tables, rows in rowid order
  born,       \* events and stamps made so far; the next one's identity
  sinkFails

memory == <<rows, events, messages, probed>>
vars   == <<up, memory, sending, disk, born, sinkFails>>

Nobody == "nobody"
Idle   == [to |-> "none", anchors |-> << >>]

Supervisor(p) == p \in up /\ Bound[p] = NoSession

(***************************************************************************)
(* The tool surface of a server.  A hint of the generated manifest says    *)
(* which tools a worker may see; those it may write with are intercepted   *)
(* and tied to its session.                                                *)
(***************************************************************************)
ReadOnly == {"environments", "offerings", "capabilities", "session", "sessions",
             "workspace_link", "events", "messages", "driver_plan"}
WorkerHint == {"send", "ack"}
Unhinted   == {"refresh", "dispatch", "cancel", "resume", "reap", "reconcile"}

\* tools_for
Offered(p) ==
  {tool \in ReadOnly \cup WorkerHint \cup Unhinted :
     Supervisor(p) \/ tool \in ReadOnly \cup WorkerHint}

\* call_tool: a write of a worker goes to worker_call, any other to the Manager's
\* surface.
Managers(p, tool) == p \in up /\ tool \in Offered(p) /\ (Supervisor(p) \/ tool \notin WorkerHint)
Workers(p, tool)  == p \in up /\ tool \in Offered(p) /\ ~Supervisor(p) /\ tool \in WorkerHint

Known(p) == {s \in Session : rows[p][s] # "none"}

(***************************************************************************)
(* The mirror.  An upsert replaces the row that has the same primary key   *)
(* and keeps its rowid, or appends one.                                    *)
(***************************************************************************)
EventKey   == {"session", "idx"}
MessageKey == {"id"}

Upsert(table, new, key) ==
  LET SameKey(x, y) == \A column \in key : x[column] = y[column]
      Rewrites(i)   == {j \in DOMAIN new : SameKey(new[j], table[i])}
      New           == {x \in ToSet(new) : \A i \in DOMAIN table : ~SameKey(x, table[i])}
  IN [i \in DOMAIN table |->
        IF Rewrites(i) = {} THEN table[i] ELSE new[CHOOSE j \in Rewrites(i) : TRUE]]
     \o Keep(new, New)

\* The columns a message is written with.
MessageColumns == {"id", "session", "to", "acked"}

\* message_mutation: what is no column is not stored.
MessageRow(message) == [column \in MessageColumns |-> message[column]]

\* The tables of T take what process p changed; each is a transaction.
Store(T, p, S, evs, msgs) ==
  disk' =
    [rows     |-> [s \in Session |-> IF "sessions" \in T /\ s \in S
                                     THEN rows'[p][s] ELSE disk.rows[s]],
     events   |-> IF "events" \in T THEN Upsert(disk.events, evs, EventKey) ELSE disk.events,
     messages |-> IF "messages" \in T
                  THEN Upsert(disk.messages, [i \in DOMAIN msgs |-> MessageRow(msgs[i])], MessageKey)
                  ELSE disk.messages,
     probed   |-> disk.probed,
     catalog  |-> disk.catalog]

Tables == {"sessions", "events", "messages"}

\* The ledger has already moved when a write fails; nothing is undone.
Mirror(p, S, evs, msgs) ==
  \/ Store(Tables, p, S, evs, msgs) /\ UNCHANGED sinkFails
  \/ /\ sinkFails < MaxSinkFails
     /\ sinkFails' = sinkFails + 1
     /\ \E T \in {{}, {"sessions"}, {"sessions", "events"}, {"sessions", "messages"}} :
          Store(T, p, S, evs, msgs)

(***************************************************************************)
(* The timeline.  An event's idx is the number of events its session has   *)
(* in this process's memory.                                               *)
(***************************************************************************)
MutNextIdx(p, s) ==
  Cardinality({i \in DOMAIN events[p] : events[p][i].session = s /\ events[p][i].kind = "mail"})

NextIdx(p, s) == Cardinality({i \in DOMAIN events[p] : events[p][i].session = s})

\* New events of the sessions ss, in that order.
NewEvents(p, ss, kind) ==
  [j \in DOMAIN ss |->
     [session |-> ss[j], id |-> born + j, kind |-> kind,
      idx |-> NextIdx(p, ss[j]) + Cardinality({i \in 1 .. j - 1 : ss[i] = ss[j]})]]

\* push_event_graded
Push(p, evs) ==
  /\ born + Len(evs) <= MaxBorn
  /\ born' = born + Len(evs)
  /\ events' = [events EXCEPT ![p] = @ \o evs]

\* The messages whose breadcrumbs are the mails evs.
MessagesOf(evs, to) ==
  [j \in DOMAIN evs |-> [id |-> evs[j].id, session |-> evs[j].session, to |-> to, acked |-> Nobody]]

(***************************************************************************)
(* Opening, and the ordinary life of sessions.                             *)
(***************************************************************************)
\* open_with: the catalog is seeded, then what the mirror remembers becomes the
\* ledger; of the environments, only the stamps.
Open(p) ==
  /\ p \notin up /\ Cardinality(up) < MaxOpen
  /\ up' = up \cup {p}
  /\ disk' = [disk EXCEPT !.catalog = Seed(@, Len(CatalogTables))]
  /\ rows'     = [rows EXCEPT ![p] = disk.rows]
  /\ events'   = [events EXCEPT ![p] = disk.events]
  /\ messages' = [messages EXCEPT ![p] = disk.messages]
  /\ probed'   = [probed EXCEPT ![p] = disk.probed]
  /\ UNCHANGED <<sending, born, sinkFails>>

\* A seed that fails half-way is an error of open.
OpenFails(p) ==
  /\ p \notin up /\ Cardinality(up) < MaxOpen
  /\ sinkFails < MaxSinkFails
  /\ sinkFails' = sinkFails + 1
  /\ \E n \in 0 .. Len(CatalogTables) - 1 : disk' = [disk EXCEPT !.catalog = Seed(@, n)]
  /\ UNCHANGED <<up, memory, sending, born>>

NoRows == [s \in Session |-> "none"]

\* The process ends, or is killed, at any moment, also within a send.
Close(p) ==
  /\ p \in up
  /\ up' = up \ {p}
  /\ rows'     = [rows EXCEPT ![p] = NoRows]
  /\ events'   = [events EXCEPT ![p] = << >>]
  /\ messages' = [messages EXCEPT ![p] = << >>]
  /\ probed'   = [probed EXCEPT ![p] = NeverProbed]
  /\ sending'  = [sending EXCEPT ![p] = Idle]
  /\ UNCHANGED <<disk, born, sinkFails>>

\* refresh: the stamp counts with the events.
Refresh(p, E) ==
  /\ Managers(p, "refresh")
  /\ born < MaxBorn /\ born' = born + 1
  /\ probed' = [probed EXCEPT ![p] = Stamp(@, E, born')]
  /\ \/ disk' = [disk EXCEPT !.probed = Stamp(@, E, born')] /\ UNCHANGED sinkFails
     \/ sinkFails < MaxSinkFails /\ sinkFails' = sinkFails + 1 /\ UNCHANGED disk
  /\ UNCHANGED <<up, rows, events, messages, sending>>

\* dispatch: a fresh uid, its row and its first log event.
Dispatch(p, s) ==
  /\ Managers(p, "dispatch")
  /\ disk.rows[s] = "none" /\ \A q \in Proc : s \notin Known(q)
  /\ rows' = [rows EXCEPT ![p][s] = "live"]
  /\ LET log == NewEvents(p, <<s>>, "log")
     IN Push(p, log) /\ Mirror(p, {s}, log, << >>)
  /\ UNCHANGED <<up, probed, messages, sending>>

\* cancel, reap, reconcile or an observed exit ends it: a state event.
End(p, s) ==
  /\ p \in up /\ rows[p][s] = "live"
  /\ rows' = [rows EXCEPT ![p][s] = "over"]
  /\ LET state == NewEvents(p, <<s>>, "state")
     IN Push(p, state) /\ Mirror(p, {s}, state, << >>)
  /\ UNCHANGED <<up, probed, messages, sending>>

\* The collector adds what a terminal shows: an event of kind raw, whose source
\* sets it apart from telemetry's.
MutObserveInMemory(p, s) ==
  /\ p \in up /\ s \in Known(p)
  /\ Push(p, NewEvents(p, <<s>>, "terminal"))
  /\ UNCHANGED <<up, probed, rows, messages, sending, disk, sinkFails>>

Observe(p, s) ==
  /\ p \in up /\ s \in Known(p)
  /\ LET raw == NewEvents(p, <<s>>, "terminal")
     IN Push(p, raw) /\ Mirror(p, {}, raw, << >>)
  /\ UNCHANGED <<up, probed, rows, messages, sending>>

(***************************************************************************)
(* send.                                                                   *)
(***************************************************************************)
\* First lock section: the target becomes a recipient and anchor sessions.  A
\* user note and a list of uids are taken as they come, a tag predicate is
\* the live sessions that carry it now.
Resolve(p) ==
  /\ Managers(p, "send") /\ sending[p] = Idle
  /\ \E target \in
          {[to |-> "user", anchors |-> <<s>>] : s \in Known(p) \cup Unknown}
            \cup {[to |-> "worker", anchors |-> ss] :
                    ss \in BoundedSeq(Known(p) \cup Unknown, 2) \ {<< >>}}
            \cup {[to |-> "worker",
                   anchors |-> SetToSeq({s \in Tagged : rows[p][s] = "live"})]} :
       sending' = [sending EXCEPT ![p] = target]
  /\ UNCHANGED <<up, memory, disk, born, sinkFails>>

\* The anchors before the first one the ledger does not know.
Reached(p) ==
  LET anchors  == sending[p].anchors
      first(i) == \A j \in 1 .. i : anchors[j] \in Known(p)
  IN SubSeq(anchors, 1, Cardinality({i \in DOMAIN anchors : first(i)}))

\* Second lock section: a breadcrumb and a message per anchor, all mirrored at
\* the end.  An unknown anchor returns at once, with what was minted before it
\* in the ledger and never written.  (The prompt that follows a send to uids
\* changes nothing here.)
Mint(p) ==
  /\ p \in up /\ sending[p] # Idle
  /\ LET mails == NewEvents(p, Reached(p), "mail")
         new   == MessagesOf(mails, sending[p].to)
     IN /\ Push(p, mails)
        /\ messages' = [messages EXCEPT ![p] = @ \o new]
        /\ IF Reached(p) = sending[p].anchors THEN Mirror(p, {}, mails, new)
           ELSE UNCHANGED <<disk, sinkFails>>
  /\ sending' = [sending EXCEPT ![p] = Idle]
  /\ UNCHANGED <<up, probed, rows>>

\* worker_send: to the Manager, on the bound session's own timeline.
MutWorkerSendNoBreadcrumb(p) ==
  /\ Workers(p, "send") /\ Bound[p] \in Known(p)
  /\ LET mail == NewEvents(p, <<Bound[p]>>, "mail")
         new  == MessagesOf(mail, "manager")
     IN /\ born < MaxBorn /\ born' = born + 1 /\ UNCHANGED events
        /\ messages' = [messages EXCEPT ![p] = @ \o new]
        /\ Mirror(p, {}, << >>, new)
  /\ UNCHANGED <<up, probed, rows, sending>>

WorkerSend(p) ==
  /\ Workers(p, "send") /\ Bound[p] \in Known(p)
  /\ LET mail == NewEvents(p, <<Bound[p]>>, "mail")
         new  == MessagesOf(mail, "manager")
     IN /\ Push(p, mail)
        /\ messages' = [messages EXCEPT ![p] = @ \o new]
        /\ Mirror(p, {}, mail, new)
  /\ UNCHANGED <<up, probed, rows, sending>>

(***************************************************************************)
(* ack.                                                                    *)
(***************************************************************************)
\* worker_ack's check, in a lock section of its own; the fields it reads never
\* change, so it is a guard here.
MutMayAck(p, m) ==
  Managers(p, "ack") \/ (Workers(p, "ack") /\ Bound[p] = m.session)

MayAck(p, m) ==
  Managers(p, "ack") \/ (Workers(p, "ack") /\ Bound[p] = m.session /\ m.to = "worker")

\* The first stamp stays; the message is mirrored again either way.
MutAckRestamps(p, i) ==
  /\ p \in up /\ MayAck(p, messages[p][i])
  /\ messages' = [messages EXCEPT ![p][i].acked = p]
  /\ Mirror(p, {}, << >>, <<messages'[p][i]>>)
  /\ UNCHANGED <<up, probed, rows, events, sending, born>>

Ack(p, i) ==
  /\ p \in up /\ MayAck(p, messages[p][i])
  /\ messages' = [messages EXCEPT ![p][i].acked = IF @ = Nobody THEN p ELSE @]
  /\ Mirror(p, {}, << >>, <<messages'[p][i]>>)
  /\ UNCHANGED <<up, probed, rows, events, sending, born>>

-----------------------------------------------------------------------------
Init ==
  /\ up = {}
  /\ rows     = [p \in Proc |-> NoRows]
  /\ events   = [p \in Proc |-> << >>]
  /\ messages = [p \in Proc |-> << >>]
  /\ sending  = [p \in Proc |-> Idle]
  /\ probed   = [p \in Proc |-> NeverProbed]
  /\ disk = [rows |-> NoRows, events |-> << >>, messages |-> << >>,
             probed |-> NeverProbed, catalog |-> Unseeded]
  /\ born = 0 /\ sinkFails = 0

Next ==
  \E p \in Proc :
    \/ Open(p) \/ OpenFails(p) \/ Close(p)
    \/ \E E \in Refreshable : Refresh(p, E)
    \/ \E s \in Session : Dispatch(p, s) \/ End(p, s) \/ Observe(p, s)
    \/ Resolve(p) \/ Mint(p) \/ WorkerSend(p)
    \/ \E i \in DOMAIN messages[p] : Ack(p, i)

Spec == Init /\ [][Next]_vars

-----------------------------------------------------------------------------
EventKind == {"mail", "log", "state", "terminal",
              "raw", "message", "tool_call", "tool_result", "usage"}

Event   == [session : Session, idx : Nat, id : 1 .. MaxBorn, kind : EventKind]
Message == [id : 1 .. MaxBorn, session : Session, to : {"worker", "user", "manager"},
            acked : Proc \cup {Nobody}]
Probes  == [Environment -> 0 .. MaxBorn]
Rows    == [Session -> {"none", "live", "over"}]

TypeOK ==
  /\ up \subseteq Proc
  /\ rows \in [Proc -> Rows]
  /\ events \in [Proc -> Seq(Event)]
  /\ messages \in [Proc -> Seq(Message)]
  /\ probed \in [Proc -> Probes]
  /\ sending \in [Proc -> [to : {"none", "worker", "user"}, anchors : Seq(Session \cup Unknown)]]
  /\ disk \in [rows : Rows, events : Seq(Event), messages : Seq(Message),
              probed : Probes, catalog : [ToSet(CatalogTables) -> Nat]]
  /\ born \in 0 .. MaxBorn
  /\ sinkFails \in 0 .. MaxSinkFails
  /\ \A p \in Proc \ up : sending[p] = Idle /\ events[p] = << >> /\ messages[p] = << >>

\* With a mirror that takes every write, what a restart brings back is what was
\* served: every row, every event with its idx and in its order, every stamp.  And
\* however often it was opened, the catalog is there once.
Rehydrates ==
  sinkFails = 0 =>
    \A p \in up : disk = [rows |-> rows[p], events |-> events[p], messages |-> messages[p],
                          probed |-> probed[p], catalog |-> SeededOnce]

\* Which session's timeline each mail is on, and its id: of a log, ...
Mails(log) ==
  LET mails == Keep(log, {e \in ToSet(log) : e.kind = "mail"})
  IN [i \in DOMAIN mails |-> <<mails[i].session, mails[i].id>>]

\* ... and of messages, asked for without a filter.
Inbox(ms) == [i \in DOMAIN ms |-> <<ms[i].session, ms[i].id>>]

\* Each message has its breadcrumb on its anchor's timeline, and each breadcrumb
\* its message, in the same order.
MailMatchesMessages ==
  sinkFails = 0 => \A p \in up : Mails(events[p]) = Inbox(messages[p])

\* The stored timeline is append-only: no later write takes the place of an event.
AppendOnly ==
  [][sinkFails' = 0 => IsPrefix(disk.events, disk'.events)]_disk

\* A stored ack keeps its first stamp, and its message, whatever fails.
AckOnce ==
  [][\A i \in DOMAIN disk.messages :
       /\ i \in DOMAIN disk'.messages
       /\ disk'.messages[i].id = disk.messages[i].id
       /\ disk.messages[i].acked # Nobody => disk'.messages[i] = disk.messages[i]]_disk

\* A worker-role server has stamped only messages to its own session's worker.
OwnInboxOnly ==
  \A p \in up : \A i \in DOMAIN messages[p] :
    LET mail == messages[p][i]
    IN mail.acked # Nobody /\ Bound[mail.acked] # NoSession =>
         mail.to = "worker" /\ mail.session = Bound[mail.acked]
=============================================================================
