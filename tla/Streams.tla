-------------------------------- MODULE Streams --------------------------------
(***************************************************************************)
(* The language bindings over the engine's read surface: event streams     *)
(* that page the append-only log with a cursor and a buffer, each polled   *)
(* by one or more threads; the driver plan, which a binding puts together  *)
(* from pages of a plan the engine recomputes; and wait.                   *)
(*                                                                         *)
(* The engine converts nothing: it stores words.  A binding turns them     *)
(* into enums, and a word outside its vocabulary is an error.              *)
(***************************************************************************)
EXTENDS Selection, SequencesExt

CONSTANTS
  Session,    \* sessions that are dispatched
  Stream,     \* event streams a program has opened
  OnlyKinds,  \* [Stream -> sets of kinds]: EventOptions.kinds
  Poller,     \* threads that call poll
  Polls,      \* [Poller -> Stream]: the stream each polls
  EventPage,  \* limit of an events page (64)
  PlanPage,   \* limit of a driver plan page (500)
  MaxEvents   \* bound on the log

ASSUME StreamsAssumption ==
  /\ Polls \in [Poller -> Stream]
  /\ {EventPage, PlanPage} \subseteq Nat \ {0}
  /\ MaxEvents \in Nat

VARIABLES
  log,      \* the engine's events: session, kind, and place in the log
  sess,     \* the rows of the dispatched sessions: [state, reason]
  order,    \* the dispatched sessions, in their order of dispatch
  cursor,   \* per stream, how many matching events it has paged
  buffer,   \* per stream, the paged events nobody has taken
  got,      \* per stream, what its pollers returned, in order
  call,     \* per poller, how far its poll is: [at, after, page]
  plan,     \* the driver plan a binding is materializing: [at, items, start]
  wait,     \* a call of wait: [at, on, answer]
  reader    \* the reader this behaviour follows

\* Readers change nothing that the engine or another reader looks at, so that a
\* behaviour has one: an event stream and its threads, a driver plan, or a wait.
Reader == Stream \cup {"plan", "wait"}

engineVars == <<log, sess, order, reader>>
streamVars == <<cursor, buffer, got, call>>
vars       == <<engineVars, streamVars, plan, wait>>

(***************************************************************************)
(* The engine, as far as readers see it.                                   *)
(***************************************************************************)
\* Words the engine writes: the kinds of events, and the reasons of ends.
\* An exit is the holder's real one, and its reason "exit" or "signal".
Kinds == {"state", "log", "exit"}

Terminal == {"completed", "failed", "cancelled", "lost"}

Room(n) == Len(log) + n <= MaxEvents

Event(s, kind, n) == [of |-> s, kind |-> kind, n |-> n]

Push(s, kind) == log' = Append(log, Event(s, kind, Len(log) + 1))

Dispatch(s) ==
  /\ s \notin Range(order) /\ Room(1)
  /\ order' = Append(order, s)
  /\ sess'  = [sess EXCEPT ![s] = [state |-> "queued", reason |-> "none"]]
  /\ Push(s, "state")
  /\ UNCHANGED <<streamVars, plan, wait, reader>>

Open(s) == s \in Range(order) /\ sess[s].state \notin Terminal

\* A line of output, of the observers or of the telemetry, which may come after
\* the end.
Observe(s) ==
  /\ s \in Range(order) /\ Room(1)
  /\ Push(s, "log")
  /\ UNCHANGED <<sess, order, streamVars, plan, wait, reader>>

Cancel(s) ==
  /\ Open(s) /\ Room(1)
  /\ sess' = [sess EXCEPT ![s].state = "cancelled"]
  /\ Push(s, "state")
  /\ UNCHANGED <<order, streamVars, plan, wait, reader>>

\* The collector folds a holder's exit: the event, then the end it means, ...
FoldExit(s) ==
  /\ Open(s) /\ Room(2)
  /\ \E end \in {[state |-> "completed", reason |-> "exit"], [state |-> "failed", reason |-> "exit"],
                 [state |-> "failed", reason |-> "signal"]} :
       sess' = [sess EXCEPT ![s] = end]
  /\ log' = log \o <<Event(s, "exit", Len(log) + 1), Event(s, "state", Len(log) + 2)>>
  /\ UNCHANGED <<order, streamVars, plan, wait, reader>>

\* ... which a session that has its end already does not take.
FoldLateExit(s) ==
  /\ s \in Range(order) /\ ~Open(s) /\ Room(1)
  /\ Push(s, "exit")
  /\ UNCHANGED <<sess, order, streamVars, plan, wait, reader>>

(***************************************************************************)
(* A page: the items after the first `after` ones, at most `limit`.        *)
(***************************************************************************)
Page(items, after, limit) ==
  SubSeq(items, after + 1, IF after + limit < Len(items) THEN after + limit ELSE Len(items))

Matching(e) == Keep(log, [of : Session, kind : OnlyKinds[e], n : Nat])

Events(e, after) == Page(Matching(e), after, EventPage)

(***************************************************************************)
(* What a binding can say.                                                 *)
(***************************************************************************)
ExitReason == {"ok", "error", "signal", "timeout", "budget", "setup", "unknown"}

EventKind == {"state", "message", "tool_call", "tool_result", "log", "usage", "artifact", "raw", "mail"}

\* session_out: no reason, or one of the vocabulary; else the call fails.
SessionOut(s) == sess[s].reason \in ExitReason \cup {"none"}

EventOut(ev) == ev.kind \in EventKind

Sayable == [of : Session, kind : EventKind, n : Nat]

(***************************************************************************)
(* EventStream::poll.  The cursor and the buffer have a lock each, which   *)
(* no poll holds for longer than one line of it.                           *)
(***************************************************************************)
Idle == [at |-> "idle", after |-> 0, page |-> << >>]

\* Take from the buffer, and return; an event with no word is left out.
Take(p) ==
  LET e == Polls[p] IN
  /\ call[p].at = "idle" /\ buffer[e] # << >>
  /\ buffer' = [buffer EXCEPT ![e] = Tail(@)]
  /\ got' = [got EXCEPT ![e] = IF EventOut(Head(buffer[e])) THEN Append(@, Head(buffer[e])) ELSE @]
  /\ UNCHANGED <<cursor, call, engineVars, plan, wait>>

\* The buffer was empty: read the cursor.
ReadCursor(p) ==
  /\ call[p].at = "idle" /\ buffer[Polls[p]] = << >>
  /\ call' = [call EXCEPT ![p] = [Idle EXCEPT !.at = "read", !.after = cursor[Polls[p]]]]
  /\ UNCHANGED <<cursor, buffer, got, engineVars, plan, wait>>

\* Ask the engine; an empty page is a sleep, or Idle at the deadline.
Fetch(p) ==
  /\ call[p].at = "read"
  /\ LET page == Events(Polls[p], call[p].after)
     IN call' = [call EXCEPT ![p] = IF page = << >> THEN Idle
                                    ELSE [@ EXCEPT !.at = "fetched", !.page = page]]
  /\ UNCHANGED <<cursor, buffer, got, engineVars, plan, wait>>

MutAdvanceWholePage(p) ==
  /\ call[p].at = "fetched"
  /\ cursor' = [cursor EXCEPT ![Polls[p]] = call[p].after + EventPage]
  /\ call' = [call EXCEPT ![p].at = "advanced"]
  /\ UNCHANGED <<buffer, got, engineVars, plan, wait>>

\* Advance the cursor past the page: past where this poll read it.
Advance(p) ==
  /\ call[p].at = "fetched"
  /\ cursor' = [cursor EXCEPT ![Polls[p]] = call[p].after + Len(call[p].page)]
  /\ call' = [call EXCEPT ![p].at = "advanced"]
  /\ UNCHANGED <<buffer, got, engineVars, plan, wait>>

MutExtendReplaces(p) ==
  /\ call[p].at = "advanced"
  /\ buffer' = [buffer EXCEPT ![Polls[p]] = call[p].page]
  /\ call' = [call EXCEPT ![p] = Idle]
  /\ UNCHANGED <<cursor, got, engineVars, plan, wait>>

Extend(p) ==
  /\ call[p].at = "advanced"
  /\ buffer' = [buffer EXCEPT ![Polls[p]] = @ \o call[p].page]
  /\ call' = [call EXCEPT ![p] = Idle]
  /\ UNCHANGED <<cursor, got, engineVars, plan, wait>>

Poll(p) == reader = Polls[p] /\ (Take(p) \/ ReadCursor(p) \/ Fetch(p) \/ Advance(p) \/ Extend(p))

(***************************************************************************)
(* driver_plan: tables, then a row per session, event and so on, in the    *)
(* order of what refers to what.                                           *)
(***************************************************************************)
Table        == [table |-> "sessions"]
SessionRow(s) == [session |-> s]
EventRow(i)  == [event |-> i, of |-> log[i].of]

Statements ==
  <<Table>> \o [i \in 1 .. Len(order) |-> SessionRow(order[i])] \o [i \in 1 .. Len(log) |-> EventRow(i)]

NoPlan == [at |-> "idle", items |-> << >>, start |-> << >>]

\* A binding materializes the plan page by page, until a page is not full.
PlanBegin ==
  /\ reader = "plan" /\ plan.at = "idle"
  /\ plan' = [NoPlan EXCEPT !.at = "paging", !.start = Statements]
  /\ UNCHANGED <<engineVars, streamVars, wait>>

MutPlanStepFirstPage ==
  /\ plan.at = "paging"
  /\ plan' = [plan EXCEPT !.items = Page(Statements, 0, PlanPage), !.at = "done"]
  /\ UNCHANGED <<engineVars, streamVars, wait>>

MutPlanStepUntilFull ==
  /\ plan.at = "paging"
  /\ LET page == Page(Statements, Len(plan.items), PlanPage)
     IN plan' = [plan EXCEPT !.items = @ \o page,
                             !.at = IF Len(page) = PlanPage THEN "done" ELSE "paging"]
  /\ UNCHANGED <<engineVars, streamVars, wait>>

PlanStep ==
  /\ plan.at = "paging"
  /\ LET page == Page(Statements, Len(plan.items), PlanPage)
     IN plan' = [plan EXCEPT !.items = @ \o page,
                             !.at = IF Len(page) < PlanPage THEN "done" ELSE "paging"]
  /\ UNCHANGED <<engineVars, streamVars, wait>>

PlanDrop ==
  /\ plan.at = "done" /\ plan' = NoPlan
  /\ UNCHANGED <<engineVars, streamVars, wait>>

(***************************************************************************)
(* wait: poll the session until it is terminal or the deadline passed.     *)
(***************************************************************************)
NoWait == [at |-> "idle", on |-> "none", answer |-> "none"]

WaitBegin(s) ==
  /\ reader = "wait" /\ wait.at = "idle"
  /\ wait' = [NoWait EXCEPT !.at = "waiting", !.on = s]
  /\ UNCHANGED <<engineVars, streamVars, plan>>

\* A poll before the deadline sleeps on a session that is not terminal.
WaitPoll ==
  /\ wait.at = "waiting"
  /\ \E late \in BOOLEAN :
       LET s == wait.on
           answer == IF s \notin Range(order) THEN "no session"
                     ELSE IF ~SessionOut(s) THEN "error"
                     ELSE IF sess[s].state \in Terminal THEN "terminal"
                     ELSE IF late THEN "late" ELSE "none"
       IN /\ answer # "none"
          /\ wait' = [wait EXCEPT !.at = "answered", !.answer = answer]
  /\ UNCHANGED <<engineVars, streamVars, plan>>

-----------------------------------------------------------------------------
Init ==
  /\ log = << >> /\ order = << >>
  /\ sess = [s \in Session |-> [state |-> "none", reason |-> "none"]]
  /\ cursor = [e \in Stream |-> 0]
  /\ buffer = [e \in Stream |-> << >>]
  /\ got    = [e \in Stream |-> << >>]
  /\ call   = [p \in Poller |-> Idle]
  /\ plan = NoPlan /\ wait = NoWait
  /\ reader \in Reader

Next ==
  \/ \E s \in Session : \/ Dispatch(s) \/ Observe(s) \/ Cancel(s)
                       \/ FoldExit(s) \/ FoldLateExit(s) \/ WaitBegin(s)
  \/ \E p \in Poller : Poll(p)
  \/ PlanBegin \/ PlanStep \/ PlanDrop \/ WaitPoll

Spec == Init /\ [][Next]_vars

\* A program that keeps asking: each poller's calls go on, a plan is paged to
\* its end, and a wait polls until it has an answer.
FairSpec == Spec /\ (\A p \in Poller : WF_vars(Poll(p))) /\ WF_vars(PlanStep) /\ WF_vars(WaitPoll)

-----------------------------------------------------------------------------
TypeOK ==
  /\ log \in Seq([of : Session, kind : Kinds, n : 1 .. MaxEvents]) /\ Len(log) <= MaxEvents
  /\ order \in Seq(Session) /\ IsInjective(order)
  /\ DOMAIN sess = Session
  /\ \A e \in Stream : cursor[e] \in 0 .. Len(Matching(e))
  /\ \A p \in Poller : call[p].at \in {"idle", "read", "fetched", "advanced"}
  /\ plan.at \in {"idle", "paging", "done"}
  /\ wait.at \in {"idle", "waiting", "answered"}

PollersOf(e) == {p \in Poller : Polls[p] = e}

\* What a binding has words for, of the first n events a stream matches.
Said(e, n) == Keep(Page(Matching(e), 0, n), Sayable)

\* One thread on a stream: what it has returned and what is buffered or under
\* way are the first events that match, each once and in order.
OnceInOrder ==
  \A e \in Stream : \A p \in Poller :
    PollersOf(e) = {p} =>
      LET coming == IF call[p].at = "advanced" THEN call[p].page ELSE << >>
      IN got[e] \o Keep(buffer[e] \o coming, Sayable) = Said(e, cursor[e])

\* Several threads on one stream may see an event twice, but the cursor never
\* passes one that none of them has, or has in hand.
NoneSkipped ==
  \A e \in Stream : \A i \in 1 .. cursor[e] :
    LET ev == Matching(e)[i]
    IN EventOut(ev) =>
         \/ ev \in Range(got[e]) \cup Range(buffer[e])
         \/ \E p \in PollersOf(e) : call[p].at = "advanced" /\ ev \in Range(call[p].page)

\* A finished plan has all the rows that were there when it began, even though
\* the ledger grew between its pages.
PlanKeepsRows == plan.at = "done" => Range(plan.start) \subseteq Range(plan.items)

\* A plan that is one page is consistent: a row comes after what it refers to.
PageInOrder(items) ==
  \A i \in DOMAIN items :
    "event" \in DOMAIN items[i] => \E j \in 1 .. i - 1 : items[j] = SessionRow(items[i].of)

OnePagePlan == plan.at = "done" /\ Len(plan.items) < PlanPage => PageInOrder(plan.items)

\* However polls interleave with the engine, a feed neither repeats an event to
\* its one thread nor loses one between its threads.
ExactFeed == OnceInOrder /\ NoneSkipped

\* However the ledger grows between the pages, a materialized plan is whole, and
\* it can be applied when it fits a page.
PlanIsWhole == PlanKeepsRows /\ OnePagePlan

\* Every single event that a stream matches and the binding has a word for is
\* returned by one of the stream's threads, however often they return others.
Due(e, n)      == n \in DOMAIN log /\ log[n].kind \in OnlyKinds[e] /\ EventOut(log[n])
Returned(e, n) == \E i \in DOMAIN got[e] : got[e][i].n = n

FeedCatchesUp ==
  \A e \in Stream : \A n \in 1 .. MaxEvents :
    reader = e /\ PollersOf(e) # {} /\ Due(e, n) ~> Returned(e, n)

\* A ledger that comes to rest, at whatever size: here each does, at MaxEvents.
\* (To one that gains a full page per fetch the loop of driver_plan never ends.)
ComesToRest == \E n \in 0 .. MaxEvents : <>[](Len(log) = n)

\* If the ledger comes to rest, a plan ends, although it grew while it was paged.
PlanEnds == ComesToRest => (plan.at = "paging" ~> plan.at = "done")

(***************************************************************************)
(* What the repository's comments say and the code does not do.            *)
(***************************************************************************)
\* disponent-node lib.rs:85-86: wait resolves the latest snapshot either way.
SnapshotEitherWay == wait.answer # "error"

\* core_impl.rs:375-376 and engine.rs:1337-1338: the full current state, rows in
\* dependency order.
PlanInOrder == plan.at = "done" => PageInOrder(plan.items)
=============================================================================
