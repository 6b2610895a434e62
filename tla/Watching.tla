------------------------------- MODULE Watching -------------------------------
(***************************************************************************)
(* The scraped tier of one session: the poller captures the worker's       *)
(* terminal, emits what is new in it, and feeds the terminal-condition     *)
(* detectors, which report a session that is idle or never printed.        *)
(*                                                                         *)
(* A terminal is a sequence of lines; a line is one of Line, or Blank when *)
(* it holds whitespace only.  A line may begin with whitespace: Trimmed    *)
(* is the line without it.  Seconds are counted by `now`.                  *)
(***************************************************************************)
EXTENDS Integers, Selection, SequencesExt

CONSTANTS
  Line,            \* lines with something on them
  Blank,           \* a line of whitespace
  Trimmed,         \* a line without the whitespace it begins with
  Height,          \* rows of the terminal
  Frames,          \* screens a program may redraw the terminal to
  IdleSecs,        \* LifecyclePolicy.idle_secs
  FirstTokenSecs,  \* LifecyclePolicy.first_token_secs
  MaxTime,         \* bound on the clock
  MaxPolls,        \* bound on the polls of one watcher
  MaxFresh         \* bound on the lines printed between two polls

ASSUME WatchingAssumption ==
  /\ Blank \notin Line
  /\ Trimmed \in [Line -> Line] /\ \A line \in Line : Trimmed[Trimmed[line]] = Trimmed[line]
  /\ {Height, IdleSecs, FirstTokenSecs} \subseteq Nat \ {0}
  /\ Frames \subseteq UNION {[1 .. n -> Line \cup {Blank}] : n \in 0 .. Height}
  /\ {MaxTime, MaxPolls, MaxFresh} \subseteq Nat

VARIABLES
  screen,   \* the terminal's lines down to the cursor
  now,      \* the clock the poller reads
  polling,  \* FALSE once a capture failed: the observer has ended
  last,     \* the previous capture
  idle,     \* IdleTimeout
  dead,     \* FirstTokenDeadStream
  emitted,  \* the delta of the last poll, << >> for none
  fresh,    \* lines printed since that poll ...
  redrawn,  \* ... TRUE if the terminal was redrawn in between
  log       \* this watcher's polls

worldVars == <<screen, fresh, redrawn>>
pollVars  == <<polling, last, idle, dead, emitted, log>>
vars == <<screen, now, polling, last, idle, dead, emitted, fresh, redrawn, log>>

Never == -1

(***************************************************************************)
(* What a capture shows, and what is new in it.                            *)
(***************************************************************************)
Ink(lines) == Keep(lines, Line)

\* The terminal without the blank lines above and below.
Shown(lines) ==
  LET inked == {i \in DOMAIN lines : lines[i] # Blank}
  IN IF inked = {} THEN << >>
     ELSE SubSeq(lines, CHOOSE i \in inked : \A j \in inked : i <= j,
                        CHOOSE i \in inked : \A j \in inked : j <= i)

\* A capture arrives trimmed as one text: that also takes the indentation of the
\* first line shown, and of no other.
Captured(lines) ==
  IF Shown(lines) = << >> THEN << >> ELSE [Shown(lines) EXCEPT ![1] = Trimmed[@]]

Overlaps(previous, current) ==
  {k \in 1 .. Len(previous) :
     /\ k <= Len(current)
     /\ SubSeq(previous, Len(previous) - k + 1, Len(previous)) = SubSeq(current, 1, k)}

After(lines, k) == SubSeq(lines, k + 1, Len(lines))

MutShortestOverlap(previous, current) ==
  LET overlaps == Overlaps(previous, current)
      new == IF overlaps = {} THEN current
             ELSE After(current, CHOOSE k \in overlaps : \A l \in overlaps : k <= l)
  IN IF current = previous \/ Ink(new) = << >> THEN << >> ELSE new

\* What follows the longest suffix of the old capture that begins the new one;
\* without an overlap, all of it.  Nothing, if that is blank.
TerminalDelta(previous, current) ==
  LET overlaps == Overlaps(previous, current)
      new == IF overlaps = {} THEN current
             ELSE After(current, CHOOSE k \in overlaps : \A l \in overlaps : l <= k)
  IN IF current = previous \/ Ink(new) = << >> THEN << >> ELSE new

(***************************************************************************)
(* The detectors.  Each observes one poll and says whether it fires.       *)
(***************************************************************************)
FreshIdle == [since |-> Never, fired |-> FALSE]
FreshDead == [started |-> Never, seen |-> FALSE, fired |-> FALSE]

MutIdleStaysLatched(d, at, activity) ==
  LET since == IF activity \/ d.since = Never THEN at ELSE d.since
      fires == ~activity /\ ~d.fired /\ at - since >= IdleSecs
  IN [fires |-> fires, next |-> [since |-> since, fired |-> fires \/ d.fired]]

\* Activity restarts the clock and arms the detector again.
IdleObserve(d, at, activity) ==
  LET since == IF activity \/ d.since = Never THEN at ELSE d.since
      fires == ~activity /\ ~d.fired /\ at - since >= IdleSecs
  IN [fires |-> fires, next |-> [since |-> since, fired |-> ~activity /\ (fires \/ d.fired)]]

MutDeadForgetsToken(d, at, activity) ==
  LET started == IF d.started = Never THEN at ELSE d.started
      fires   == ~activity /\ ~d.fired /\ at - started >= FirstTokenSecs
  IN [fires |-> fires,
      next  |-> [started |-> started, seen |-> d.seen \/ activity, fired |-> d.fired \/ fires]]

\* The first activity ends the watch for good.
DeadObserve(d, at, activity) ==
  LET started == IF d.started = Never THEN at ELSE d.started
      fires   == ~d.seen /\ ~activity /\ ~d.fired /\ at - started >= FirstTokenSecs
  IN [fires |-> fires,
      next  |-> [started |-> started, seen |-> d.seen \/ activity, fired |-> d.fired \/ fires]]

(***************************************************************************)
(* The terminal and the clock.                                             *)
(***************************************************************************)
\* A line is printed at the bottom; a full terminal scrolls.
PrintLine(line) ==
  /\ Len(fresh) < MaxFresh
  /\ screen' = IF Len(screen) < Height THEN Append(screen, line)
               ELSE Append(Tail(screen), line)
  /\ fresh' = Append(fresh, line)
  /\ UNCHANGED <<now, redrawn, pollVars>>

Redraw(frame) ==
  /\ screen' = frame
  /\ redrawn' = TRUE
  /\ UNCHANGED <<now, fresh, pollVars>>

Tick ==
  /\ now < MaxTime
  /\ now' = now + 1
  /\ UNCHANGED <<worldVars, pollVars>>

(***************************************************************************)
(* The watcher.                                                            *)
(***************************************************************************)
Poll ==
  /\ polling /\ Len(log) < MaxPolls
  /\ last' = Captured(screen)
  /\ emitted' = TerminalDelta(last, last')
  /\ LET active == emitted' # << >>
         i == IdleObserve(idle, now, active)
         d == DeadObserve(dead, now, active)
     IN /\ idle' = i.next /\ dead' = d.next
        /\ log' = Append(log, [at |-> now, active |-> active, shown |-> last' # << >>,
                               idle |-> i.fires, dead |-> d.fires])
  /\ fresh' = << >> /\ redrawn' = FALSE
  /\ UNCHANGED <<screen, now, polling>>

\* An error of the capture ends the observer: the terminal is gone, or ssh was.
CaptureFails ==
  /\ polling
  /\ polling' = FALSE
  /\ UNCHANGED <<now, worldVars, last, idle, dead, emitted, log>>

\* A restarted engine watches a running session anew, knowing nothing of before.
Rewatch ==
  /\ log # << >>
  /\ polling' = TRUE
  /\ last' = << >> /\ emitted' = << >>
  /\ idle' = FreshIdle /\ dead' = FreshDead
  /\ log' = << >>
  /\ redrawn' = TRUE
  /\ UNCHANGED <<screen, now, fresh>>

-----------------------------------------------------------------------------
Init ==
  /\ screen = << >> /\ now = 0
  /\ polling = TRUE
  /\ last = << >> /\ emitted = << >>
  /\ idle = FreshIdle /\ dead = FreshDead
  /\ fresh = << >> /\ redrawn = FALSE
  /\ log = << >>

Next ==
  \/ \E line \in Line \cup {Blank} : PrintLine(line)
  \/ \E frame \in Frames : Redraw(frame)
  \/ Tick \/ Poll \/ CaptureFails \/ Rewatch

Spec == Init /\ [][Next]_vars

-----------------------------------------------------------------------------
\* What a poll emits is the rest of its capture after an end of the previous one,
\* so that the captures can be put together again from what was emitted, line by
\* line; and while the terminal only scrolls and its top line is not indented, it
\* is, but for blank lines, no more than the end of what was printed.
NothingLost  == \E k \in 0 .. Len(last) : last' = After(last, k) \o emitted'
NothingTwice == ~redrawn /\ last' = Shown(screen) => IsSuffix(Ink(emitted'), Ink(fresh))

Polled == log' # << >> /\ log' # log

DeltaIsExact ==
  [][Polled => NothingLost /\ NothingTwice]_vars

\* Claimed of the overlap ("panes scroll up, so the largest suffix of the old
\* capture that prefixes the new one marks where fresh output starts.  In-place
\* redraws ... defeat overlap detection"): of a terminal that only scrolls, no more
\* lines are emitted than were printed.
ScrollingKeepsOverlap ==
  [][Polled /\ ~redrawn => Len(Ink(emitted')) <= Len(Ink(fresh))]_vars

\* Claimed of the poller ("emits what changed since last look"): while the terminal
\* only scrolls, every line printed since the last poll and still shown is emitted.
PrintedIsEmitted ==
  [][Polled /\ ~redrawn /\ Len(Ink(fresh)) <= Len(Ink(last'))
       => Len(Ink(emitted')) >= Len(Ink(fresh))]_vars

\* One poll per quiet span reports it, the first that finds it IdleSecs long;
\* a span begins with an active poll, or with the watcher.
IdleOncePerSpan ==
  \A i \in DOMAIN log :
    log[i].idle <=>
      \E b \in 1 .. i :
        /\ b = 1 \/ log[b].active
        /\ \A k \in b + 1 .. i : ~log[k].active
        /\ log[i].at - log[b].at >= IdleSecs
        /\ \A k \in b .. i - 1 : log[k].at - log[b].at < IdleSecs

\* The dead-stream report comes only from a terminal that showed nothing in any
\* capture so far, once, at the first poll after FirstTokenSecs.
DeadMeansNothingShown ==
  \A i \in DOMAIN log :
    log[i].dead <=>
      /\ \A k \in 1 .. i : ~log[k].shown
      /\ log[i].at - log[1].at >= FirstTokenSecs
      /\ \A k \in 1 .. i - 1 : log[k].at - log[1].at < FirstTokenSecs
=============================================================================
