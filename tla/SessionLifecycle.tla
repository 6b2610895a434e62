-------------------------- MODULE SessionLifecycle --------------------------
(***************************************************************************)
(* What the ledger promises a consumer about one session row, whatever     *)
(* threads, environments and restarts do underneath (design section 5):    *)
(* a row appears once, moves only along the edges of the state machine,    *)
(* learns its worker's handle exactly when it starts running, is archived  *)
(* only in a terminal state, and never moves again.                        *)
(***************************************************************************)
EXTENDS SessionStatus

CONSTANT Session

VARIABLE board   \* the ledger's rows, as `session` and `sessions` serve them

Row == [state : States \cup {"none"}, handle : BOOLEAN, reaped : BOOLEAN]

NoRow == [state |-> "none", handle |-> FALSE, reaped |-> FALSE]

\* dispatch() accepts a request, or reconcile() adopts a discovered worker.
Accepted(old, new) ==
  /\ old = NoRow
  /\ new \in {[state |-> "queued",  handle |-> FALSE, reaped |-> FALSE],
              [state |-> "running", handle |-> TRUE,  reaped |-> FALSE]}

\* One edge of the state machine.  The worker's handle is recorded by the
\* step that starts the session and by no other.
Advanced(old, new) ==
  /\ LegalTransition(old.state, new.state)
  /\ new.handle = (old.handle \/ (old.state = "provisioning" /\ new.state = "running"))
  /\ new.reaped = old.reaped

\* reap() archives the row, cancelling the session first if it is live.
Archived(old, new) ==
  /\ ~old.reaped
  /\ old.state # "none"
  /\ new = [old EXCEPT !.reaped = TRUE,
                       !.state  = IF @ \in TERMINAL THEN @ ELSE "cancelled"]

RowStep(old, new) ==
  \/ new = old
  \/ Accepted(old, new)
  \/ Advanced(old, new)
  \/ Archived(old, new)

Init == board = [s \in Session |-> NoRow]

\* A reconcile moves several rows at once; every one of them obeys RowStep.
Next == /\ board' \in [Session -> Row]
        /\ \A s \in Session : RowStep(board[s], board'[s])

Spec == Init /\ [][Next]_board
=============================================================================
