---------------------------- MODULE SessionStatus ----------------------------
(***************************************************************************)
(* The session state machine (status.rs).  Constant operators only: the    *)
(* engine calls them for every move of a session row.                      *)
(***************************************************************************)

\* States with no way forward.
TERMINAL == {"completed", "failed", "cancelled", "lost"}

LiveStates == {"queued", "provisioning", "running", "needs_input"}

States == LiveStates \cup TERMINAL

\* The legal outgoing edges of each live state.
successors ==
  [queued       |-> {"provisioning", "cancelled", "lost"},
   provisioning |-> {"running", "failed", "cancelled", "lost"},
   running      |-> {"needs_input", "completed", "failed", "cancelled", "lost"},
   needs_input  |-> {"running", "completed", "failed", "cancelled", "lost"}]

\* A terminal or unknown `from` has no entry, so nothing leaves it.
LegalTransition(from, to) ==
  from \in LiveStates /\ to \in successors[from]
=============================================================================
