------------------------------ MODULE EnvContract ------------------------------
(***************************************************************************)
(* What an environment family promises the engine, whatever it is made of  *)
(* (traits EnvProvider and Compute): START leaves a place with a shell and *)
(* no agent, the agent is launched there once, an interrupt stops its work *)
(* and a kill its process but neither the place, REAP destroys the place.  *)
(* A step concerns the place of one session; a place that nobody asked to  *)
(* destroy may still vanish by itself.                                     *)
(***************************************************************************)
CONSTANT Session

VARIABLES
  phase,
  asked  \* the sessions whose reap was called: an input

Phase == {"none",      \* no handle: START has not returned one
          "standing",  \* a place; nobody works in it
          "working",   \* the agent's process runs
          "stopped",   \* its terminal is dead, the place is kept
          "gone",      \* destroyed by its reap
         "vanished"}  \* gone by itself

Standing == {"standing", "working", "stopped"}

Moves(s, from, to) == phase[s] \in from /\ phase' = [phase EXCEPT ![s] = to]

Start(s)     == Moves(s, {"none"}, "standing")
Launch(s)    == Moves(s, {"standing"}, "working")
Interrupt(s) == Moves(s, {"working"}, "standing")
Kill(s)      == Moves(s, {"standing", "working"}, "stopped")
Reap(s)      == s \in asked /\ Moves(s, Standing, "gone")
Vanish(s)    == Moves(s, Standing, "vanished")

\* The process forgets handles, and finds again by a survey what still runs,
\* perhaps in a place that is gone.
Forget(S) == phase' = [s \in Session |-> IF s \in S THEN "none" ELSE phase[s]]
Adopt(s)  == phase[s] = "none" /\ \E p \in Phase \ {"none"} : phase' = [phase EXCEPT ![s] = p]

Init == phase = [s \in Session |-> "none"]

Next ==
  \/ \E s \in Session :
       Start(s) \/ Launch(s) \/ Interrupt(s) \/ Kill(s) \/ Reap(s) \/ Vanish(s) \/ Adopt(s)
  \/ \E S \in SUBSET Session : Forget(S)

Spec == Init /\ [][Next]_phase
=============================================================================
