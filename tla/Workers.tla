-------------------------------- MODULE Workers --------------------------------
(***************************************************************************)
(* What the three backends share: how far START and the agent's launch got *)
(* for a session, the place START makes (a VM, a sandbox, a work dir), the *)
(* terminal in it, and the handle by which the engine finds it again.      *)
(***************************************************************************)
EXTENDS Worktrees

CONSTANTS
  Workloads, \* what the dispatches ask for: functions from sessions to requests
  Repo,      \* [Session -> names]: the repository each session works on
  LongNames, \* the names that leave no room for the uid in a worker's name
  Flags,     \* the launcher selections a process may come up with
  Faults     \* what may go wrong: a subset of FaultKinds

FaultKinds == {"command",   \* a command of START or of the launch fails
               "tag",       \* tagging fails, three times over on exe.dev
               "setup",     \* the clone or the dispatch's setup script fails
               "teardown",  \* backend.reap of a VM or sandbox errs, perhaps late
               "vanish",    \* a VM or sandbox disappears on its own
               "listing"}   \* a survey cannot be read, and is taken as empty

Launcher == {"tmux", "holder"}

Request == [env : {"exe_dev", "modal", "local"}, isolation : {"worktree", "clone", "none"},
            ref : Ref \cup {NoRef}, fetch : BOOLEAN]

ASSUME WorkersAssumption ==
  /\ Workloads \subseteq [Session -> Request]
  /\ Session \subseteq DOMAIN Repo
  /\ Flags \subseteq [{"exe_dev", "local"} -> Launcher]
  /\ Faults \subseteq FaultKinds

VARIABLES
  req,      \* per session, the environment and what its dispatch asks of it
  stage,    \* the last stage of START or launch that is done
  place,    \* per session, the place and what START put there
  term,     \* the worker's terminal: a shell, the agent, dead, or "stale"
            \* (its holder was killed and left the socket file)
  owner,    \* who holds that terminal: tmux, or the first-party holder
  human,    \* sessions whose writer role an interactive attacher holds
  handle,   \* what the engine keeps to find the place again
  flag      \* the launcher this process selects, per backend that has a choice

workerVars == <<req, stage, place, term, owner, human, handle, flag>>

\* What no stage of START or of a launch touches.
settled == <<req, human, flag>>

MayFail(fault) == fault \in Faults

\* Whether a step went well, where nobody stops at its failure.
Outcomes(fault) == IF MayFail(fault) THEN BOOLEAN ELSE {TRUE}

NoPlace  == [up |-> FALSE, tagged |-> FALSE, brief |-> FALSE, ready |-> FALSE, bin |-> FALSE]
NewPlace == [NoPlace EXCEPT !.up = TRUE]

\* A handle's launcher is the one START used; an exe.dev or modal handle names
\* none.  `repo` is worktreeRepo: the repository to deregister a worktree from.
NoHandle == [known |-> FALSE, launcher |-> "none", repo |-> FALSE]
Handle(launcher, repo) == [known |-> TRUE, launcher |-> launcher, repo |-> repo]

Alive   == {"shell", "agent"}

\* START or the launch failed: its caller drops the handle.
Errored(s) == stage' = [stage EXCEPT ![s] = "errored"] /\ handle' = [handle EXCEPT ![s] = NoHandle]

To(s, next) == stage' = [stage EXCEPT ![s] = next] /\ UNCHANGED handle

Started(s, h) == stage' = [stage EXCEPT ![s] = "started"] /\ handle' = [handle EXCEPT ![s] = h]

\* env_kind_of: the environment a session's dispatch names.
KindOf(s) == req[s].env

At(s, kind, done) == KindOf(s) = kind /\ stage[s] = done

Terminal(s, state, by) ==
  term' = [term EXCEPT ![s] = state] /\ owner' = [owner EXCEPT ![s] = by]

\* daemonize: the holder is on its own before its launcher waits for its socket,
\* and outlives it.
Daemonize(s, state) == Terminal(s, state, "holder")

\* A verb is the set of states it may leave its terminal in; none: it errors.
\* C-c ends what the agent is at, or the agent, and leaves the shell.
Interrupted(s) == IF term[s] = "agent" THEN {"agent", "shell"} ELSE {term[s]}

\* A stage that is one command on the place: it fails, or the effect is there.
Put(s, next, newPlace) ==
  /\ \/ place' = [place EXCEPT ![s] = newPlace] /\ To(s, next)
     \/ MayFail("command") /\ UNCHANGED place /\ Errored(s)
  /\ UNCHANGED <<term, owner, settled, gitVars>>

WorkersInit ==
  /\ req \in Workloads
  /\ stage  = [s \in Session |-> "none"]
  /\ place  = [s \in Session |-> NoPlace]
  /\ term   = [s \in Session |-> "none"]
  /\ owner  = [s \in Session |-> "none"]
  /\ human  = {}
  /\ handle = [s \in Session |-> NoHandle]
  /\ flag \in Flags
=============================================================================
