-------------------------------- MODULE Backends --------------------------------
(***************************************************************************)
(* The three backends side by side, as one engine drives them: START, the  *)
(* agent's launch through its adapter, cancel, reap, and a restart that    *)
(* may come back with the other launcher selected and, without a mirror,   *)
(* with an empty board.  The engine's threads and its own races are module *)
(* Engine's; here each of its calls is one step, but for reap: what it     *)
(* reads of the work dir is used after the agent went on working in it.    *)
(***************************************************************************)
EXTENDS LocalBackend, ExeDevBackend, ModalBackend

CONSTANT MaxMishaps  \* bound on restarts and slips together

ASSUME BackendsAssumption == MaxMishaps \in Nat

VARIABLES
  row,      \* the session's row: "none", "live", "over" (terminal), "reaped"
  reaping,  \* how far a reap has got, which holds the lock: "no", or what the
            \* backend has done for it: "read" the delivery, "removed" the place
  verdict,  \* the delivery verdict that reap has read, recorded with the row
  vanished, \* sessions whose VM or sandbox disappeared on its own
  restarts

reapVars == <<reaping, verdict>>
vars == <<workerVars, gitVars, row, reapVars, vanished, restarts>>

Bounded == restarts + slips' <= MaxMishaps

\* Nobody else changes a row while a reap is at work.
Unlocked == \A s \in Session : reaping[s] = "no"

(***************************************************************************)
(* dispatch and its provision thread.                                      *)
(***************************************************************************)
Dispatch(s) ==
  /\ Unlocked /\ row[s] = "none" /\ stage[s] = "none"
  /\ row' = [row EXCEPT ![s] = "live"]
  /\ UNCHANGED <<workerVars, gitVars, reapVars, vanished, restarts>>

\* The adapter's install and auth, with nothing to do, and its start: the command
\* line, the brief its last argument, spawned on the backend's surface.
AgentStart(s) == ExeSpawn(s) \/ ModalSpawn(s) \/ LocalSpawn(s)

\* backend.start, then the adapter.  An error at any stage fails the session.
Provision(s) ==
  /\ row[s] = "live"
  /\ ExeStart(s) \/ ModalStart(s) \/ LocalStart(s) \/ AgentStart(s)
  /\ IF stage'[s] = "errored" THEN Unlocked /\ row' = [row EXCEPT ![s] = "over"] ELSE row' = row
  /\ UNCHANGED <<reapVars, vanished, restarts>>

(***************************************************************************)
(* The stop verbs.                                                         *)
(***************************************************************************)
\* stop_work and stop_exec of the adapter: the verbs of the session's backend.
StopWork(s) ==
  CASE KindOf(s) = "exe_dev" -> ExeInterrupt(s)
    [] KindOf(s) = "modal"   -> ModalInterrupt(s)
    [] KindOf(s) = "local"   -> LocalInterrupt(s)

StopExec(s) ==
  CASE KindOf(s) = "exe_dev" -> ExeKill(s)
    [] KindOf(s) = "modal"   -> ModalKill(s)
    [] KindOf(s) = "local"   -> LocalKill(s)

\* What a call that errs for reasons of its own leaves of the terminal.
Untouched(s) == {t \in {term[s]} : MayFail("command")}

\* Reap ignores how stop_exec went.
KillOutcomes(s) == Untouched(s) \cup (IF StopExec(s) = {} THEN {term[s]} ELSE StopExec(s))

\* cancel: stop_exec only after a stop_work that went well.
StopOutcomes(s) ==
  IF StopWork(s) = {} THEN {term[s]}
  ELSE Untouched(s) \cup StopExec(s) \cup {t \in StopWork(s) : MayFail("command") \/ StopExec(s) = {}}

Launched(s) == stage[s] = "launched" /\ handle[s].known

\* A dead terminal has no clients.
DropsClients == human' = {s \in human : term'[s] \in Alive}

Cancel(s) ==
  /\ Unlocked /\ row[s] = "live" /\ Launched(s)
  /\ \E t \in StopOutcomes(s) : term' = [term EXCEPT ![s] = t]
  /\ DropsClients
  /\ row' = [row EXCEPT ![s] = "over"]
  /\ UNCHANGED <<stage, place, owner, handle, flag, gitVars, req, reapVars, vanished, restarts>>

\* The agent ends and leaves the shell it was typed into (or the run script's),
\* or its terminal ends too, or the holder is killed.
AgentEnds(s) ==
  /\ term[s] = "agent"
  /\ \E t \in {"shell", "dead"} \cup (IF owner[s] = "holder" THEN {"stale"} ELSE {}) :
       term' = [term EXCEPT ![s] = t]
  /\ DropsClients
  /\ UNCHANGED <<stage, place, owner, handle, flag, gitVars, req, row, reapVars, vanished, restarts>>

(***************************************************************************)
(* reap, under the lock: the delivery is read, a live agent is killed, the *)
(* place destroyed, the row archived.  Agents, operators and START go on.  *)
(***************************************************************************)
Assess(s) ==
  /\ Unlocked /\ row[s] \in {"live", "over"} /\ Launched(s)
  /\ reaping' = [reaping EXCEPT ![s] = "read"]
  /\ \E v \in {"none", "shipped", "empty"} :
       /\ verdict' = [verdict EXCEPT ![s] = v]
       /\ IF KindOf(s) = "local" THEN ReadSignal(s, v) ELSE v = "none" /\ UNCHANGED slips
  /\ Bounded
  /\ UNCHANGED <<workerVars, tree, dangling, clone, heads, remote, dirty, row, vanished, restarts>>

\* The agent as reap leaves it when its place stays.
Stopped(s) ==
  /\ \E t \in IF row[s] = "live" THEN KillOutcomes(s) ELSE {term[s]} : term' = [term EXCEPT ![s] = t]
  /\ DropsClients /\ UNCHANGED owner

\* stop_exec and backend.reap.
Removed(s) ==
  \/ KindOf(s) = "exe_dev" /\ ExeReap(s) /\ UNCHANGED gitVars
  \/ KindOf(s) = "modal" /\ ModalReap(s) /\ UNCHANGED gitVars
  \/ KindOf(s) = "local" /\ LocalReap(s) /\ Stopped(s) /\ Bounded

Remove(s) ==
  /\ reaping[s] = "read"
  /\ Removed(s)
  /\ reaping' = [reaping EXCEPT ![s] = "removed"]
  /\ UNCHANGED <<stage, handle, flag, req, row, verdict, vanished, restarts>>

\* An error, which a VM's or a sandbox's removal may bring also after it took
\* effect, leaves the board as it was: the verdict is dropped with the call.
RemoveFails(s) ==
  /\ reaping[s] = "read" /\ KindOf(s) # "local" /\ MayFail("teardown")
  /\ Removed(s) \/ (Stopped(s) /\ UNCHANGED <<place, gitVars>>)
  /\ reaping' = [reaping EXCEPT ![s] = "no"] /\ verdict' = [verdict EXCEPT ![s] = "none"]
  /\ UNCHANGED <<stage, handle, flag, req, row, vanished, restarts>>

Archive(s) ==
  /\ reaping[s] = "removed"
  /\ row' = [row EXCEPT ![s] = "reaped"] /\ reaping' = [reaping EXCEPT ![s] = "no"]
  /\ UNCHANGED <<workerVars, gitVars, verdict, vanished, restarts>>

\* A row that never got a handle is archived as it is.
ArchiveUnprovisioned(s) ==
  /\ Unlocked /\ row[s] \in {"live", "over"} /\ ~handle[s].known /\ stage[s] \in {"none", "errored"}
  /\ row' = [row EXCEPT ![s] = "reaped"]
  /\ UNCHANGED <<workerVars, gitVars, reapVars, vanished, restarts>>

(***************************************************************************)
(* Restart, and what its survey finds.                                     *)
(***************************************************************************)
\* The process dies with its provision threads.  Rows come back from the mirror,
\* or, without one, not at all.
Restart ==
  /\ restarts + slips < MaxMishaps /\ restarts' = restarts + 1
  /\ flag' \in Flags
  /\ LET cut == {s \in Session : row[s] = "live" /\ ~Launched(s)}
     IN /\ stage' = [s \in Session |-> IF s \in cut THEN "errored" ELSE stage[s]]
        /\ \/ /\ handle' = [s \in Session |-> IF s \in cut THEN NoHandle ELSE handle[s]]
              /\ UNCHANGED row
           \/ /\ handle' = [s \in Session |-> NoHandle]
              /\ row' = [s \in Session |-> "none"]
  /\ reaping' = [s \in Session |-> "no"]
  /\ verdict' = [s \in Session |-> IF reaping[s] = "no" THEN verdict[s] ELSE "none"]
  /\ UNCHANGED <<place, term, owner, human, gitVars, req, vanished>>

Surveys ==
  {vms \cup sandboxes \cup terminals :
     vms \in ExeSurveys, sandboxes \in ModalSurveys, terminals \in LocalSurveys}

\* A handle built by survey: no telemetry, no url, no repository.
SurveyHandle(s) == Handle(IF KindOf(s) = "local" THEN flag["local"] ELSE "none", FALSE)

\* reconcile meets a worker no row knows.
Adopt(s) ==
  /\ Unlocked /\ row[s] = "none" /\ s \in UNION Surveys /\ stage[s] # "none"
  /\ row'    = [row EXCEPT ![s] = "live"]
  /\ stage'  = [stage EXCEPT ![s] = "launched"]
  /\ handle' = [handle EXCEPT ![s] = SurveyHandle(s)]
  /\ UNCHANGED <<place, term, owner, human, flag, gitVars, req, reapVars, vanished, restarts>>

\* ... or misses the worker of a live row.
Lose(s) ==
  /\ Unlocked /\ row[s] = "live" /\ Launched(s) /\ \E surveyed \in Surveys : s \notin surveyed
  /\ row' = [row EXCEPT ![s] = "over"]
  /\ UNCHANGED <<workerVars, gitVars, reapVars, vanished, restarts>>

\* ... or the worker of an archived one: its place is destroyed again.
TearDown(s) ==
  /\ Unlocked /\ row[s] = "reaped" /\ handle[s].known /\ s \in UNION Surveys
  /\ Removed(s)
  /\ UNCHANGED <<stage, handle, flag, req, row, reapVars, vanished, restarts>>

(***************************************************************************)
(* The people and agents at the terminals, and the services' own ways.     *)
(***************************************************************************)
\* A VM or a sandbox disappears, as its service or its owner pleases.  (One that
\* does so under START shows in a stage that fails.)
Vanish(s) ==
  /\ MayFail("vanish") /\ KindOf(s) # "local" /\ place[s].up /\ stage[s] \in {"launched", "errored"}
  /\ place' = [place EXCEPT ![s] = NoPlace]
  /\ Terminal(s, "none", "none") /\ human' = human \ {s}
  /\ vanished' = vanished \cup {s}
  /\ UNCHANGED <<stage, handle, flag, req, gitVars, row, reapVars, restarts>>

\* An operator's hold-attach --write, or the browser's on exe.dev.
Attach(s) ==
  /\ owner[s] = "holder" /\ term[s] \in Alive /\ s \notin human
  /\ human' = human \cup {s}
  /\ UNCHANGED <<stage, place, term, owner, handle, flag, req, gitVars, row, reapVars, vanished, restarts>>

Detach(s) ==
  /\ s \in human /\ human' = human \ {s}
  /\ UNCHANGED <<stage, place, term, owner, handle, flag, req, gitVars, row, reapVars, vanished, restarts>>

Work(s) ==
  /\ KindOf(s) = "local" /\ term[s] = "agent" /\ place[s].up
  /\ Edit(s) \/ Commit(s) \/ Push(s)
  /\ UNCHANGED <<workerVars, row, reapVars, vanished, restarts>>

-----------------------------------------------------------------------------
Init ==
  /\ WorkersInit /\ GitInit
  /\ row      = [s \in Session |-> "none"]
  /\ reaping  = [s \in Session |-> "no"]
  /\ verdict  = [s \in Session |-> "none"]
  /\ vanished = {} /\ restarts = 0

Reap(s) == Assess(s) \/ Remove(s) \/ RemoveFails(s) \/ Archive(s) \/ ArchiveUnprovisioned(s)

Next ==
  \/ \E s \in Session :
       \/ Dispatch(s) \/ Provision(s) \/ Cancel(s) \/ AgentEnds(s) \/ Reap(s)
       \/ Adopt(s) \/ Lose(s) \/ TearDown(s) \/ Vanish(s) \/ Attach(s) \/ Detach(s) \/ Work(s)
  \/ Restart

Spec == Init /\ [][Next]_vars

-----------------------------------------------------------------------------
Commits == Session \cup {Upstream}
Branch  == Session \cup Ref \cup {Main}

PartialFn(D, R) == UNION {[d -> R] : d \in SUBSET D}

TypeOK ==
  /\ stage \in [Session -> {"none", "copied", "tagged", "reachable", "briefed", "setup", "created",
                            "dir", "tree", "started", "launched", "errored"}]
  /\ place  \in [Session -> [up : BOOLEAN, tagged : BOOLEAN, brief : BOOLEAN,
                             ready : BOOLEAN, bin : BOOLEAN]]
  /\ term   \in [Session -> {"none", "shell", "agent", "dead", "stale"}]
  /\ owner  \in [Session -> Launcher \cup {"none"}]
  /\ human \subseteq {s \in Session : owner[s] = "holder" /\ term[s] \in Alive}
  /\ handle \in [Session -> [known : BOOLEAN, launcher : Launcher \cup {"none"}, repo : BOOLEAN]]
  /\ flag   \in Flags
  /\ req \in Workloads
  /\ row \in [Session -> {"none", "live", "over", "reaped"}]
  /\ reaping \in [Session -> {"no", "read", "removed"}]
  /\ verdict \in [Session -> {"none", "shipped", "empty"}]
  /\ vanished \subseteq Session /\ restarts \in 0 .. MaxMishaps /\ slips \in 0 .. MaxSlips
  /\ DOMAIN tree \subseteq Session /\ \A s \in DOMAIN tree : tree[s] \in DOMAIN heads
  /\ DOMAIN heads \subseteq Branch /\ \A b \in DOMAIN heads : heads[b] \subseteq Commits
  /\ DOMAIN remote \subseteq Branch /\ \A b \in DOMAIN remote : remote[b] \subseteq Commits
  /\ dangling \subseteq DOMAIN tree /\ clone \cup dirty \subseteq Session

\* No agent starts on exe.dev or locally before the brief is there, the clone
\* and the setup succeeded and, under a holder on a VM, the binary arrived,
\* whichever stages failed or were cut off by a restart.  (On modal it may.)
AgentOnPreparedPlace ==
  \A s \in Session :
    term[s] = "agent" /\ place[s].up /\ KindOf(s) # "modal" =>
      /\ place[s].brief /\ place[s].ready
      /\ KindOf(s) = "exe_dev" /\ owner[s] = "holder" => place[s].bin

\* However often the launcher selection flips over restarts, and whether the
\* handle came from START or from a survey, it reaches a local session's living
\* terminal (comment in LocalTmux::compute), and so does an operator who attaches
\* the way the row says.
LocalAlwaysReachable ==
  \A s \in Session :
    KindOf(s) = "local" /\ row[s] = "live" /\ Launched(s) /\ term[s] \in Alive =>
      /\ LocalReaches(s)
      /\ AttachTransport(s) = (IF owner[s] = "holder" THEN "dsp_hold" ELSE "tmux")

\* As long as git and rm work, no reap leaves a worktree registered without its
\* directory, except through a handle that came from a survey; such a registration
\* would keep its branch in use.
NoDanglingWorktree == slips = 0 => \A s \in Session : s \in dangling => ~handle[s].repo

Reachable ==
  (UNION {heads[b] : b \in DOMAIN heads \ clone}) \cup (UNION {remote[b] : b \in DOMAIN remote \ clone})

\* What an agent committed in a worktree stays in the operator's repository: no
\* reap, failure or restart drops it, only another START with -B on its branch.
CommitsSurvive ==
  [][\A c \in Reachable \ Reachable' :
       \E s \in Session : /\ stage[s] = "dir" /\ stage'[s] = "tree"
                          /\ req[s].isolation = "worktree" /\ ~req[s].fetch /\ c \in heads[req[s].ref]]_vars

\* Work of s that is only in its work dir: uncommitted changes, or a commit that
\* no other ref has and that was not pushed.
Unshared(s) ==
  /\ HasGit(s)
  /\ \/ s \in dirty
     \/ /\ s \in heads[CheckedOut(s)]
        /\ \A b \in DOMAIN heads \ {CheckedOut(s)} : s \notin heads[b]
        /\ \A b \in DOMAIN remote : s \notin remote[b]

\* A reap credits such work as it finds it, unless git fails.
UnsharedWorkCredited ==
  [][\A s \in Session :
       reaping[s] = "no" /\ reaping'[s] = "read" /\ slips' = slips /\ Unshared(s)
         => verdict'[s] = "shipped"]_vars

\* What a session's environment is to the engine that holds its handle.
PhaseOf(s) ==
  IF ~handle[s].known THEN "none"
  ELSE IF ~place[s].up THEN IF s \in vanished THEN "vanished" ELSE "gone"
  ELSE IF term[s] = "agent" THEN "working"
  ELSE IF term[s] \in {"dead", "stale"} THEN "stopped" ELSE "standing"

Contract == INSTANCE EnvContract WITH
  phase <- [s \in Session |-> PhaseOf(s)],
  asked <- {s \in Session : reaping[s] # "no" \/ row[s] = "reaped"}

\* All three backends keep the contract of EnvProvider and Compute: each step
\* moves one session's environment the way the trait says, and none goes but by a
\* reap of its own session or by itself.  Through errors, retries and vanished VMs
\* this takes names that no two workers share.
KeepsContract == Contract!Spec

(***************************************************************************)
(* What the repository's comments say and the code does not do.            *)
(***************************************************************************)
\* local.rs:541-542, commits past the base are a change: a session that
\* committed is not "empty".  Once pushed, a remote ref contains HEAD too.
CommittedIsDelivered ==
  [][\A s \in Session :
       /\ reaping[s] = "no" /\ reaping'[s] = "read" /\ slips' = slips
       /\ HasGit(s) /\ s \in heads[CheckedOut(s)]
       => verdict'[s] # "empty"]_vars

\* engine.rs:1137-1139, the verdict is "shipped" if the work dir changed.  It is read
\* before the agent is stopped, which may change more.
RemovedWorkCredited ==
  [][\A s \in Session :
       reaping[s] = "read" /\ reaping'[s] = "removed" /\ Unshared(s) => verdict[s] # "empty"]_vars

\* local.rs:519-522, reap leaves no dangling worktree behind.  It does when git fails.
ReapDeregisters == \A s \in dangling : ~handle[s].repo

\* engine.rs:1123-1124, a terminal session already had its process stopped.
CancelledIsStopped ==
  \A s \in Session : row[s] \in {"over", "reaped"} /\ Launched(s) => term[s] # "agent"
=============================================================================
