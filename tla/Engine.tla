-------------------------------- MODULE Engine --------------------------------
(***************************************************************************)
(* The dispatch engine: the ledger's session rows, the SQLite mirror, the  *)
(* provision threads, the environments' workers, the terminal observers    *)
(* with their collector, reconcile, and a crash of the process followed    *)
(* by a restart on the same mirror.                                        *)
(*                                                                         *)
(* Every operation that holds the ledger mutex is one action.  What the    *)
(* code does between two lock sections (backend.start, the survey, joining *)
(* the observer pool) is a step of its own, so anything may come between.  *)
(* The event timeline is not kept here; only the rows are.                 *)
(***************************************************************************)
EXTENDS SessionStatus, Naturals

CONSTANTS
  Session,       \* session uids
  Foreign,       \* ... of workers an earlier disponent left running
  Exe,           \* ... whose environment is an exe.dev VM, the rest are local
  Holder,        \* ... local ones whose terminal a first-party holder owns
  Reconciler,    \* threads that may call reconcile
  Faults,        \* what may go wrong: a subset of FaultKinds
  MaxCrash,      \* bound on crashes of the disponent process
  MaxSinkFails   \* bound on failed writes to the mirror

FaultKinds == {"provision",  \* backend.start or the agent launch errors
               "stop",       \* stopping the agent errors or does nothing
               "teardown",   \* backend.reap errors, perhaps after it took effect
               "remove",     \* a work dir is not removed, and nobody hears of it
               "stream",     \* a holder connection drops before its Exit
               "survey"}     \* `tmux ls` errors, read as "nothing running"

ASSUME EngineAssumption ==
  /\ Foreign \subseteq Session
  /\ Exe \subseteq Session
  /\ Holder \subseteq Session \ Exe
  /\ Faults \subseteq FaultKinds
  /\ MaxCrash \in Nat
  /\ MaxSinkFails \in Nat

VARIABLES
  row,        \* Ledger.sessions: what the board serves
  saved,      \* the sessions table of the mirror
  prov,       \* the provision thread of each session
  env,        \* TRUE while the VM or the work dir exists
  proc,       \* the process holding the worker's terminal
  obs,        \* the session's observer in the pool
  exitItem,   \* an exit observation waiting for the collector
  survey,     \* per reconcile call: what its survey saw
  crashes, sinkFails

ledgerVars == <<row, saved, sinkFails>>
workerVars == <<env, proc>>
watchVars  == <<obs, exitItem>>
vars == <<row, saved, sinkFails, prov, env, proc, obs, exitItem, survey, crashes>>

NoRow == [state |-> "none", handle |-> FALSE, reaped |-> FALSE]

NotSurveying == [busy |-> FALSE, seen |-> {}]

ProvisionPc == {"none", "spawned", "starting", "created", "up", "errored", "watch"}

\* "killed": by a stop verb of the engine.
ProcState == {"absent", "alive", "completed", "failed", "killed", "gone"}

\* The exits a holder tells its observers.
Ended == {"completed", "failed", "killed"}

\* exit_outcome: a status other than 0, a signal's included, is a failure.
StateOfExit(p) == IF p = "completed" THEN "completed" ELSE "failed"

MayFail(fault) == fault \in Faults

Live(s) == row[s].state \in LiveStates

(***************************************************************************)
(* The mirror.  The ledger has already moved when mirror runs; a failure   *)
(* is reported, never undone.  Each plan step is a transaction of its own, *)
(* so a failing call may have stored the rows of some of the sessions.     *)
(***************************************************************************)
Stored(S) == saved' = [s \in Session |-> IF s \in S THEN row'[s] ELSE saved[s]]

MirrorOk(S) == Stored(S) /\ UNCHANGED sinkFails

MirrorErr(S) ==
  /\ S # {}
  /\ sinkFails < MaxSinkFails
  /\ sinkFails' = sinkFails + 1
  /\ \E T \in SUBSET S : Stored(T)

\* `let _ = mirror(..)`: the caller goes on either way.
Mirror(S) == MirrorOk(S) \/ MirrorErr(S)

(***************************************************************************)
(* The environments.                                                       *)
(***************************************************************************)
\* survey(): a tagged VM, a listed tmux session, or a `<uid>.sock` file (which
\* a holder that was killed leaves behind).
Surveyable(s) ==
  CASE s \in Exe    -> env[s]
    [] s \in Holder -> proc[s] \in {"alive", "gone"}
    [] OTHER        -> proc[s] = "alive"

\* Stopping the agent kills its process, or does not.
StopOutcomes(s) ==
  {IF proc[s] = "alive" THEN "killed" ELSE proc[s]}
    \cup {p \in {proc[s]} : MayFail("stop")}

\* What a backend.reap that returns ok destroys of the sessions in D once their
\* processes are in the states p: the VM with all it runs on exe.dev; on the local
\* backend only the work dir, whose removal may fail unheard
\* (`remove_dir_all(..).ok()`, or a directory outside the root).
Destroy(D, p) ==
  /\ \E left \in SUBSET {s \in D \ Exe : MayFail("remove")} :
       env' = [s \in Session |-> env[s] /\ (s \in D => s \in left)]
  /\ proc' = [s \in Session |->
                IF s \in D \cap Exe /\ p[s] = "alive" THEN "gone" ELSE p[s]]

\* watch_session: a holder that answers is observed on its exact stream;
\* every other surface, and a holder that cannot be dialled, is polled.
TierOf(s) == IF s \in Holder /\ proc[s] = "alive" THEN "exact" ELSE "scraped"

(***************************************************************************)
(* dispatch, and the provision thread it spawns.                           *)
(***************************************************************************)
\* The row is pushed, then mirrored; only a mirrored row gets a thread, and
\* only when the environment has a backend and the agent an adapter.
Dispatch(s) ==
  /\ row[s] = NoRow
  /\ s \notin Foreign
  /\ row' = [row EXCEPT ![s].state = "queued"]
  /\ \/ MirrorOk({s}) /\ \E pc \in {"none", "spawned"} : prov' = [prov EXCEPT ![s] = pc]
     \/ MirrorErr({s}) /\ UNCHANGED prov
  /\ UNCHANGED <<workerVars, watchVars, survey, crashes>>

\* First lock section: a session cancelled or reaped meanwhile is left alone.
MutProvBeginForgets(s) ==
  /\ prov[s] = "spawned"
  /\ row[s].state = "queued"
  /\ row'  = [row EXCEPT ![s].state = "provisioning"]
  /\ prov' = [prov EXCEPT ![s] = "starting"]
  /\ UNCHANGED <<saved, sinkFails, workerVars, watchVars, survey, crashes>>

MutProvBeginWrongState(s) ==
  /\ prov[s] = "spawned"
  /\ row[s].state # "provisioning"
  /\ prov' = [prov EXCEPT ![s] = "none"]
  /\ UNCHANGED <<ledgerVars, workerVars, watchVars, survey, crashes>>

ProvBegin(s) ==
  /\ prov[s] = "spawned"
  /\ IF row[s].state = "queued"
     THEN /\ row'  = [row EXCEPT ![s].state = "provisioning"]
          /\ prov' = [prov EXCEPT ![s] = "starting"]
          /\ Mirror({s})
     ELSE /\ prov' = [prov EXCEPT ![s] = "none"]
          /\ UNCHANGED ledgerVars
  /\ UNCHANGED <<workerVars, watchVars, survey, crashes>>

\* backend.start, unlocked: it creates the VM or the work dir, or errors
\* before there is one.
ProvCreate(s) ==
  /\ prov[s] = "starting"
  /\ \/ env' = [env EXCEPT ![s] = TRUE] /\ prov' = [prov EXCEPT ![s] = "created"]
     \/ MayFail("provision") /\ UNCHANGED env /\ prov' = [prov EXCEPT ![s] = "errored"]
  /\ UNCHANGED <<ledgerVars, proc, watchVars, survey, crashes>>

\* The rest of start (clone, setup, terminal) and the adapter's install, auth
\* and start.  An error at any stage drops the Provision with its handle.
ProvLaunch(s) ==
  /\ prov[s] = "created"
  /\ \/ proc' = [proc EXCEPT ![s] = "alive"] /\ prov' = [prov EXCEPT ![s] = "up"]
     \/ /\ MayFail("provision")
        /\ \E p \in {"absent", "alive"} : proc' = [proc EXCEPT ![s] = p]
        /\ prov' = [prov EXCEPT ![s] = "errored"]
  /\ UNCHANGED <<ledgerVars, env, watchVars, survey, crashes>>

\* Second lock section, worker up and session still provisioning: flip to
\* running and record the handle.  The lock drops before the watcher starts.
MutProvRunUnguarded(s) ==
  /\ prov[s] = "up"
  /\ row'  = [row EXCEPT ![s].state = "running", ![s].handle = TRUE]
  /\ prov' = [prov EXCEPT ![s] = "watch"]
  /\ Mirror({s})
  /\ UNCHANGED <<workerVars, watchVars, survey, crashes>>

ProvRun(s) ==
  /\ prov[s] = "up"
  /\ row[s].state = "provisioning"
  /\ row'  = [row EXCEPT ![s].state = "running", ![s].handle = TRUE]
  /\ prov' = [prov EXCEPT ![s] = "watch"]
  /\ Mirror({s})
  /\ UNCHANGED <<workerVars, watchVars, survey, crashes>>

\* Second lock section, session cancelled or reaped mid-provision: the fresh
\* worker is torn down, not adopted.  `let _ = backend.reap(..)`.
MutAbandonKeepsWorker(s) ==
  /\ prov[s] = "up"
  /\ row[s].state # "provisioning"
  /\ prov' = [prov EXCEPT ![s] = "none"]
  /\ UNCHANGED <<ledgerVars, workerVars, watchVars, survey, crashes>>

ProvAbandon(s) ==
  /\ prov[s] = "up"
  /\ row[s].state # "provisioning"
  /\ prov' = [prov EXCEPT ![s] = "none"]
  /\ \/ Destroy({s}, proc)
     \/ MayFail("teardown") /\ UNCHANGED workerVars
  /\ UNCHANGED <<ledgerVars, watchVars, survey, crashes>>

\* Second lock section after an error: failed, if the guard still allows it.
ProvFail(s) ==
  /\ prov[s] = "errored"
  /\ prov' = [prov EXCEPT ![s] = "none"]
  /\ IF LegalTransition(row[s].state, "failed")
     THEN row' = [row EXCEPT ![s].state = "failed"] /\ Mirror({s})
     ELSE UNCHANGED ledgerVars
  /\ UNCHANGED <<workerVars, watchVars, survey, crashes>>

\* The thread's last act, outside the lock and unconditional.
ProvWatch(s) ==
  /\ prov[s] = "watch"
  /\ prov' = [prov EXCEPT ![s] = "none"]
  /\ obs'  = [obs EXCEPT ![s] = TierOf(s)]
  /\ UNCHANGED <<ledgerVars, workerVars, exitItem, survey, crashes>>

(***************************************************************************)
(* cancel and reap.                                                        *)
(***************************************************************************)
\* Stop the agent but keep the environment.  A failed mirror returns before
\* the observer is taken out of the pool.
Cancel(s) ==
  /\ Live(s)
  /\ row' = [row EXCEPT ![s].state = "cancelled"]
  /\ IF row[s].handle
     THEN \E p \in StopOutcomes(s) : proc' = [proc EXCEPT ![s] = p]
     ELSE UNCHANGED proc
  /\ \/ MirrorOk({s}) /\ obs' = [obs EXCEPT ![s] = "none"]
     \/ MirrorErr({s}) /\ UNCHANGED obs
  /\ UNCHANGED <<prov, env, exitItem, survey, crashes>>

\* The row archived, cancelled first when it was live.
Archive(s) ==
  /\ row' = [row EXCEPT ![s].state = IF Live(s) THEN "cancelled" ELSE @,
                        ![s].reaped = TRUE]
  /\ \/ MirrorOk({s}) /\ obs' = [obs EXCEPT ![s] = "none"]
     \/ MirrorErr({s}) /\ UNCHANGED obs

\* The process as reap leaves it: stopped (or not) only if the row was live.
ReapStop(s) ==
  {[proc EXCEPT ![s] = p] : p \in IF Live(s) THEN StopOutcomes(s) ELSE {proc[s]}}

MutReapIgnoresError(s) ==
  /\ row[s] # NoRow /\ ~row[s].reaped
  /\ IF row[s].handle
     THEN \E p \in ReapStop(s) : Destroy({s}, p) \/ (MayFail("teardown") /\ proc' = p /\ UNCHANGED env)
     ELSE UNCHANGED workerVars
  /\ Archive(s)
  /\ UNCHANGED <<prov, exitItem, survey, crashes>>

\* What a reap has done to the worker when its teardown errs, if anything.
CutShort(s) == \E p \in ReapStop(s) : (proc' = p /\ UNCHANGED env) \/ Destroy({s}, p)

\* Kill the agent if live, destroy the environment, archive the row; an error
\* of the teardown leaves the board as it was, for a retry.  A session that
\* has no handle (never came up) is archived without touching anything.
Reap(s) ==
  /\ row[s] # NoRow /\ ~row[s].reaped
  /\ \/ row[s].handle  /\ \E p \in ReapStop(s) : Destroy({s}, p) /\ Archive(s)
     \/ ~row[s].handle /\ UNCHANGED workerVars /\ Archive(s)
     \/ /\ row[s].handle /\ MayFail("teardown")
        /\ CutShort(s)
        /\ UNCHANGED <<ledgerVars, obs>>
  /\ UNCHANGED <<prov, exitItem, survey, crashes>>

(***************************************************************************)
(* reconcile: the survey runs outside the lock, the verdicts inside.       *)
(***************************************************************************)
Survey(r) ==
  /\ ~survey[r].busy
  /\ LET found == {s \in Session : Surveyable(s)}
     IN \E seen \in {found} \cup {S \in {found \cap Exe} : MayFail("survey")} :
          survey' = [survey EXCEPT ![r] = [busy |-> TRUE, seen |-> seen]]
  /\ UNCHANGED <<ledgerVars, prov, workerVars, watchVars, crashes>>

\* Rows without a handle are skipped; a live row whose worker was not seen is
\* lost, a worker nobody knows is adopted as running and watched at once.
LostBy(seen) ==
  {s \in Session : row[s].handle /\ ~row[s].reaped /\ Live(s) /\ s \notin seen}

AdoptedBy(seen) == {s \in seen : row[s] = NoRow}

LingeringIn(seen) == {s \in seen : row[s].handle /\ row[s].reaped}

Reconcile(r) ==
  /\ survey[r].busy
  /\ survey' = [survey EXCEPT ![r] = NotSurveying]
  /\ LET seen    == survey[r].seen
         lost    == LostBy(seen)
         adopted == AdoptedBy(seen)
     IN /\ \E D \in SUBSET LingeringIn(seen) :
             /\ D = LingeringIn(seen) \/ MayFail("teardown")
             /\ Destroy(D, proc)
        /\ row' = [s \in Session |->
                     IF s \in lost THEN [row[s] EXCEPT !.state = "lost"]
                     ELSE IF s \in adopted
                     THEN [state |-> "running", handle |-> TRUE, reaped |-> FALSE]
                     ELSE row[s]]
        /\ obs' = [s \in Session |-> IF s \in adopted THEN TierOf(s) ELSE obs[s]]
        /\ IF lost \cup adopted = {} THEN UNCHANGED <<saved, sinkFails>>
           ELSE Mirror(lost \cup adopted)
  /\ UNCHANGED <<prov, exitItem, crashes>>

(***************************************************************************)
(* The terminal observers and the collector.                               *)
(***************************************************************************)
MutExactPollDropsItems(s) ==
  /\ obs[s] = "exact"
  /\ proc[s] # "alive"
  /\ obs' = [obs EXCEPT ![s] = "none"]
  /\ UNCHANGED <<ledgerVars, prov, workerVars, exitItem, survey, crashes>>

MutExactPollDisconnectIsExit(s) ==
  /\ obs[s] = "exact"
  /\ \/ proc[s] # "alive" /\ exitItem' = [exitItem EXCEPT ![s] = "completed"]
     \/ MayFail("stream") /\ UNCHANGED exitItem
  /\ obs' = [obs EXCEPT ![s] = "none"]
  /\ UNCHANGED <<ledgerVars, prov, workerVars, survey, crashes>>

MutExactPollAnyEnd(s) ==
  /\ obs[s] = "exact"
  /\ \/ proc[s] # "alive" /\ exitItem' = [exitItem EXCEPT ![s] = proc[s]]
     \/ MayFail("stream") /\ UNCHANGED exitItem
  /\ obs' = [obs EXCEPT ![s] = "none"]
  /\ UNCHANGED <<ledgerVars, prov, workerVars, survey, crashes>>

\* The holder's stream ends with the child's exit, or just ends: the holder
\* is gone, or the connection dropped.  Either way the observer is done.
ExactPoll(s) ==
  /\ obs[s] = "exact"
  /\ \/ /\ proc[s] \in Ended
        /\ exitItem' = [exitItem EXCEPT ![s] = StateOfExit(proc[s])]
     \/ /\ proc[s] = "gone" \/ MayFail("stream")
        /\ UNCHANGED exitItem
  /\ obs' = [obs EXCEPT ![s] = "none"]
  /\ UNCHANGED <<ledgerVars, prov, workerVars, survey, crashes>>

\* A capture of a terminal that is no longer there errors and ends the poller.
MutScrapedPollSwallows(s) ==
  /\ obs[s] = "scraped"
  /\ proc[s] = "gone"
  /\ obs' = [obs EXCEPT ![s] = "none"]
  /\ UNCHANGED <<ledgerVars, prov, workerVars, exitItem, survey, crashes>>

ScrapedPoll(s) ==
  /\ obs[s] = "scraped"
  /\ proc[s] # "alive"
  /\ obs' = [obs EXCEPT ![s] = "none"]
  /\ UNCHANGED <<ledgerVars, prov, workerVars, exitItem, survey, crashes>>

\* The collector folds an exit into the row, unless the row is archived or
\* the state machine has no such edge any more.
MutFoldUnguarded(s) ==
  /\ exitItem[s] # "none"
  /\ exitItem' = [exitItem EXCEPT ![s] = "none"]
  /\ row' = [row EXCEPT ![s].state = exitItem[s]] /\ Mirror({s})
  /\ UNCHANGED <<prov, workerVars, obs, survey, crashes>>

Fold(s) ==
  /\ exitItem[s] # "none"
  /\ exitItem' = [exitItem EXCEPT ![s] = "none"]
  /\ IF ~row[s].reaped /\ LegalTransition(row[s].state, exitItem[s])
     THEN row' = [row EXCEPT ![s].state = exitItem[s]] /\ Mirror({s})
     ELSE UNCHANGED ledgerVars
  /\ UNCHANGED <<prov, workerVars, obs, survey, crashes>>

(***************************************************************************)
(* The world around the engine.                                            *)
(***************************************************************************)
\* The worker's terminal ends: its child exits, or its holder, tmux server or
\* VM is gone at once.
AgentEnds(s) ==
  /\ proc[s] = "alive"
  /\ \E p \in {"completed", "failed", "gone"} :
       /\ proc' = [proc EXCEPT ![s] = p]
       /\ env'  = [env EXCEPT ![s] = @ /\ ~(s \in Exe /\ p = "gone")]
  /\ UNCHANGED <<ledgerVars, prov, watchVars, survey, crashes>>

\* What a cancel or a reap that never got to its row may have done to a worker.
HalfDone(s) == row[s].handle /\ ~row[s].reaped /\ CutShort(s)

\* The process dies with its threads, its pool and its queue, perhaps half-way
\* through one cancel or reap; open_with restores the board from the mirror and
\* watches the running rows again.  Workers live on.
CrashRestart ==
  /\ crashes < MaxCrash
  /\ crashes' = crashes + 1
  /\ row' = saved
  /\ UNCHANGED workerVars \/ \E s \in Session : HalfDone(s)
  /\ prov'     = [s \in Session |-> "none"]
  /\ exitItem' = [s \in Session |-> "none"]
  /\ survey'   = [r \in Reconciler |-> NotSurveying]
  /\ obs' = [s \in Session |->
               IF saved[s].state = "running" /\ saved[s].handle /\ ~saved[s].reaped
               THEN TierOf(s)' ELSE "none"]
  /\ UNCHANGED <<saved, sinkFails>>

-----------------------------------------------------------------------------
Init ==
  /\ row      = [s \in Session |-> NoRow]
  /\ saved    = row
  /\ prov     = [s \in Session |-> "none"]
  /\ env      = [s \in Session |-> s \in Foreign]
  /\ proc     = [s \in Session |-> IF s \in Foreign THEN "alive" ELSE "absent"]
  /\ obs      = [s \in Session |-> "none"]
  /\ exitItem = [s \in Session |-> "none"]
  /\ survey   = [r \in Reconciler |-> NotSurveying]
  /\ crashes = 0 /\ sinkFails = 0

\* The provision thread's steps.
Provision(s) ==
  \/ ProvBegin(s) \/ ProvCreate(s) \/ ProvLaunch(s)
  \/ ProvRun(s) \/ ProvAbandon(s) \/ ProvFail(s) \/ ProvWatch(s)

Poll(s) == ExactPoll(s) \/ ScrapedPoll(s)

Next ==
  \/ \E s \in Session :
       \/ Dispatch(s) \/ Provision(s) \/ Cancel(s) \/ Reap(s)
       \/ Poll(s) \/ Fold(s) \/ AgentEnds(s)
  \/ \E r \in Reconciler : Survey(r) \/ Reconcile(r)
  \/ CrashRestart

Spec == Init /\ [][Next]_vars

\* The threads the engine starts keep running: the provision thread, the pool's
\* pollers (on an interval) and the collector (on a 250 ms tick).  Nothing says
\* a user ever calls an operation or that a worker ever ends.
Fairness ==
  \A s \in Session : WF_vars(Provision(s)) /\ WF_vars(Poll(s)) /\ WF_vars(Fold(s))

FairSpec == Spec /\ Fairness

-----------------------------------------------------------------------------
RowType == [state : States \cup {"none"}, handle : BOOLEAN, reaped : BOOLEAN]

TypeOK ==
  /\ row   \in [Session -> RowType]
  /\ saved \in [Session -> RowType]
  /\ prov  \in [Session -> ProvisionPc]
  /\ env   \in [Session -> BOOLEAN]
  /\ proc  \in [Session -> ProcState]
  /\ obs   \in [Session -> {"none", "exact", "scraped"}]
  /\ exitItem  \in [Session -> {"none", "completed", "failed"}]
  /\ survey    \in [Reconciler -> [busy : BOOLEAN, seen : SUBSET Session]]
  /\ crashes   \in 0 .. MaxCrash
  /\ sinkFails \in 0 .. MaxSinkFails

\* A VM whose session is archived with a known worker is gone, whatever failed,
\* crashed or interleaved: reap archives only after the teardown returned ok, and
\* no thread creates an environment for such a row later.  Of a local work dir
\* nothing is promised, as its removal may fail unheard (ReapedDirGone).
ReapedEnvDestroyed ==
  \A s \in Exe \cap Session : row[s].reaped /\ row[s].handle => ~env[s]

\* As long as no write to the mirror failed, a crash at any moment between two
\* operations restores exactly the board that was served.
Durable == sinkFails = 0 => saved = row

\* `completed`, and `failed` on a session that ran, report an exit of the worker's
\* process: no dropped connection or vanished holder is told as one.  A kill may
\* be told as a failure, and never as a completion: a reap whose teardown failed
\* after its stop leaves the row running, and the signal is folded into it.
ExitIsReal ==
  \A s \in Session :
    row[s].handle =>
      /\ row[s].state = "completed" => proc[s] = "completed"
      /\ row[s].state = "failed" => proc[s] \in {"failed", "killed"}

\* Without a fault, only a crash can leave an environment that neither a row
\* with its handle, nor a provision thread, nor adoption will account for.
EveryWorkerAccounted ==
  \A s \in Session :
    env[s] /\ crashes = 0 => row[s] = NoRow \/ row[s].handle \/ prov[s] # "none"

Lifecycle == INSTANCE SessionLifecycle WITH board <- row

\* Between two restarts the served board moves only as SessionLifecycle allows,
\* even while writes to the mirror fail.
LifecycleBetweenRestarts == [][crashes' = crashes => Lifecycle!Next]_row

\* With a mirror that takes every write, restarts do not show on the board: the
\* engine implements the lifecycle a consumer is promised.
ImplementsLifecycle == Lifecycle!Spec

\* A dispatch that got its provision thread does not hang in queued or
\* provisioning: the thread ends with the session running or at an end.
ProvisioningSettles ==
  \A s \in Session, n \in 0 .. MaxCrash :
    prov[s] = "spawned" /\ crashes = n ~>
      crashes > n \/ (prov[s] = "none" /\ row[s].state \notin {"queued", "provisioning"})

\* The exit of a worker watched on the exact tier reaches its row.
ExitObserved ==
  \A s \in Session, n \in 0 .. MaxCrash :
    obs[s] = "exact" /\ proc[s] \in {"completed", "failed"} /\ crashes = n ~>
      crashes > n \/ row[s].state \in TERMINAL

\* The watcher of an archived session ends, even one that started only after
\* the reap (the provision thread spawns it outside the lock).  Not so when the
\* row is `lost`: a reconcile with a stale survey may have condemned a live
\* worker, whose process reap then does not stop.
NoZombieWatcher ==
  \A s \in Session :
    row[s].reaped /\ row[s].handle /\ row[s].state # "lost" ~> obs[s] = "none"

(***************************************************************************)
(* What the repository's comments say and the code does not do.            *)
(***************************************************************************)
\* engine.rs:626-628, a session cancelled mid-provision has its fresh worker
\* torn down.  On the local backend the teardown leaves the process running.
AbandonedWorkerStopped ==
  \A s \in Session :
    row[s].state \in TERMINAL /\ ~row[s].handle /\ prov[s] = "none" => proc[s] # "alive"

\* design.md:236, an environment that failed to provision lives until reaped.
\* A failed provisioning records no handle, so reap has nothing to destroy.
ReapedEnvGone == \A s \in Session : row[s].reaped /\ prov[s] = "none" => ~env[s]

\* engine.rs:1121-1123, a reap whose teardown fails errs with the board unchanged,
\* so that it can be retried.  A work dir that cannot be removed is not heard of.
ReapedDirGone ==
  [][\A s \in Session : row'[s].reaped /\ ~row[s].reaped /\ row[s].handle => ~env'[s]]_vars

\* engine.rs:1187-1191, `lost` is the verdict on workers that vanished.  The
\* survey may predate the flip to running of a worker that is alive.
LostIsGone ==
  [][\A s \in Session : row'[s].state = "lost" /\ row[s].state # "lost"
                          => proc[s] # "alive"]_vars
=============================================================================
