------------------------------ MODULE LocalBackend ------------------------------
(***************************************************************************)
(* The local backend: a work dir, in it a worktree or a clone, and a shell *)
(* under tmux or under the first-party holder, into which the agent's      *)
(* command line is typed.                                                  *)
(***************************************************************************)
EXTENDS Workers

LocalDir(s) ==
  /\ At(s, "local", "none")
  /\ \/ place' = [place EXCEPT ![s] = [NewPlace EXCEPT !.brief = TRUE]] /\ To(s, "dir")
     \/ MayFail("command") /\ UNCHANGED place /\ Errored(s)
  /\ UNCHANGED <<term, owner, settled, gitVars>>

\* Worktree, clone, or neither.  A fetch_remote without a ref is an error, and
\* so is whatever git refuses.
LocalTree(s) ==
  /\ At(s, "local", "dir")
  /\ LET r == req[s]
         refused == /\ r.isolation = "worktree"
                    /\ IF r.fetch THEN r.ref \notin OnOrigin \/ InUse(r.ref)
                       ELSE InUse(IF r.ref = NoRef THEN s ELSE r.ref)
     IN \/ /\ CASE r.isolation = "worktree" -> AddWorktree(s, r.ref, r.fetch)
                [] r.isolation = "clone"    -> AddClone(s)
                [] OTHER                    -> UNCHANGED gitVars
           /\ To(s, "tree")
        \/ /\ refused \/ (r.isolation # "none" /\ MayFail("setup"))
           /\ UNCHANGED gitVars /\ Errored(s)
  /\ UNCHANGED <<place, term, owner, settled>>

LocalSetup(s) ==
  /\ At(s, "local", "tree")
  /\ \/ place' = [place EXCEPT ![s].ready = TRUE] /\ To(s, "setup")
     \/ MayFail("setup") /\ UNCHANGED place /\ Errored(s)
  /\ UNCHANGED <<term, owner, settled, gitVars>>

\* launch_holder fails, or gives up waiting for the socket of a daemonized
\* holder that goes on to run.
HolderFails(s) == UNCHANGED <<term, owner>> \/ Daemonize(s, "shell")

\* The shell is opened by `tmux new-session` or by the holder; the handle names
\* the one it was.
LocalOpen(s) ==
  /\ At(s, "local", "setup")
  /\ \/ /\ IF flag["local"] = "holder" THEN Daemonize(s, "shell") ELSE Terminal(s, "shell", "tmux")
        /\ Started(s, Handle(flag["local"], s \in DOMAIN tree))
     \/ /\ MayFail("command") /\ Errored(s)
        /\ IF flag["local"] = "holder" THEN HolderFails(s) ELSE UNCHANGED <<term, owner>>
  /\ UNCHANGED <<place, settled, gitVars>>

MutLocalReachesByFlag(s) ==
  term[s] \in Alive /\ owner[s] = flag["local"]

\* compute: the handle, not the flag, says how to talk to the terminal.
LocalReaches(s) == term[s] \in Alive /\ owner[s] = handle[s].launcher

\* attach_from_handle: how the row tells an external terminal to attach.  A handle
\* that names no launcher has a web view at most.
AttachTransport(s) ==
  CASE handle[s].launcher = "holder" -> "dsp_hold"
    [] handle[s].launcher = "tmux"   -> "tmux"
    [] OTHER                         -> "ttyd"

\* HolderCompute::send_line: typing is for the writer, and a holder has one.
MayType(s) == handle[s].launcher = "holder" => s \notin human

\* The verbs of LocalCompute: kill calls already gone stopped enough.
TmuxInterrupt(s) == {t \in Interrupted(s) : LocalReaches(s)}
TmuxKill(s)      == {IF LocalReaches(s) THEN "dead" ELSE term[s]}

\* Those of HolderCompute: C-c is typed, the kill is a signal that any client
\* may send.
HolderInterrupt(s) == {t \in Interrupted(s) : LocalReaches(s) /\ MayType(s)}
HolderKill(s)      == {t \in {"dead"} : LocalReaches(s)}

LocalInterrupt(s) == IF handle[s].launcher = "holder" THEN HolderInterrupt(s) ELSE TmuxInterrupt(s)
LocalKill(s)      == IF handle[s].launcher = "holder" THEN HolderKill(s) ELSE TmuxKill(s)

\* LocalCompute and HolderCompute::spawn type the command line into the shell.
LocalSpawn(s) ==
  /\ At(s, "local", "started")
  /\ \/ /\ LocalReaches(s) /\ MayType(s)
        /\ term' = [term EXCEPT ![s] = "agent"] /\ To(s, "launched")
     \/ /\ ~LocalReaches(s) \/ ~MayType(s) \/ MayFail("command")
        /\ UNCHANGED term /\ Errored(s)
  /\ UNCHANGED <<place, owner, settled, gitVars>>

MutLocalReapForgetsRepo(s) ==
  /\ place' = [place EXCEPT ![s] = NoPlace]
  /\ RemoveWorkDir(s, FALSE, TRUE, 0)

\* reap: the worktree is deregistered in the repository the handle names, then the
\* work dir is removed.  It is ok whatever fails; an rm that failed may have
\* removed some of the dir.  What still runs in the terminal is not touched.
LocalReap(s) ==
  \/ RemoveWorkDir(s, handle[s].repo, TRUE, 0) /\ place' = [place EXCEPT ![s] = NoPlace]
  \/ \E emptied \in BOOLEAN : RemoveWorkDir(s, handle[s].repo, emptied, 1) /\ UNCHANGED place

\* Terminals of the launcher this process selects: `tmux ls`, or socket files.
LocalWorkers ==
  {s \in Session : KindOf(s) = "local" /\ term[s] \in Alive \cup {"stale"} /\ owner[s] = flag["local"]}

\* survey: a listing that fails is an empty one.
LocalSurveys == {LocalWorkers} \cup {S \in {{}} : MayFail("listing")}

LocalStart(s) == LocalDir(s) \/ LocalTree(s) \/ LocalSetup(s) \/ LocalOpen(s)
=============================================================================
