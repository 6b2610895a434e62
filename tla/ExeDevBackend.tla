----------------------------- MODULE ExeDevBackend -----------------------------
(***************************************************************************)
(* The exe.dev backend: START copies a template VM under a name made from  *)
(* repository and uid, tags it, waits for its sshd, pushes the brief, runs *)
(* the setup script and, on the holder path, ships the binary.             *)
(***************************************************************************)
EXTENDS Workers

MutWorkerNameNoUid(s) == <<Repo[s]>>

\* dsp-<repo>-<uid tail>, cut off at 60 bytes.
WorkerName(s) == IF Repo[s] \in LongNames THEN <<Repo[s]>> ELSE <<Repo[s], s>>

SameVm(s, u) == KindOf(u) = "exe_dev" /\ WorkerName(u) = WorkerName(s)

\* `cp` onto the name of a VM that exists is refused.
ExeCopy(s) ==
  /\ At(s, "exe_dev", "none")
  /\ LET taken == \E u \in Session : SameVm(s, u) /\ place[u].up
     IN \/ ~taken /\ place' = [place EXCEPT ![s] = NewPlace] /\ To(s, "copied")
        \/ (taken \/ MayFail("command")) /\ UNCHANGED place /\ Errored(s)
  /\ UNCHANGED <<term, owner, settled, gitVars>>

\* Up to three attempts, and START goes on without a tag.
ExeTag(s) ==
  /\ At(s, "exe_dev", "copied")
  /\ \E tagged \in Outcomes("tag") :
       place' = [place EXCEPT ![s].tagged = tagged]
  /\ To(s, "tagged")
  /\ UNCHANGED <<term, owner, settled, gitVars>>

\* 45 polls of sshd, then START gives up.
ExeAwait(s) == At(s, "exe_dev", "tagged") /\ Put(s, "reachable", place[s])

ExeBrief(s) ==
  At(s, "exe_dev", "reachable") /\ Put(s, "briefed", [place[s] EXCEPT !.brief = TRUE])

MutExeSetupUnchecked(s) ==
  /\ At(s, "exe_dev", "briefed")
  /\ \E ready \in Outcomes("setup") :
       place' = [place EXCEPT ![s].ready = ready]
  /\ IF flag["exe_dev"] = "holder" THEN To(s, "setup") ELSE Started(s, Handle("none", FALSE))
  /\ UNCHANGED <<term, owner, settled, gitVars>>

\* The setup script (clone, then the dispatch's setup) runs under `set -e`.
ExeSetup(s) ==
  /\ At(s, "exe_dev", "briefed")
  /\ \/ /\ place' = [place EXCEPT ![s].ready = TRUE]
        /\ IF flag["exe_dev"] = "holder" THEN To(s, "setup") ELSE Started(s, Handle("none", FALSE))
     \/ MayFail("setup") /\ UNCHANGED place /\ Errored(s)
  /\ UNCHANGED <<term, owner, settled, gitVars>>

\* ship_holder_binary: no path configured, a file that cannot be read and a
\* copy that fails are all errors.
ExeShip(s) ==
  /\ At(s, "exe_dev", "setup")
  /\ \/ place' = [place EXCEPT ![s].bin = TRUE] /\ Started(s, Handle("none", FALSE))
     \/ MayFail("command") /\ UNCHANGED place /\ Errored(s)
  /\ UNCHANGED <<term, owner, settled, gitVars>>

\* The run script with the agent's command in a new tmux session, ...
TmuxBootstrap(s) == Terminal(s, "agent", "tmux")

\* ... or under a daemonized holder, which takes the shipped binary.
HolderBootstrap(s) == place[s].bin /\ Daemonize(s, "agent")

\* ExeCompute::spawn chooses by this process's flag.
ExeSpawn(s) ==
  /\ At(s, "exe_dev", "started")
  /\ \/ /\ IF flag["exe_dev"] = "holder" THEN HolderBootstrap(s) ELSE TmuxBootstrap(s)
        /\ To(s, "launched")
     \/ MayFail("command") /\ UNCHANGED <<term, owner>> /\ Errored(s)
  /\ UNCHANGED <<place, settled, gitVars>>

\* worker_tmux: a command to the VM's tmux server.
WorkerTmux(s) == place[s].up /\ term[s] \in Alive /\ owner[s] = "tmux"

\* worker_holder: the shipped binary, run over ssh, dials the socket on the VM.
WorkerHolder(s) == place[s].up /\ place[s].bin /\ term[s] \in Alive /\ owner[s] = "holder"

\* ExeCompute chooses the transport by this process's flag, not by the handle.
\* hold-interrupt is for the writer; hold-stop is a signal any client may send.
ExeInterrupt(s) ==
  {t \in Interrupted(s) :
     IF flag["exe_dev"] = "holder" THEN WorkerHolder(s) /\ s \notin human ELSE WorkerTmux(s)}

ExeKill(s) ==
  {t \in {"dead"} : IF flag["exe_dev"] = "holder" THEN WorkerHolder(s) ELSE WorkerTmux(s)}

\* The VM of that name goes, with everything on it.
ExeReap(s) ==
  LET named == {u \in Session : SameVm(s, u) /\ place[u].up}
  IN /\ place' = [u \in Session |-> IF u \in named THEN NoPlace ELSE place[u]]
     /\ term'  = [u \in Session |-> IF u \in named THEN "none" ELSE term[u]]
     /\ owner' = [u \in Session |-> IF u \in named THEN "none" ELSE owner[u]]
     /\ human' = human \ named

\* list: the VMs of the account.
Vms == {s \in Session : KindOf(s) = "exe_dev" /\ place[s].up}

\* parse_vm_list and session_of: those with both tags; none, if what the service
\* answered is not the document expected.
ExeSurveys == {{s \in Vms : place[s].tagged}} \cup {S \in {{}} : MayFail("listing")}

ExeStart(s) ==
  ExeCopy(s) \/ ExeTag(s) \/ ExeAwait(s) \/ ExeBrief(s) \/ ExeSetup(s) \/ ExeShip(s)
=============================================================================
