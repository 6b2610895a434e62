----------------------------- MODULE BackendsProofs -----------------------------
(***************************************************************************)
(* The backends, for any sessions, workloads, repositories, faults and     *)
(* number of restarts: agents start on prepared places, a local terminal   *)
(* stays reachable, reap leaves no worktree registered as long as git and  *)
(* rm work, and, where no two VMs share a name, all three backends keep    *)
(* the environment contract.                                               *)
(***************************************************************************)
EXTENDS Backends, TLAPS

Places  == [up : BOOLEAN, tagged : BOOLEAN, brief : BOOLEAN, ready : BOOLEAN, bin : BOOLEAN]
Terms   == {"none", "shell", "agent", "dead", "stale"}
Handles == [known : BOOLEAN, launcher : Launcher \cup {"none"}, repo : BOOLEAN]
Stages  == {"none", "copied", "tagged", "reachable", "briefed", "setup", "created",
            "dir", "tree", "started", "launched", "errored"}

WorkerType ==
  /\ req \in [Session -> Request] /\ flag \in [{"exe_dev", "local"} -> Launcher]
  /\ stage \in [Session -> Stages] /\ place \in [Session -> Places]
  /\ term \in [Session -> Terms] /\ owner \in [Session -> Launcher \cup {"none"}]
  /\ handle \in [Session -> Handles] /\ slips \in Nat

(***************************************************************************)
(* The inductive invariant, per session.                                   *)
(***************************************************************************)
\* Nothing runs before its stage, and no handle is out before START returned it.
NotYet(s) ==
  /\ handle[s].known => stage[s] \in {"started", "launched"}
  /\ stage[s] = "none" => term[s] = "none"
  /\ KindOf(s) # "local" /\ stage[s] \in Stages \ {"launched", "errored"} => term[s] = "none"

\* What the stages so far have put in the place.
Prepared(s) ==
  KindOf(s) # "modal" /\ place[s].up =>
    /\ stage[s] \in {"briefed", "dir", "tree", "setup", "started"} => place[s].brief
    /\ stage[s] \in {"setup", "started"} => place[s].ready

AgentPrepared(s) ==
  term[s] = "agent" /\ place[s].up /\ KindOf(s) # "modal" =>
    /\ place[s].brief /\ place[s].ready
    /\ KindOf(s) = "exe_dev" /\ owner[s] = "holder" => place[s].bin

\* A local handle names the launcher that holds the terminal.
HandleTrue(s) ==
  KindOf(s) = "local" /\ handle[s].known /\ term[s] \in Alive =>
    owner[s] = handle[s].launcher /\ owner[s] \in Launcher

\* A worktree dangles only once its START is over; unless git or rm failed, a
\* handle that names the repository had it deregistered.
Deregistered(s) ==
  s \in dangling => stage[s] \in {"started", "launched", "errored"} /\ (slips = 0 => ~handle[s].repo)

Sound(s) == NotYet(s) /\ Prepared(s) /\ AgentPrepared(s) /\ HandleTrue(s) /\ Deregistered(s)

BackendsInv == WorkerType /\ \A s \in Session : Sound(s)

\* No failure is forgotten, and no worktree comes to dangle ...
NoneNew(u) == (slips' = 0 => slips = 0) /\ (u \in dangling' => u \in dangling)

\* ... but one that a reap leaves.
Dangles(s) ==
  /\ slips' = 0 => slips = 0
  /\ s \in dangling' =>
       s \in dangling \/ (stage[s] \in {"started", "launched", "errored"} /\ (slips' = 0 => ~handle[s].repo))

\* A step that leaves a session alone, ...
Same(u) ==
  /\ stage'[u] = stage[u] /\ place'[u] = place[u] /\ term'[u] = term[u] /\ owner'[u] = owner[u]
  /\ handle'[u] = handle[u] /\ (u \in vanished' <=> u \in vanished) /\ NoneNew(u)

Asked(s) == reaping[s] # "no" \/ row[s] = "reaped"

\* ... and how one may move a session's phase.
Allowed(s, p, q) ==
  \/ p = q \/ p = "none" \/ q = "none"
  \/ p = "standing" /\ q = "working"
  \/ p = "working" /\ q = "standing"
  \/ p \in {"standing", "working"} /\ q = "stopped"
  \/ p \in {"standing", "working", "stopped"} /\ q = "vanished"
  \/ p \in {"standing", "working", "stopped"} /\ q = "gone" /\ Asked(s)

\* A step of session s, and of no other.
StepOf(s) ==
  /\ WorkerType' /\ req' = req
  /\ \A u \in Session \ {s} : Same(u)
  /\ Sound(s)'
  /\ Allowed(s, PhaseOf(s), PhaseOf(s)')

LEMMA SoundInit == Init => BackendsInv
<1> SUFFICES ASSUME Init PROVE BackendsInv
  OBVIOUS
<1>1. WorkerType
  <2>1. req \in [Session -> Request] /\ flag \in [{"exe_dev", "local"} -> Launcher]
    BY WorkersAssumption DEF Init, WorkersInit
  <2> QED BY <2>1 DEF Init, WorkersInit, GitInit, WorkerType, Stages, Places, Terms, Handles, NoPlace, NoHandle
<1>2. \A s \in Session : Sound(s)
  BY DEF Init, WorkersInit, GitInit, Sound, NotYet, Prepared, AgentPrepared, HandleTrue, Deregistered,
         NoPlace, NoHandle, Alive
<1> QED BY <1>1, <1>2 DEF BackendsInv

LEMMA SameSound ==
  ASSUME NEW s \in Session, Sound(s), Same(s), req' = req
  PROVE  Sound(s)' /\ PhaseOf(s)' = PhaseOf(s)
BY DEF Sound, NotYet, Prepared, AgentPrepared, HandleTrue, Deregistered, NoneNew, Same, KindOf, PhaseOf

(***************************************************************************)
(* START and the launch, stage by stage: each gives the variables of one   *)
(* session new values.                                                     *)
(***************************************************************************)
Becomes(s, st, pl, te, ow, ha) ==
  /\ stage'  = [stage  EXCEPT ![s] = st] /\ place' = [place EXCEPT ![s] = pl]
  /\ term'   = [term   EXCEPT ![s] = te] /\ owner' = [owner EXCEPT ![s] = ow]
  /\ handle' = [handle EXCEPT ![s] = ha]
  /\ req' = req /\ flag' = flag

Quiet == UNCHANGED <<dangling, slips, vanished>>

\* Is, for the sorts of values it is given, what it says of s and no one else.
LEMMA Update ==
  ASSUME WorkerType, NEW s \in Session, NEW st \in Stages, NEW pl \in Places, NEW te \in Terms,
         NEW ow \in Launcher \cup {"none"}, NEW ha \in Handles,
         Becomes(s, st, pl, te, ow, ha), Quiet
  PROVE  /\ WorkerType' /\ req' = req /\ \A u \in Session \ {s} : Same(u)
         /\ stage'[s] = st /\ place'[s] = pl /\ term'[s] = te /\ owner'[s] = ow /\ handle'[s] = ha
<1> USE DEF WorkerType, Becomes
<1>1. stage' \in [Session -> Stages] /\ stage'[s] = st /\ \A u \in Session \ {s} : stage'[u] = stage[u]
  OBVIOUS
<1>2. place' \in [Session -> Places] /\ place'[s] = pl /\ \A u \in Session \ {s} : place'[u] = place[u]
  OBVIOUS
<1>3. term' \in [Session -> Terms] /\ term'[s] = te /\ \A u \in Session \ {s} : term'[u] = term[u]
  OBVIOUS
<1>4. /\ owner' \in [Session -> Launcher \cup {"none"}] /\ owner'[s] = ow
      /\ \A u \in Session \ {s} : owner'[u] = owner[u]
  OBVIOUS
<1>5. handle' \in [Session -> Handles] /\ handle'[s] = ha /\ \A u \in Session \ {s} : handle'[u] = handle[u]
  OBVIOUS
<1> QED BY <1>1, <1>2, <1>3, <1>4, <1>5 DEF Same, NoneNew, Quiet

\* An error: the handle is dropped, and no agent has been started.
LEMMA Errs ==
  ASSUME BackendsInv, NEW s \in Session, NEW pl \in Places, NEW te \in Terms,
         NEW ow \in Launcher \cup {"none"}, Becomes(s, "errored", pl, te, ow, NoHandle), Quiet,
         \/ te # "agent" \/ KindOf(s) = "modal"
         \/ pl = place[s] /\ te = term[s] /\ ow = owner[s]
  PROVE  StepOf(s)
<1>1. "errored" \in Stages /\ NoHandle \in Handles
  BY DEF Stages, NoHandle, Handles
<1>2. /\ WorkerType' /\ req' = req /\ \A u \in Session \ {s} : Same(u)
      /\ stage'[s] = "errored" /\ place'[s] = pl /\ term'[s] = te /\ owner'[s] = ow /\ handle'[s] = NoHandle
  BY <1>1, Update DEF BackendsInv
<1>3. Sound(s)'
  BY <1>2 DEF BackendsInv, Sound, NotYet, Prepared, AgentPrepared, HandleTrue, Deregistered, Quiet, KindOf, NoHandle
<1>4. PhaseOf(s)' = "none"
  BY <1>2 DEF PhaseOf, NoHandle
<1> QED BY <1>2, <1>3, <1>4 DEF StepOf, Allowed

\* A stage of START that leaves the terminal alone, or opens the shell.
LEMMA Advances ==
  ASSUME BackendsInv, NEW s \in Session, NEW st \in Stages \ {"none"}, NEW pl \in Places,
         NEW te \in Terms, NEW ow \in Launcher \cup {"none"}, NEW ha \in Handles,
         Becomes(s, st, pl, te, ow, ha), Quiet,
         stage[s] \notin {"started", "launched", "errored"},
         \/ te = term[s] /\ ow = owner[s]
         \/ te = "shell" /\ ow = ha.launcher /\ ow \in Launcher /\ KindOf(s) = "local",
         ha = handle[s] \/ (st = "started" /\ (ha.repo => KindOf(s) = "local")),
         KindOf(s) # "modal" /\ pl.up =>
           /\ st \in {"briefed", "dir", "tree", "setup", "started"} => pl.brief
           /\ st \in {"setup", "started"} => pl.ready,
         \/ term[s] # "agent" \/ KindOf(s) = "modal"
         \/ /\ place[s].up = pl.up /\ (place[s].brief => pl.brief) /\ (place[s].ready => pl.ready)
            /\ KindOf(s) = "local",
         KindOf(s) = "local" /\ st = "started" => ow = ha.launcher /\ ow \in Launcher,
         st # "launched"
  PROVE  StepOf(s)
<1>1. /\ WorkerType' /\ req' = req /\ \A u \in Session \ {s} : Same(u)
      /\ stage'[s] = st /\ place'[s] = pl /\ term'[s] = te /\ owner'[s] = ow /\ handle'[s] = ha
  BY Update DEF BackendsInv
<1>2. Sound(s) /\ stage[s] \in Stages
  BY DEF BackendsInv, WorkerType
<1>3. ~handle[s].known
  BY <1>2 DEF Sound, NotYet
<1>4. NotYet(s)'
  BY <1>1, <1>2, <1>3 DEF Sound, NotYet, KindOf
<1>5. Prepared(s)'
  BY <1>1 DEF Prepared, KindOf
<1>6. AgentPrepared(s)'
  BY <1>1, <1>2 DEF Sound, AgentPrepared, KindOf
<1>7. HandleTrue(s)' /\ Deregistered(s)'
  BY <1>1, <1>2, <1>3 DEF Sound, HandleTrue, Deregistered, KindOf, Quiet
<1>8. PhaseOf(s) = "none"
  BY <1>3 DEF PhaseOf
<1> QED BY <1>1, <1>4, <1>5, <1>6, <1>7, <1>8 DEF StepOf, Allowed, Sound

\* What a stage leaves alone it gives the value it has.
LEMMA Kept ==
  ASSUME WorkerType, NEW s \in Session
  PROVE  /\ place = [place EXCEPT ![s] = place[s]] /\ term = [term EXCEPT ![s] = term[s]]
         /\ owner = [owner EXCEPT ![s] = owner[s]] /\ handle = [handle EXCEPT ![s] = handle[s]]
         /\ req[s] \in Request /\ stage[s] \in Stages /\ place[s] \in Places /\ term[s] \in Terms
         /\ owner[s] \in Launcher \cup {"none"} /\ handle[s] \in Handles
         /\ \A st : [stage EXCEPT ![s] = st][s] = st
BY DEF WorkerType

\* An error of START that leaves everything but the handle.
LEMMA Drops ==
  ASSUME BackendsInv, NEW s \in Session, Errored(s),
         UNCHANGED <<place, term, owner, req, flag, dangling, slips, vanished>>
  PROVE  StepOf(s)
<1>1. /\ place = [place EXCEPT ![s] = place[s]] /\ term = [term EXCEPT ![s] = term[s]]
      /\ owner = [owner EXCEPT ![s] = owner[s]] /\ [stage EXCEPT ![s] = "errored"][s] = "errored"
      /\ place[s] \in Places /\ term[s] \in Terms /\ owner[s] \in Launcher \cup {"none"}
     
  BY Kept DEF BackendsInv
<1>2. Becomes(s, "errored", place[s], term[s], owner[s], NoHandle) /\ Quiet
  BY <1>1 DEF Becomes, Quiet, Errored
<1> QED BY <1>1, <1>2, Errs

\* A stage of START that does something to the place.
LEMMA Builds ==
  ASSUME BackendsInv, NEW s \in Session,
         NEW st \in Stages \ {"none", "launched", "errored"}, NEW pl \in Places,
         place' = [place EXCEPT ![s] = pl],
         To(s, st) \/ (st = "started" /\ KindOf(s) # "local" /\ Started(s, Handle("none", FALSE))),
         UNCHANGED <<term, owner, req, flag>>, Quiet,
         stage[s] \notin {"started", "launched", "errored"},
         KindOf(s) = "local" => st # "started",
         KindOf(s) # "modal" /\ pl.up =>
           /\ st \in {"briefed", "dir", "tree", "setup", "started"} => pl.brief
           /\ st \in {"setup", "started"} => pl.ready,
         \/ KindOf(s) # "local" \/ stage[s] = "none"
         \/ place[s].up = pl.up /\ (place[s].brief => pl.brief) /\ (place[s].ready => pl.ready)
  PROVE  StepOf(s)
<1>1. /\ term = [term EXCEPT ![s] = term[s]] /\ owner = [owner EXCEPT ![s] = owner[s]]
      /\ handle = [handle EXCEPT ![s] = handle[s]] /\ [stage EXCEPT ![s] = st][s] = st
      /\ place[s] \in Places /\ term[s] \in Terms /\ owner[s] \in Launcher \cup {"none"}
      /\ handle[s] \in Handles /\ stage[s] \in Stages
  BY Kept DEF BackendsInv
<1>2. PICK ha \in Handles : /\ Becomes(s, st, pl, term[s], owner[s], ha)
                            /\ ha = handle[s] \/ (st = "started" /\ ~ha.repo)
  <2>1. CASE To(s, st)
    <3>1. Becomes(s, st, pl, term[s], owner[s], handle[s])
      BY <1>1, <2>1 DEF Becomes, To
    <3> QED BY <1>1, <3>1
  <2>2. CASE st = "started" /\ Started(s, Handle("none", FALSE))
    <3>1. Becomes(s, st, pl, term[s], owner[s], Handle("none", FALSE))
      BY <1>1, <2>2 DEF Becomes, Started
    <3>2. Handle("none", FALSE) \in Handles /\ ~Handle("none", FALSE).repo
      BY DEF Handle, Handles
    <3> QED BY <2>2, <3>1, <3>2
  <2> QED BY <2>1, <2>2
<1>3. \/ term[s] # "agent" \/ KindOf(s) = "modal"
      \/ place[s].up = pl.up /\ (place[s].brief => pl.brief) /\ (place[s].ready => pl.ready) /\ KindOf(s) = "local"
  BY <1>1 DEF BackendsInv, Sound, NotYet
<1>4. KindOf(s) = "local" => st # "started"
  OBVIOUS
<1> QED BY <1>1, <1>2, <1>3, <1>4, Advances

LEMMA ExeSteps ==
  ASSUME BackendsInv, NEW s \in Session, ExeStart(s), vanished' = vanished
  PROVE  StepOf(s)
<1>0. /\ place[s] \in Places /\ place = [place EXCEPT ![s] = place[s]]
      /\ Sound(s) /\ NewPlace \in Places
  BY Kept DEF BackendsInv, Places, NewPlace, NoPlace
<1>1. UNCHANGED <<term, owner, req, flag, dangling, slips, vanished>> /\ Quiet /\ KindOf(s) = "exe_dev"
  BY <1>0 DEF ExeStart, ExeCopy, ExeTag, ExeAwait, ExeBrief, ExeSetup, ExeShip, Put, At, settled, gitVars, Quiet
<1>2. CASE UNCHANGED place /\ Errored(s)
  BY <1>1, <1>2, Drops
<1>3. CASE ExeCopy(s)
  <2>1. /\ stage[s] = "none"
        /\ \/ place' = [place EXCEPT ![s] = NewPlace] /\ To(s, "copied")
           \/ UNCHANGED place /\ Errored(s)
    BY <1>3 DEF ExeCopy, At
  <2>2. CASE place' = [place EXCEPT ![s] = NewPlace] /\ To(s, "copied")
    BY <1>0, <1>1, <2>1, <2>2, Builds DEF Stages
  <2> QED BY <1>2, <2>1, <2>2
<1>4. CASE ExeTag(s)
  <2>1. PICK tagged \in BOOLEAN : /\ stage[s] = "copied" /\ To(s, "tagged")
                                  /\ place' = [place EXCEPT ![s] = [place[s] EXCEPT !.tagged = tagged]]
    BY <1>4 DEF ExeTag, At, Outcomes
  <2>2. [place[s] EXCEPT !.tagged = tagged] \in Places
    BY <1>0 DEF Places
  <2> QED BY <1>1, <2>1, <2>2, Builds DEF Stages
<1>5. CASE ExeAwait(s)
  <2>1. /\ stage[s] = "tagged"
        /\ \/ place' = [place EXCEPT ![s] = place[s]] /\ To(s, "reachable")
           \/ UNCHANGED place /\ Errored(s)
    BY <1>5 DEF ExeAwait, At, Put
  <2>2. CASE place' = [place EXCEPT ![s] = place[s]] /\ To(s, "reachable")
    BY <1>0, <1>1, <2>1, <2>2, Builds DEF Stages
  <2> QED BY <1>2, <2>1, <2>2
<1>6. CASE ExeBrief(s)
  <2> DEFINE pl == [place[s] EXCEPT !.brief = TRUE]
  <2>1. /\ stage[s] = "reachable"
        /\ \/ place' = [place EXCEPT ![s] = pl] /\ To(s, "briefed")
           \/ UNCHANGED place /\ Errored(s)
    BY <1>6 DEF ExeBrief, At, Put
  <2>2. pl \in Places /\ pl.brief
    BY <1>0 DEF Places
  <2> HIDE DEF pl
  <2>3. CASE place' = [place EXCEPT ![s] = pl] /\ To(s, "briefed")
    BY <1>1, <2>1, <2>2, <2>3, Builds DEF Stages
  <2> QED BY <1>2, <2>1, <2>3
<1>7. CASE ExeSetup(s)
  <2> DEFINE pl == [place[s] EXCEPT !.ready = TRUE]
  <2>1. /\ stage[s] = "briefed"
        /\ \/ place' = [place EXCEPT ![s] = pl] /\ (To(s, "setup") \/ Started(s, Handle("none", FALSE)))
           \/ UNCHANGED place /\ Errored(s)
    BY <1>7 DEF ExeSetup, At
  <2>2. pl \in Places /\ pl.ready /\ (pl.up => pl.brief)
    BY <1>0, <1>1, <2>1 DEF Places, Sound, Prepared
  <2> HIDE DEF pl
  <2>3. CASE place' = [place EXCEPT ![s] = pl] /\ To(s, "setup")
    BY <1>1, <2>1, <2>2, <2>3, Builds DEF Stages
  <2>4. CASE place' = [place EXCEPT ![s] = pl] /\ Started(s, Handle("none", FALSE))
    BY <1>1, <2>1, <2>2, <2>4, Builds DEF Stages
  <2> QED BY <1>2, <2>1, <2>3, <2>4
<1>8. CASE ExeShip(s)
  <2> DEFINE pl == [place[s] EXCEPT !.bin = TRUE]
  <2>1. /\ stage[s] = "setup"
        /\ \/ place' = [place EXCEPT ![s] = pl] /\ Started(s, Handle("none", FALSE))
           \/ UNCHANGED place /\ Errored(s)
    BY <1>8 DEF ExeShip, At
  <2>2. pl \in Places /\ (pl.up => pl.brief /\ pl.ready)
    BY <1>0, <1>1, <2>1 DEF Places, Sound, Prepared
  <2> HIDE DEF pl
  <2>3. CASE place' = [place EXCEPT ![s] = pl] /\ Started(s, Handle("none", FALSE))
    BY <1>1, <2>1, <2>2, <2>3, Builds DEF Stages
  <2> QED BY <1>2, <2>1, <2>3
<1> QED BY <1>3, <1>4, <1>5, <1>6, <1>7, <1>8 DEF ExeStart

\* modal.  A run of the driver that errs may have done its work all the same.
LEMMA DriverErrs ==
  ASSUME BackendsInv, NEW s \in Session, Errored(s), KindOf(s) = "modal",
         NEW pl \in Places, place' = [place EXCEPT ![s] = pl], UNCHANGED <<term, owner, req, flag, dangling, slips, vanished>>
  PROVE  StepOf(s)
<1>1. /\ term = [term EXCEPT ![s] = term[s]]
      /\ owner = [owner EXCEPT ![s] = owner[s]] /\ [stage EXCEPT ![s] = "errored"][s] = "errored"
      /\ term[s] \in Terms /\ owner[s] \in Launcher \cup {"none"}
  BY Kept DEF BackendsInv
<1>2. Becomes(s, "errored", pl, term[s], owner[s], NoHandle) /\ Quiet
  BY <1>1 DEF Becomes, Quiet, Errored
<1> QED BY <1>1, <1>2, Errs

LEMMA ModalSteps ==
  ASSUME BackendsInv, NEW s \in Session, ModalStart(s), vanished' = vanished
  PROVE  StepOf(s)
<1>0. place[s] \in Places
  BY Kept DEF BackendsInv
<1>1. UNCHANGED <<term, owner, req, flag, dangling, slips, vanished>> /\ Quiet /\ KindOf(s) = "modal"
  BY <1>0 DEF ModalStart, ModalCreate, ModalBrief, ModalSetup, At, settled, gitVars, Quiet
<1>2. CASE UNCHANGED place /\ Errored(s)
  BY <1>1, <1>2, Drops
<1>3. CASE ModalCreate(s)
  <2>1. /\ stage[s] = "none"
        /\ \/ SandboxCreate(s) /\ (To(s, "created") \/ Errored(s))
           \/ UNCHANGED place /\ Errored(s)
    BY <1>3 DEF ModalCreate, At, Driver, Raised
  <2>2. CASE SandboxCreate(s) /\ (To(s, "created") \/ Errored(s))
    <3>1. PICK tagged \in BOOLEAN : place' = [place EXCEPT ![s] = [NewPlace EXCEPT !.tagged = tagged]]
      BY <2>2 DEF SandboxCreate, Outcomes
    <3> DEFINE pl == [NewPlace EXCEPT !.tagged = tagged]
    <3>2. pl \in Places
      BY DEF Places, NewPlace, NoPlace
    <3> HIDE DEF pl
    <3>3. place' = [place EXCEPT ![s] = pl]
      BY <3>1 DEF pl
    <3>4. CASE To(s, "created")
      BY <1>1, <2>1, <3>2, <3>3, <3>4, Builds DEF Stages
    <3>5. CASE Errored(s)
      BY <1>1, <3>2, <3>3, <3>5, DriverErrs
    <3> QED BY <2>2, <3>4, <3>5
  <2> QED BY <1>2, <2>1, <2>2
<1>4. CASE ModalBrief(s)
  <2>1. /\ stage[s] = "created"
        /\ \/ Exec(s, "brief", "command") /\ (To(s, "briefed") \/ Errored(s))
           \/ UNCHANGED place /\ Errored(s)
    BY <1>4 DEF ModalBrief, At, Driver, Raised
  <2>2. CASE Exec(s, "brief", "command") /\ (To(s, "briefed") \/ Errored(s))
    <3>1. PICK done \in BOOLEAN : place' = [place EXCEPT ![s] = [place[s] EXCEPT !["brief"] = done]]
      BY <2>2 DEF Exec, Outcomes
    <3> DEFINE pl == [place[s] EXCEPT !["brief"] = done]
    <3>2. pl \in Places
      BY <1>0 DEF Places
    <3> HIDE DEF pl
    <3>3. place' = [place EXCEPT ![s] = pl]
      BY <3>1 DEF pl
    <3>4. CASE To(s, "briefed")
      BY <1>1, <2>1, <3>2, <3>3, <3>4, Builds DEF Stages
    <3>5. CASE Errored(s)
      BY <1>1, <3>2, <3>3, <3>5, DriverErrs
    <3> QED BY <2>2, <3>4, <3>5
  <2> QED BY <1>2, <2>1, <2>2
<1>5. CASE ModalSetup(s)
  <2>1. /\ stage[s] = "briefed"
        /\ \/ Exec(s, "ready", "setup") /\ (Started(s, Handle("none", FALSE)) \/ Errored(s))
           \/ UNCHANGED place /\ Errored(s)
    BY <1>5 DEF ModalSetup, At, Driver, Raised
  <2>2. CASE Exec(s, "ready", "setup") /\ (Started(s, Handle("none", FALSE)) \/ Errored(s))
    <3>1. PICK done \in BOOLEAN : place' = [place EXCEPT ![s] = [place[s] EXCEPT !["ready"] = done]]
      BY <2>2 DEF Exec, Outcomes
    <3> DEFINE pl == [place[s] EXCEPT !["ready"] = done]
    <3>2. pl \in Places
      BY <1>0 DEF Places
    <3> HIDE DEF pl
    <3>3. place' = [place EXCEPT ![s] = pl]
      BY <3>1 DEF pl
    <3>4. CASE Started(s, Handle("none", FALSE))
      BY <1>1, <2>1, <3>2, <3>3, <3>4, Builds DEF Stages
    <3>5. CASE Errored(s)
      BY <1>1, <3>2, <3>3, <3>5, DriverErrs
    <3> QED BY <2>2, <3>4, <3>5
  <2> QED BY <1>2, <2>1, <2>2
<1> QED BY <1>3, <1>4, <1>5 DEF ModalStart

\* Locally: the stages up to the setup leave the terminal alone ...
LEMMA TreesAreSound ==
  ASSUME NEW s \in Session, LocalTree(s), vanished' = vanished
  PROVE  Quiet
BY DEF LocalTree, AddWorktree, AddClone, gitVars, Quiet

LEMMA LocalSteps ==
  ASSUME BackendsInv, NEW s \in Session,
         LocalDir(s) \/ LocalTree(s) \/ LocalSetup(s), vanished' = vanished
  PROVE  StepOf(s)
<1>0. /\ place[s] \in Places /\ place = [place EXCEPT ![s] = place[s]] /\ Sound(s)
     
  BY Kept DEF BackendsInv
<1>1. UNCHANGED <<term, owner, req, flag>> /\ KindOf(s) = "local"
  BY DEF LocalDir, LocalTree, LocalSetup, At, settled
<1>2. CASE LocalDir(s)
  <2> DEFINE pl == [NewPlace EXCEPT !.brief = TRUE]
  <2>1. /\ stage[s] = "none" /\ Quiet
        /\ \/ place' = [place EXCEPT ![s] = pl] /\ To(s, "dir")
           \/ UNCHANGED place /\ Errored(s)
    BY <1>0, <1>2 DEF LocalDir, At, gitVars, Quiet
  <2>2. pl \in Places /\ pl.brief
    BY DEF Places, NewPlace, NoPlace
  <2> HIDE DEF pl
  <2>3. CASE place' = [place EXCEPT ![s] = pl] /\ To(s, "dir")
    <3>1. "dir" \in Stages \ {"none", "launched", "errored"}
      BY DEF Stages
    <3> QED BY <1>1, <2>1, <2>2, <2>3, <3>1, Builds
  <2>4. CASE UNCHANGED place /\ Errored(s)
    BY <1>1, <2>1, <2>4, Drops DEF Quiet
  <2> QED BY <2>1, <2>3, <2>4
<1>3. CASE LocalTree(s)
  <2>1. /\ stage[s] = "dir" /\ UNCHANGED place /\ Quiet
        /\ To(s, "tree") \/ Errored(s)
    BY <1>3, TreesAreSound DEF LocalTree, At
  <2>2. CASE To(s, "tree")
    <3> DEFINE pl == place[s]
    <3>1. /\ place' = [place EXCEPT ![s] = pl] /\ (pl.up => pl.brief) /\ pl \in Places
          /\ place[s].up = pl.up /\ place[s].brief = pl.brief /\ place[s].ready = pl.ready
      BY <1>0, <1>1, <2>1 DEF Sound, Prepared
    <3>2. "tree" \in Stages \ {"none", "launched", "errored"}
      BY DEF Stages
    <3> HIDE DEF pl
    <3> QED BY <1>1, <2>1, <2>2, <3>1, <3>2, Builds
  <2>3. CASE Errored(s)
    BY <1>1, <2>1, <2>3, Drops DEF Quiet
  <2> QED BY <2>1, <2>2, <2>3
<1>4. CASE LocalSetup(s)
  <2> DEFINE pl == [place[s] EXCEPT !.ready = TRUE]
  <2>1. /\ stage[s] = "tree" /\ Quiet
        /\ \/ place' = [place EXCEPT ![s] = pl] /\ To(s, "setup")
           \/ UNCHANGED place /\ Errored(s)
    BY <1>0, <1>4 DEF LocalSetup, At, gitVars, Quiet
  <2>2. /\ pl \in Places /\ pl.ready /\ (pl.up => pl.brief)
        /\ place[s].up = pl.up /\ place[s].brief = pl.brief
    BY <1>0, <1>1, <2>1 DEF Places, Sound, Prepared
  <2> HIDE DEF pl
  <2>3. CASE place' = [place EXCEPT ![s] = pl] /\ To(s, "setup")
    <3>1. "setup" \in Stages \ {"none", "launched", "errored"}
      BY DEF Stages
    <3> QED BY <1>1, <2>1, <2>2, <2>3, <3>1, Builds
  <2>4. CASE UNCHANGED place /\ Errored(s)
    BY <1>1, <2>1, <2>4, Drops DEF Quiet
  <2> QED BY <2>1, <2>3, <2>4
<1> QED BY <1>2, <1>3, <1>4

\* ... and the last one opens the shell.
LEMMA LocalOpens ==
  ASSUME BackendsInv, NEW s \in Session, LocalOpen(s), vanished' = vanished
  PROVE  StepOf(s)
<1>0. /\ place[s] \in Places /\ place = [place EXCEPT ![s] = place[s]] /\ Sound(s)
      /\ term[s] \in Terms /\ term = [term EXCEPT ![s] = term[s]]
      /\ owner[s] \in Launcher \cup {"none"} /\ owner = [owner EXCEPT ![s] = owner[s]]
      /\ [stage EXCEPT ![s] = "errored"][s] = "errored" /\ [stage EXCEPT ![s] = "started"][s] = "started"
      /\ flag["local"] \in Launcher
  BY Kept DEF BackendsInv, WorkerType
<1>1. UNCHANGED <<place, req, flag, dangling, slips, vanished>> /\ Quiet /\ KindOf(s) = "local" /\ stage[s] = "setup"
  BY <1>0 DEF LocalOpen, At, settled, gitVars, Quiet
<1>2. "shell" \in Terms /\ {"tmux", "holder"} = Launcher /\ "started" \in Stages
  BY DEF Terms, Launcher, Stages
<1>3. CASE UNCHANGED <<term, owner>> /\ Errored(s)
  BY <1>1, <1>3, Drops
<1>4. CASE Daemonize(s, "shell") /\ Errored(s)
  <2>1. Becomes(s, "errored", place[s], "shell", "holder", NoHandle)
    BY <1>0, <1>1, <1>4 DEF Becomes, Errored, Daemonize, Terminal
  <2> QED BY <1>0, <1>1, <1>2, <2>1, Errs
<1>5. ASSUME Terminal(s, "shell", flag["local"]), Started(s, Handle(flag["local"], s \in DOMAIN tree))
      PROVE  StepOf(s)
  <2> DEFINE ha == Handle(flag["local"], s \in DOMAIN tree)
  <2>1. Becomes(s, "started", place[s], "shell", flag["local"], ha)
    BY <1>0, <1>1, <1>5 DEF Becomes, Started, Terminal
  <2>2. ha \in Handles /\ ha.launcher = flag["local"]
    BY <1>0 DEF Handle, Handles
  <2>3. place[s].up => place[s].brief /\ place[s].ready
    BY <1>0, <1>1 DEF Sound, Prepared
  <2> HIDE DEF ha
  <2> QED BY <1>0, <1>1, <1>2, <2>1, <2>2, <2>3, Advances
<1>6. \/ Terminal(s, "shell", flag["local"]) /\ Started(s, Handle(flag["local"], s \in DOMAIN tree))
      \/ (UNCHANGED <<term, owner>> \/ Daemonize(s, "shell")) /\ Errored(s)
  BY <1>0, <1>2 DEF LocalOpen, HolderFails, Daemonize
<1> QED BY <1>3, <1>4, <1>5, <1>6

\* The agent's launch.
LEMMA Launches ==
  ASSUME BackendsInv, NEW s \in Session, NEW ow \in Launcher \cup {"none"},
         Becomes(s, "launched", place[s], "agent", ow, handle[s]), Quiet, stage[s] = "started",
         KindOf(s) = "local" => term[s] \in Alive /\ ow = owner[s],
         KindOf(s) = "exe_dev" /\ ow = "holder" => place[s].bin
  PROVE  StepOf(s)
<1>1. "launched" \in Stages /\ "agent" \in Terms /\ "started" \in Stages
  BY DEF Stages, Terms
<1>2. place[s] \in Places /\ handle[s] \in Handles /\ Sound(s)
  BY Kept DEF BackendsInv
<1>3. /\ WorkerType' /\ req' = req /\ \A u \in Session \ {s} : Same(u)
      /\ stage'[s] = "launched" /\ place'[s] = place[s] /\ term'[s] = "agent" /\ owner'[s] = ow
      /\ handle'[s] = handle[s]
  BY <1>1, <1>2, Update DEF BackendsInv
<1>4. NotYet(s)' /\ Prepared(s)'
  BY <1>3 DEF NotYet, Prepared
<1>5. AgentPrepared(s)'
  BY <1>2, <1>3 DEF Sound, Prepared, AgentPrepared, KindOf
<1>6. HandleTrue(s)' /\ Deregistered(s)'
  BY <1>2, <1>3 DEF Sound, HandleTrue, Deregistered, KindOf, Quiet
<1>7. Allowed(s, PhaseOf(s), PhaseOf(s)')
  <2>1. term[s] \in Alive \cup {"none"}
    BY <1>1, <1>2 DEF Sound, NotYet
  <2> QED BY <1>3, <2>1 DEF Allowed, PhaseOf, Alive, Quiet
<1> QED BY <1>3, <1>4, <1>5, <1>6, <1>7 DEF StepOf, Sound

LEMMA AgentStarts ==
  ASSUME BackendsInv, NEW s \in Session, AgentStart(s), vanished' = vanished
  PROVE  StepOf(s)
<1>0. /\ place[s] \in Places /\ place = [place EXCEPT ![s] = place[s]]
      /\ handle[s] \in Handles /\ handle = [handle EXCEPT ![s] = handle[s]]
      /\ owner[s] \in Launcher \cup {"none"} /\ owner = [owner EXCEPT ![s] = owner[s]]
      /\ [stage EXCEPT ![s] = "launched"][s] = "launched"
  BY Kept DEF BackendsInv
<1>1. UNCHANGED <<place, req, flag, dangling, slips, vanished>> /\ Quiet /\ stage[s] = "started"
  BY <1>0 DEF AgentStart, ExeSpawn, ModalSpawn, LocalSpawn, At, settled, gitVars, Quiet
<1>2. CASE UNCHANGED <<term, owner>> /\ Errored(s)
  BY <1>1, <1>2, Drops
<1>3. ASSUME NEW ow \in Launcher \cup {"none"}, To(s, "launched"),
             Terminal(s, "agent", ow) \/ (term' = [term EXCEPT ![s] = "agent"] /\ UNCHANGED owner /\ ow = owner[s])
      PROVE  Becomes(s, "launched", place[s], "agent", ow, handle[s])
  BY <1>0, <1>1, <1>3 DEF Becomes, To, Terminal
<1>4. {"tmux", "holder"} = Launcher
  BY DEF Launcher
<1>5. CASE ExeSpawn(s)
  <2>1. KindOf(s) = "exe_dev"
    BY <1>5 DEF ExeSpawn, At
  <2>2. \/ Terminal(s, "agent", "holder") /\ place[s].bin /\ To(s, "launched")
        \/ Terminal(s, "agent", "tmux") /\ To(s, "launched")
        \/ UNCHANGED <<term, owner>> /\ Errored(s)
    BY <1>5 DEF ExeSpawn, HolderBootstrap, TmuxBootstrap, Daemonize
  <2>3. CASE Terminal(s, "agent", "holder") /\ place[s].bin /\ To(s, "launched")
    BY <1>1, <1>3, <1>4, <2>1, <2>3, Launches
  <2>4. CASE Terminal(s, "agent", "tmux") /\ To(s, "launched")
    BY <1>1, <1>3, <1>4, <2>1, <2>4, Launches
  <2> QED BY <1>2, <2>2, <2>3, <2>4
<1>6. CASE ModalSpawn(s)
  <2>1. KindOf(s) = "modal"
    BY <1>6 DEF ModalSpawn, At
  <2>2. \/ Terminal(s, "agent", "tmux") /\ To(s, "launched")
        \/ UNCHANGED <<term, owner>> /\ Errored(s)
    BY <1>6 DEF ModalSpawn, ContainerBootstrap
  <2>3. CASE Terminal(s, "agent", "tmux") /\ To(s, "launched")
    BY <1>1, <1>3, <1>4, <2>1, <2>3, Launches
  <2> QED BY <1>2, <2>2, <2>3
<1>7. CASE LocalSpawn(s)
  <2>1. KindOf(s) = "local" /\ UNCHANGED owner
    BY <1>7 DEF LocalSpawn, At
  <2>2. \/ term' = [term EXCEPT ![s] = "agent"] /\ term[s] \in Alive /\ To(s, "launched")
        \/ UNCHANGED <<term, owner>> /\ Errored(s)
    BY <1>7 DEF LocalSpawn, LocalReaches
  <2>3. CASE term' = [term EXCEPT ![s] = "agent"] /\ term[s] \in Alive /\ To(s, "launched")
    <3>1. Becomes(s, "launched", place[s], "agent", owner[s], handle[s])
      BY <1>0, <1>3, <2>1, <2>3
    <3> QED BY <1>0, <1>1, <2>1, <2>3, <3>1, Launches
  <2> QED BY <1>2, <2>2, <2>3
<1> QED BY <1>5, <1>6, <1>7 DEF AgentStart

\* A provision step as a whole.
LEMMA Provisions ==
  ASSUME BackendsInv, NEW s \in Session, Provision(s)
  PROVE  StepOf(s)
<1>0. vanished' = vanished
  BY DEF Provision
<1>1. CASE ExeStart(s)
  BY <1>0, <1>1, ExeSteps
<1>2. CASE ModalStart(s)
  BY <1>0, <1>2, ModalSteps
<1>3. CASE LocalStart(s)
  BY <1>0, <1>3, LocalSteps, LocalOpens DEF LocalStart
<1>4. CASE AgentStart(s)
  BY <1>0, <1>4, AgentStarts
<1> QED BY <1>1, <1>2, <1>3, <1>4 DEF Provision

(***************************************************************************)
(* The other steps.                                                        *)
(***************************************************************************)
\* What a verb, or the agent's end, may leave of a terminal.
Quieter(t, was) ==
  \/ t = was
  \/ was = "agent" /\ t = "shell"
  \/ was \in Alive /\ t \in {"dead", "stale"}

\* A step that may quieten the terminal of a session, destroy a place on request,
\* and leave a worktree dangling as a reap may.
LEMMA Hushes ==
  ASSUME BackendsInv, NEW s \in Session, NEW t \in Terms, Quieter(t, term[s]), term' = [term EXCEPT ![s] = t],
         UNCHANGED <<stage, owner, handle, flag, req, vanished>>,
         slips' \in Nat, Dangles(s), \A u \in Session \ {s} : NoneNew(u),
         place' = place \/ (place' = [place EXCEPT ![s] = NoPlace] /\ Asked(s))
  PROVE  StepOf(s)
<1>1. WorkerType /\ Sound(s) /\ NoPlace \in Places /\ ~NoPlace.up
  BY DEF BackendsInv, Places, NoPlace
<1>2. /\ WorkerType' /\ \A u \in Session \ {s} : Same(u)
      /\ term'[s] = t /\ (place'[s] = place[s] \/ (place'[s] = NoPlace /\ Asked(s)))
  BY <1>1 DEF WorkerType, Same
<1>3. NotYet(s)' /\ Prepared(s)'
  BY <1>1, <1>2 DEF Sound, NotYet, Prepared, Quieter, KindOf, Alive
<1>4. AgentPrepared(s)' /\ HandleTrue(s)'
  BY <1>1, <1>2 DEF Sound, AgentPrepared, HandleTrue, Quieter, KindOf, Alive
<1>5. Deregistered(s)'
  BY <1>1 DEF Sound, Deregistered, Dangles
<1>6. Allowed(s, PhaseOf(s), PhaseOf(s)')
  BY <1>1, <1>2 DEF Allowed, PhaseOf, Quieter, Alive
<1> QED BY <1>2, <1>3, <1>4, <1>5, <1>6 DEF StepOf, Sound

LEMMA VerbsQuiet ==
  ASSUME BackendsInv, NEW s \in Session
  PROVE  /\ \A t \in StopWork(s) \cup StopExec(s) : t \in Terms /\ Quieter(t, term[s])
         /\ \A t \in KillOutcomes(s) \cup StopOutcomes(s) : t \in Terms /\ Quieter(t, term[s])
<1>1. term[s] \in Terms /\ Quieter(term[s], term[s]) /\ req[s].env \in {"exe_dev", "modal", "local"}
  BY DEF BackendsInv, WorkerType, Quieter, Request
<1>2. \A t \in Interrupted(s) : t \in Terms /\ Quieter(t, term[s])
  BY <1>1 DEF Interrupted, Terms, Quieter
<1>3. \A t \in StopWork(s) : t \in Terms /\ Quieter(t, term[s])
  BY <1>1, <1>2 DEF StopWork, KindOf, ExeInterrupt, ModalInterrupt, LocalInterrupt, HolderInterrupt, TmuxInterrupt
<1>4. \A t \in StopExec(s) : t \in Terms /\ Quieter(t, term[s])
  <2>1. CASE KindOf(s) = "exe_dev"
    BY <2>1 DEF StopExec, ExeKill, WorkerHolder, WorkerTmux, Quieter, Terms
  <2>2. CASE KindOf(s) = "modal"
    BY <2>2 DEF StopExec, ModalKill, TmuxExec, Quieter, Terms
  <2>3. CASE KindOf(s) = "local"
    BY <1>1, <2>3 DEF StopExec, LocalKill, HolderKill, TmuxKill, LocalReaches, Quieter, Terms
  <2> QED BY <1>1, <2>1, <2>2, <2>3 DEF KindOf
<1>5. \A t \in KillOutcomes(s) : t \in Terms /\ Quieter(t, term[s])
  BY <1>1, <1>4 DEF KillOutcomes, Untouched
<1>6. \A t \in StopOutcomes(s) : t \in Terms /\ Quieter(t, term[s])
  BY <1>1, <1>3, <1>4 DEF StopOutcomes, Untouched
<1> QED BY <1>3, <1>4, <1>5, <1>6

LEMMA Adoptions ==
  ASSUME BackendsInv, NEW s \in Session, Adopt(s)
  PROVE  StepOf(s)
<1> DEFINE ha == SurveyHandle(s)
<1>1. WorkerType /\ Sound(s) /\ req[s].env \in {"exe_dev", "modal", "local"}
  BY DEF BackendsInv, WorkerType, Request
<1>2. ha \in Handles /\ ha.known /\ ~ha.repo /\ (KindOf(s) = "local" => ha.launcher = flag["local"])
  BY <1>1 DEF SurveyHandle, Handle, Handles, WorkerType
<1> HIDE DEF ha
<1>3. /\ stage' = [stage EXCEPT ![s] = "launched"] /\ handle' = [handle EXCEPT ![s] = ha]
      /\ UNCHANGED <<place, term, owner, flag, req, dangling, slips, vanished>>
  BY DEF Adopt, gitVars, ha
<1>4. /\ WorkerType' /\ \A u \in Session \ {s} : Same(u)
      /\ stage'[s] = "launched" /\ handle'[s] = ha
  BY <1>1, <1>2, <1>3 DEF WorkerType, Same, NoneNew, Stages
<1>5. KindOf(s) = "local" => owner[s] = flag["local"] /\ flag["local"] \in Launcher
  <2>1. PICK vms \in ExeSurveys, sandboxes \in ModalSurveys, terminals \in LocalSurveys :
          s \in vms \cup sandboxes \cup terminals
    BY DEF Adopt, Surveys
  <2>2. s \in vms => KindOf(s) = "exe_dev"
    BY DEF ExeSurveys, Vms
  <2>3. s \in sandboxes => KindOf(s) = "modal"
    BY DEF ModalSurveys, SandboxList
  <2>4. s \in terminals => owner[s] = flag["local"]
    BY DEF LocalSurveys, LocalWorkers
  <2> QED BY <1>1, <2>1, <2>2, <2>3, <2>4 DEF WorkerType
<1>6. Sound(s)'
  BY <1>1, <1>2, <1>3, <1>4, <1>5 DEF Sound, NotYet, Prepared, AgentPrepared, HandleTrue, Deregistered, KindOf
<1>7. Allowed(s, PhaseOf(s), PhaseOf(s)')
  BY <1>2, <1>3, <1>4 DEF Allowed, PhaseOf
<1> QED BY <1>3, <1>4, <1>6, <1>7 DEF StepOf

\* A VM or a sandbox that disappears.
LEMMA Vanishes ==
  ASSUME BackendsInv, NEW s \in Session, Vanish(s)
  PROVE  StepOf(s)
<1>1. /\ WorkerType /\ Sound(s) /\ NoPlace \in Places /\ ~NoPlace.up /\ "none" \in Terms
      /\ "none" \in Launcher \cup {"none"}
  BY DEF BackendsInv, Places, NoPlace, Terms
<1>2. /\ place' = [place EXCEPT ![s] = NoPlace] /\ term' = [term EXCEPT ![s] = "none"]
      /\ owner' = [owner EXCEPT ![s] = "none"] /\ vanished' = vanished \cup {s}
      /\ UNCHANGED <<stage, handle, flag, req, dangling, slips>>
      /\ place[s].up /\ stage[s] \in {"launched", "errored"}
  BY DEF Vanish, Terminal, gitVars
<1>3. WorkerType' /\ (\A u \in Session \ {s} : Same(u)) /\ place'[s] = NoPlace /\ term'[s] = "none"
  BY <1>1, <1>2 DEF WorkerType, Same, NoneNew
<1>4. Sound(s)'
  BY <1>1, <1>2, <1>3 DEF Sound, NotYet, Prepared, AgentPrepared, HandleTrue, Deregistered, KindOf, Alive
<1>5. Allowed(s, PhaseOf(s), PhaseOf(s)')
  BY <1>1, <1>2, <1>3 DEF Allowed, PhaseOf
<1> QED BY <1>2, <1>3, <1>4, <1>5 DEF StepOf

(***************************************************************************)
(* Places destroyed.                                                       *)
(***************************************************************************)
\* Of one session's worktree reap may leave the registration, and nobody hears of
\* it only if git or rm failed.
LEMMA Removals ==
  ASSUME WorkerType, NEW s \in Session, NEW emptied, NEW fails \in {0, 1},
         RemoveWorkDir(s, handle[s].repo, emptied, fails), handle[s].known, Sound(s)
  PROVE  slips' \in Nat /\ Dangles(s) /\ \A u \in Session \ {s} : NoneNew(u)
<1> DEFINE one(ok) == IF ok THEN 0 ELSE 1
<1>1. PICK removed \in {TRUE, ~handle[s].repo}, pruned \in {TRUE, ~handle[s].repo} :
        LET dropped  == IF ~handle[s].repo THEN {}
                        ELSE {t \in dangling : pruned} \cup {t \in {s} \ dangling : removed}
            left     == dangling \cup {t \in {s} : emptied}
        IN /\ slips' = slips + fails + one(removed) + one(pruned)
           /\ tree' = [t \in DOMAIN tree \ dropped |-> tree[t]]
           /\ dangling' = left \cap DOMAIN tree'
  BY DEF RemoveWorkDir
<1>2. slips \in Nat /\ handle[s].repo \in BOOLEAN
  BY DEF WorkerType, Handles
<1>3. slips' \in Nat /\ (slips' = 0 => slips = 0 /\ removed /\ pruned)
  BY <1>1, <1>2
<1>4. \A u \in Session : u \in dangling' => u \in dangling \/ u = s
  BY <1>1
<1>5. slips' = 0 /\ handle[s].repo => s \notin dangling'
  BY <1>1, <1>3
<1>6. slips' = 0 /\ s \in dangling' => ~handle[s].repo
  BY <1>5
<1> QED BY <1>3, <1>4, <1>6 DEF Dangles, NoneNew, Sound, NotYet

\* What a reap does to a place that concerns one session only.
LEMMA SoloReaps ==
  ASSUME BackendsInv, NEW s \in Session, Removed(s), KindOf(s) # "exe_dev", Asked(s), handle[s].known,
         UNCHANGED <<stage, handle, flag, req, vanished>>
  PROVE  StepOf(s)
<1>1. /\ WorkerType /\ Sound(s) /\ NoPlace \in Places /\ ~NoPlace.up /\ "none" \in Terms
      /\ term[s] \in Terms /\ "none" \in Launcher \cup {"none"}
  BY DEF BackendsInv, WorkerType, Places, NoPlace, Terms
<1>2. CASE KindOf(s) = "modal"
  <2>1. /\ place' = [place EXCEPT ![s] = NoPlace] /\ term' = [term EXCEPT ![s] = "none"]
        /\ owner' = [owner EXCEPT ![s] = "none"] /\ UNCHANGED <<dangling, slips>>
    BY <1>2 DEF Removed, ModalReap, Terminal, gitVars
  <2>2. WorkerType' /\ (\A u \in Session \ {s} : Same(u)) /\ place'[s] = NoPlace /\ term'[s] = "none"
    BY <1>1, <2>1 DEF WorkerType, Same, NoneNew
  <2>3. Sound(s)'
    BY <1>1, <2>1, <2>2 DEF Sound, NotYet, Prepared, AgentPrepared, HandleTrue, Deregistered, KindOf, Alive
  <2>4. Allowed(s, PhaseOf(s), PhaseOf(s)')
    BY <1>1, <2>1, <2>2 DEF Allowed, PhaseOf
  <2> QED BY <2>2, <2>3, <2>4 DEF StepOf
<1>3. CASE KindOf(s) = "local"
  <2>1. LocalReap(s) /\ Stopped(s)
    BY <1>3 DEF Removed
  <2>2. PICK t \in KillOutcomes(s) \cup {term[s]} : term' = [term EXCEPT ![s] = t]
    BY <2>1 DEF Stopped
  <2>3. t \in Terms /\ Quieter(t, term[s])
    BY <1>1, VerbsQuiet DEF Quieter
  <2>5. slips' \in Nat /\ Dangles(s) /\ \A u \in Session \ {s} : NoneNew(u)
    BY <1>1, <2>1, Removals DEF LocalReap
  <2>6. place' = place \/ place' = [place EXCEPT ![s] = NoPlace]
    BY <2>1 DEF LocalReap
  <2> QED BY <2>1, <2>2, <2>3, <2>5, <2>6, Hushes DEF Stopped
<1> QED BY <1>1, <1>2, <1>3 DEF WorkerType, Request, KindOf

(***************************************************************************)
(* A reap at work.                                                         *)
(***************************************************************************)
\* What is being reaped has been launched.
ReapInv ==
  /\ reaping \in [Session -> {"no", "read", "removed"}]
  /\ \A s \in Session : reaping[s] # "no" => Launched(s)

LEMMA ReapNext ==
  ASSUME BackendsInv, ReapInv, [Next]_vars
  PROVE  ReapInv'
<1>1. CASE UNCHANGED <<reaping, stage, handle>>
  BY <1>1 DEF ReapInv, Launched
<1>2. ASSUME NEW s \in Session, Provision(s) PROVE ReapInv'
  <2>1. StepOf(s) /\ reaping' = reaping
    BY <1>2, Provisions DEF Provision, reapVars
  <2>2. stage[s] # "launched"
    BY <1>2 DEF Provision, ExeStart, ExeCopy, ExeTag, ExeAwait, ExeBrief, ExeSetup, ExeShip, ModalStart, ModalCreate,
       ModalBrief, ModalSetup, LocalStart, LocalDir, LocalTree, LocalSetup, LocalOpen, AgentStart, ExeSpawn,
       ModalSpawn, LocalSpawn, At
  <2>3. \A u \in Session \ {s} : stage'[u] = stage[u] /\ handle'[u] = handle[u]
    BY <2>1 DEF StepOf, Same
  <2> QED BY <2>1, <2>2, <2>3 DEF ReapInv, Launched
<1>3. ASSUME NEW s \in Session, Assess(s) \/ Remove(s) \/ RemoveFails(s) \/ Archive(s) PROVE ReapInv'
  <2>1. UNCHANGED <<stage, handle>>
    BY <1>3 DEF Assess, Remove, RemoveFails, Archive, workerVars
  <2>2. PICK x \in {"no", "read", "removed"} : /\ reaping' = [reaping EXCEPT ![s] = x]
                                               /\ x # "no" => Launched(s)
    BY <1>3 DEF Assess, Remove, RemoveFails, Archive, ReapInv
  <2>3. \A u \in Session : Launched(u)' = Launched(u)
    BY <2>1 DEF Launched
  <2>4. /\ reaping' \in [Session -> {"no", "read", "removed"}]
        /\ \A u \in Session \ {s} : reaping'[u] = reaping[u]
        /\ reaping'[s] = x
    BY <2>2 DEF ReapInv
  <2>5. ASSUME NEW u \in Session, reaping'[u] # "no" PROVE Launched(u)
    <3>1. CASE u = s
      BY <2>2, <2>4, <2>5, <3>1
    <3>2. CASE u # s
      BY <2>4, <2>5, <3>2 DEF ReapInv
    <3> QED BY <3>1, <3>2
  <2> QED BY <2>3, <2>4, <2>5 DEF ReapInv
<1>4. CASE Restart
  BY <1>4 DEF Restart, ReapInv
<1>5. ASSUME NEW s \in Session, Adopt(s) PROVE ReapInv'
  BY <1>5 DEF Adopt, Unlocked, ReapInv, reapVars
<1>6. ASSUME NEW s \in Session,
             \/ Dispatch(s) \/ ArchiveUnprovisioned(s) \/ Cancel(s) \/ AgentEnds(s) \/ Lose(s) \/ TearDown(s)
             \/ Vanish(s) \/ Attach(s) \/ Detach(s) \/ Work(s)
      PROVE  ReapInv'
  BY <1>1, <1>6 DEF Dispatch, ArchiveUnprovisioned, Cancel, AgentEnds, Lose, TearDown, Vanish, Attach, Detach, Work,
     workerVars, reapVars
<1>7. CASE UNCHANGED vars
  BY <1>1, <1>7 DEF vars, workerVars, reapVars
<1> QED BY <1>2, <1>3, <1>4, <1>5, <1>6, <1>7 DEF Next, Reap

(***************************************************************************)
(* The steps put together, with what each does to the phases: one session  *)
(* moves as the contract allows, or handles are forgotten.                 *)
(***************************************************************************)
PhasesMove ==
  \/ \E s \in Session : /\ \A u \in Session \ {s} : PhaseOf(u)' = PhaseOf(u)
                        /\ Allowed(s, PhaseOf(s), PhaseOf(s)')
  \/ \A u \in Session : PhaseOf(u)' \in {PhaseOf(u), "none"}

LEMMA StepKeeps ==
  ASSUME BackendsInv, NEW s \in Session, StepOf(s)
  PROVE  BackendsInv' /\ PhasesMove
<1>1. \A u \in Session \ {s} : Sound(u)' /\ PhaseOf(u)' = PhaseOf(u)
  BY SameSound DEF BackendsInv, StepOf
<1> QED BY <1>1 DEF BackendsInv, StepOf, PhasesMove

\* On exe.dev the VM goes by its name, and whoever shares it loses theirs, which
\* is nobody unless names were cut off.
LEMMA ExeReaps ==
  ASSUME BackendsInv, NEW s \in Session, ExeReap(s), KindOf(s) = "exe_dev", Asked(s), handle[s].known,
         UNCHANGED <<stage, handle, flag, req, vanished, dangling, slips>>
  PROVE  BackendsInv' /\ (LongNames = {} => PhasesMove)
<1> DEFINE named == {u \in Session : SameVm(s, u) /\ place[u].up}
<1>1. /\ place' = [u \in Session |-> IF u \in named THEN NoPlace ELSE place[u]]
      /\ term'  = [u \in Session |-> IF u \in named THEN "none" ELSE term[u]]
      /\ owner' = [u \in Session |-> IF u \in named THEN "none" ELSE owner[u]]
  BY DEF ExeReap
<1>2. \A u \in named : KindOf(u) = "exe_dev" /\ u \in Session
  BY DEF SameVm
<1>3. LongNames = {} => \A u \in named : u = s
  BY DEF SameVm, WorkerName
<1>4. WorkerType /\ (\A u \in Session : Sound(u)) /\ NoPlace \in Places /\ ~NoPlace.up
  BY DEF BackendsInv, Places, NoPlace
<1> HIDE DEF named
<1>5. WorkerType'
  BY <1>1, <1>4 DEF WorkerType, Terms
<1>6. ASSUME NEW u \in Session
      PROVE  /\ stage'[u] = stage[u] /\ handle'[u] = handle[u] /\ KindOf(u)' = KindOf(u)
             /\ \/ u \notin named /\ place'[u] = place[u] /\ term'[u] = term[u] /\ owner'[u] = owner[u]
                \/ u \in named /\ place'[u] = NoPlace /\ term'[u] = "none" /\ KindOf(u) = "exe_dev"
  BY <1>1, <1>2, <1>4 DEF WorkerType, KindOf
<1>7. ASSUME NEW u \in Session PROVE Sound(u)'
  <2>1. NotYet(u)' /\ Prepared(u)' /\ AgentPrepared(u)' /\ HandleTrue(u)'
    BY <1>4, <1>6 DEF Sound, NotYet, Prepared, AgentPrepared, HandleTrue
  <2>2. Deregistered(u)'
    BY <1>4, <1>6 DEF Sound, Deregistered
  <2> QED BY <2>1, <2>2 DEF Sound
<1>8. ASSUME LongNames = {} PROVE PhasesMove
  <2>1. \A u \in Session \ {s} : PhaseOf(u)' = PhaseOf(u)
    BY <1>3, <1>6, <1>8 DEF PhaseOf
  <2>2. Allowed(s, PhaseOf(s), PhaseOf(s)')
    BY <1>4, <1>6 DEF PhaseOf, Allowed
  <2> QED BY <2>1, <2>2 DEF PhasesMove
<1> QED BY <1>5, <1>7, <1>8 DEF BackendsInv

\* Whoever destroys a place, Remove, RemoveFails or TearDown, was asked to.
LEMMA Removes ==
  ASSUME BackendsInv, NEW s \in Session, Removed(s), Asked(s), handle[s].known,
         UNCHANGED <<stage, handle, flag, req, vanished>>
  PROVE  BackendsInv' /\ (LongNames = {} => PhasesMove)
<1>1. CASE KindOf(s) = "exe_dev"
  BY <1>1, ExeReaps DEF Removed, gitVars
<1>2. CASE KindOf(s) # "exe_dev"
  BY <1>2, SoloReaps, StepKeeps
<1> QED BY <1>1, <1>2

LEMMA Restarts ==
  ASSUME BackendsInv, Restart
  PROVE  BackendsInv' /\ PhasesMove
<1>1. WorkerType /\ (\A u \in Session : Sound(u)) /\ NoHandle \in Handles /\ ~NoHandle.known /\ ~NoHandle.repo
  BY DEF BackendsInv, Handles, NoHandle
<1>2. UNCHANGED <<place, term, owner, req, dangling, slips, vanished>> /\ flag' \in Flags
  BY DEF Restart, gitVars
<1>3. /\ stage' \in [Session -> Stages] /\ handle' \in [Session -> Handles]
      /\ \A u \in Session : /\ stage'[u] = stage[u] \/ (stage'[u] = "errored" /\ handle'[u] = NoHandle)
                            /\ handle'[u] \in {handle[u], NoHandle}
  BY <1>1 DEF Restart, WorkerType, Stages
<1>4. WorkerType'
  BY <1>1, <1>2, <1>3, WorkersAssumption DEF WorkerType
<1>5. ASSUME NEW u \in Session PROVE Sound(u)' /\ PhaseOf(u)' \in {PhaseOf(u), "none"}
  <2>1. NotYet(u)' /\ Prepared(u)' /\ AgentPrepared(u)'
    BY <1>1, <1>2, <1>3 DEF Sound, NotYet, Prepared, AgentPrepared, KindOf
  <2>2. HandleTrue(u)' /\ Deregistered(u)'
    BY <1>1, <1>2, <1>3 DEF Sound, HandleTrue, Deregistered, KindOf
  <2>3. PhaseOf(u)' \in {PhaseOf(u), "none"}
    BY <1>1, <1>2, <1>3 DEF PhaseOf
  <2> QED BY <2>1, <2>2, <2>3 DEF Sound
<1> QED BY <1>4, <1>5 DEF BackendsInv, PhasesMove

LEMMA BackendsNext ==
  ASSUME BackendsInv, ReapInv, [Next]_vars
  PROVE  BackendsInv' /\ (LongNames = {} => PhasesMove)
<1>1. ASSUME UNCHANGED <<req, flag, stage, place, term, owner, handle, vanished, dangling>>,
             slips' \in Nat, slips' = 0 => slips = 0
      PROVE  BackendsInv' /\ PhasesMove
  <2>1. \A u \in Session : Same(u)
    BY <1>1 DEF Same, NoneNew
  <2>2. \A u \in Session : Sound(u)' /\ PhaseOf(u)' = PhaseOf(u)
    BY <1>1, <2>1, SameSound DEF BackendsInv
  <2>3. WorkerType'
    BY <1>1 DEF BackendsInv, WorkerType
  <2> QED BY <2>2, <2>3 DEF BackendsInv, PhasesMove
<1>2. slips \in Nat
  BY DEF BackendsInv, WorkerType
<1>3. ASSUME NEW s \in Session,
             \/ Dispatch(s) \/ Archive(s) \/ ArchiveUnprovisioned(s) \/ Lose(s) \/ Attach(s) \/ Detach(s) \/ Work(s)
      PROVE  BackendsInv' /\ PhasesMove
  BY <1>1, <1>2, <1>3 DEF Dispatch, Archive, ArchiveUnprovisioned, Lose, Attach, Detach, Work, Edit, Commit, Push,
     workerVars, gitVars
<1>4. ASSUME NEW s \in Session, Provision(s) PROVE BackendsInv' /\ PhasesMove
  BY <1>4, Provisions, StepKeeps
<1>5. ASSUME NEW s \in Session, NEW t \in Terms, Quieter(t, term[s]), term' = [term EXCEPT ![s] = t],
             UNCHANGED <<stage, place, owner, handle, flag, req, dangling, slips, vanished>>
      PROVE  BackendsInv' /\ PhasesMove
  <2>1. slips' \in Nat /\ Dangles(s) /\ \A u \in Session \ {s} : NoneNew(u)
    BY <1>2, <1>5 DEF Dangles, NoneNew
  <2>2. StepOf(s)
    BY <1>5, <2>1, Hushes
  <2> QED BY <2>2, StepKeeps
<1>6. ASSUME NEW s \in Session, Cancel(s) \/ AgentEnds(s) PROVE BackendsInv' /\ PhasesMove
  <2>1. UNCHANGED <<stage, place, owner, handle, flag, req, dangling, slips, vanished>>
    BY <1>6 DEF Cancel, AgentEnds, gitVars
  <2>2. PICK t : term' = [term EXCEPT ![s] = t] /\ t \in Terms /\ Quieter(t, term[s])
    <3>1. CASE Cancel(s)
      BY <3>1, VerbsQuiet DEF Cancel
    <3>2. CASE AgentEnds(s)
      <4>1. PICK t \in {"shell", "dead", "stale"} : term' = [term EXCEPT ![s] = t]
        BY <3>2 DEF AgentEnds
      <4>2. t \in Terms /\ Quieter(t, term[s])
        BY <3>2 DEF AgentEnds, Terms, Quieter, Alive
      <4> QED BY <4>1, <4>2
    <3> QED BY <1>6, <3>1, <3>2
  <2> QED BY <1>5, <2>1, <2>2
<1>7. ASSUME NEW s \in Session, Assess(s) PROVE BackendsInv' /\ PhasesMove
  <2>1. UNCHANGED <<req, flag, stage, place, term, owner, handle, vanished, dangling>>
        /\ (slips' = slips \/ slips' = slips + 1)
    BY <1>7 DEF Assess, ReadSignal, workerVars
  <2> QED BY <1>1, <1>2, <2>1
<1>8. ASSUME NEW s \in Session, Remove(s) \/ TearDown(s) \/ RemoveFails(s)
      PROVE  BackendsInv' /\ (LongNames = {} => PhasesMove)
  <2>1. Asked(s) /\ UNCHANGED <<stage, handle, flag, req, vanished>>
    BY <1>8 DEF Remove, TearDown, RemoveFails, Asked
  <2>2. CASE Removed(s)
    <3>1. handle[s].known
      BY <1>8 DEF Remove, TearDown, RemoveFails, ReapInv, Launched
    <3> QED BY <2>1, <2>2, <3>1, Removes
  <2>3. CASE Stopped(s) /\ UNCHANGED <<place, gitVars>>
    <3>1. PICK t \in KillOutcomes(s) \cup {term[s]} : term' = [term EXCEPT ![s] = t]
      BY <2>3 DEF Stopped
    <3>2. t \in Terms /\ Quieter(t, term[s])
      BY VerbsQuiet DEF Quieter, BackendsInv, WorkerType
    <3> QED BY <1>5, <2>1, <2>3, <3>1, <3>2 DEF Stopped, gitVars
  <2> QED BY <1>8, <2>2, <2>3 DEF Remove, TearDown, RemoveFails
<1>9. ASSUME NEW s \in Session, Adopt(s) \/ Vanish(s) PROVE BackendsInv' /\ PhasesMove
  BY <1>9, Adoptions, Vanishes, StepKeeps
<1>10. CASE UNCHANGED vars
  BY <1>1, <1>2, <1>10 DEF vars, workerVars, gitVars
<1> QED BY <1>3, <1>4, <1>6, <1>7, <1>8, <1>9, <1>10, Restarts DEF Next, Reap

(***************************************************************************)
(* The theorems.                                                           *)
(***************************************************************************)
LEMMA BackendsAlways == Spec => [](BackendsInv /\ ReapInv)
<1>1. Init => ReapInv
  BY DEF Init, ReapInv
<1>2. BackendsInv /\ ReapInv /\ [Next]_vars => BackendsInv' /\ ReapInv'
  BY BackendsNext, ReapNext
<1> QED BY <1>1, <1>2, SoundInit, PTL DEF Spec

\* Whatever stages fail, and however often the process restarts with another
\* launcher, no agent is started on exe.dev or locally in a place that lacks its
\* brief, its clone and setup, or the holder's binary.
THEOREM AgentsStartPrepared == Spec => []AgentOnPreparedPlace
<1>1. BackendsInv => AgentOnPreparedPlace
  BY DEF BackendsInv, Sound, AgentPrepared, AgentOnPreparedPlace
<1> QED BY <1>1, BackendsAlways, PTL

\* A local session's handle reaches its living terminal, and so does whoever
\* attaches the way its row says, whichever launcher the process now selects.
THEOREM LocalStaysReachable == Spec => []LocalAlwaysReachable
<1>1. BackendsInv => LocalAlwaysReachable
  BY DEF BackendsInv, Sound, HandleTrue, LocalAlwaysReachable, LocalReaches, AttachTransport, Launched, Launcher
<1> QED BY <1>1, BackendsAlways, PTL

\* As long as neither git nor rm fails, no reap with a handle that names the
\* repository leaves a worktree registered without its directory.
THEOREM NoWorktreeDangles == Spec => []NoDanglingWorktree
<1>1. BackendsInv => NoDanglingWorktree
  BY DEF BackendsInv, Sound, Deregistered, NoDanglingWorktree
<1> QED BY <1>1, BackendsAlways, PTL

\* Where no two VMs get one name, the three backends implement what EnvProvider
\* and Compute promise, with verbs that fail, reaps that fail halfway, places that
\* vanish and restarts in between.
THEOREM BackendsKeepContract ==
  ASSUME LongNames = {}
  PROVE  Spec => KeepsContract
<1> DEFINE phase == [s \in Session |-> PhaseOf(s)]
<1>1. Init => Contract!Init
  BY DEF Init, WorkersInit, Contract!Init, PhaseOf, NoHandle
<1>2. BackendsInv /\ ReapInv /\ [Next]_vars => [Contract!Next]_phase
  <2> SUFFICES ASSUME BackendsInv, ReapInv, [Next]_vars PROVE Contract!Next \/ phase' = phase
    OBVIOUS
  <2>1. PhasesMove
    BY BackendsNext
  <2>2. \A s \in Session : PhaseOf(s) \in Contract!Phase /\ PhaseOf(s)' \in Contract!Phase
    BY DEF PhaseOf, Contract!Phase
  <2>3. CASE \A u \in Session : PhaseOf(u)' \in {PhaseOf(u), "none"}
    <3> DEFINE S == {u \in Session : PhaseOf(u)' = "none"}
    <3>1. phase' = [u \in Session |-> IF u \in S THEN "none" ELSE phase[u]]
      BY <2>3
    <3>2. S \in SUBSET Session
      OBVIOUS
    <3> HIDE DEF S
    <3> QED BY <3>1, <3>2 DEF Contract!Next, Contract!Forget
  <2>4. ASSUME NEW s \in Session, \A u \in Session \ {s} : PhaseOf(u)' = PhaseOf(u),
               Allowed(s, PhaseOf(s), PhaseOf(s)')
        PROVE  Contract!Next \/ phase' = phase
    <3>1. phase' = [phase EXCEPT ![s] = PhaseOf(s)'] /\ phase[s] = PhaseOf(s)
      BY <2>4
    <3>2. CASE PhaseOf(s)' = PhaseOf(s)
      BY <2>4, <3>2
    <3>3. CASE PhaseOf(s)' = "none"
      <4>1. phase' = [u \in Session |-> IF u \in {s} THEN "none" ELSE phase[u]]
        BY <2>4, <3>3
      <4> QED BY <4>1 DEF Contract!Next, Contract!Forget
    <3>4. CASE PhaseOf(s) = "none" /\ PhaseOf(s)' # "none"
      BY <2>2, <3>1, <3>4 DEF Contract!Next, Contract!Adopt, Contract!Phase, Contract!Standing
    <3>5. CASE PhaseOf(s) # "none" /\ PhaseOf(s)' # "none" /\ PhaseOf(s)' # PhaseOf(s)
      BY <2>4, <3>1, <3>5 DEF Allowed, Contract!Next, Contract!Launch, Contract!Interrupt, Contract!Kill,
         Contract!Reap, Contract!Vanish, Contract!Moves, Contract!Standing, Asked
    <3> QED BY <3>2, <3>3, <3>4, <3>5
  <2> QED BY <2>1, <2>3, <2>4 DEF PhasesMove
<1> QED BY <1>1, <1>2, BackendsAlways, PTL DEF Spec, KeepsContract, Contract!Spec

(***************************************************************************)
(* The repository.  What git step a session may still make depends on how  *)
(* far its START is: a branch or a clone of its name exists only from the  *)
(* worktree stage on, so that no START meets its own branch, except a      *)
(* named one by -B.                                                        *)
(***************************************************************************)
Begun(s) == stage[s] \notin {"none", "dir"}

GitSound(s) ==
  /\ s \in DOMAIN tree \cup clone => KindOf(s) = "local" /\ Begun(s)
  /\ s \in DOMAIN tree => tree[s] \in Ref \cup {s}
  /\ s \in DOMAIN heads \cup DOMAIN remote => Begun(s)

GitInv ==
  /\ verdict \in [Session -> {"none", "shipped", "empty"}]
  /\ \A s \in Session : GitSound(s)

StagesGrow == req' = req /\ \A s \in Session : Begun(s) => Begun(s)'

VerdictsKept == verdict' \in [Session -> {"none", "shipped", "empty"}]

\* Nothing is branched or cloned before the first START.
LEMMA GitStarts == Init => GitInv
<1> SUFFICES ASSUME Init PROVE GitInv
  OBVIOUS
<1>1. DOMAIN tree = {} /\ clone = {} /\ verdict \in [Session -> {"none", "shipped", "empty"}]
  BY DEF Init, GitInit
<1>2. DOMAIN heads \cap Session = {} /\ DOMAIN remote \cap Session = {}
  BY WorktreesAssumption DEF Init, GitInit
<1> QED BY <1>1, <1>2 DEF GitInv, GitSound

\* A step that leaves the repository alone.
LEMMA GitStill ==
  ASSUME GitInv, StagesGrow, VerdictsKept, UNCHANGED <<tree, clone, heads, remote>>
  PROVE  GitInv'
BY DEF GitInv, GitSound, StagesGrow, VerdictsKept, KindOf

\* A stage of START, or the launch, touches the repository at the worktree stage only.
LEMMA StagesOfGit ==
  ASSUME BackendsInv, NEW s \in Session, Provision(s)
  PROVE  /\ StagesGrow
         /\ \/ UNCHANGED gitVars
            \/ /\ At(s, "local", "dir") /\ stage'[s] = "tree"
               /\ \/ req[s].isolation = "worktree" /\ AddWorktree(s, req[s].ref, req[s].fetch)
                  \/ AddClone(s)
<1>1. stage \in [Session -> Stages]
  BY DEF BackendsInv, WorkerType
<1>2. CASE ExeStart(s)
  <2>1. /\ UNCHANGED <<req, gitVars>>
        /\ \E x : stage' = [stage EXCEPT ![s] = x] /\ x \notin {"none", "dir"}
    BY <1>2 DEF ExeStart, ExeCopy, ExeTag, ExeAwait, ExeBrief, ExeSetup, ExeShip, Put, To, Errored,
       Started, settled, gitVars
  <2> QED BY <1>1, <2>1 DEF StagesGrow, Begun, gitVars
<1>3. CASE ModalStart(s)
  <2>1. /\ UNCHANGED <<req, gitVars>>
        /\ \E x : stage' = [stage EXCEPT ![s] = x] /\ x \notin {"none", "dir"}
    <3>1. CASE ModalCreate(s)
      <4>1. /\ UNCHANGED <<req, gitVars>>
            /\ To(s, "created") \/ Errored(s)
        BY <3>1 DEF ModalCreate, Driver, settled, gitVars
      <4> QED BY <4>1 DEF To, Errored
    <3>2. CASE ModalBrief(s)
      BY <3>2 DEF ModalBrief, Driver, To, Errored, settled, gitVars
    <3>3. CASE ModalSetup(s)
      BY <3>3 DEF ModalSetup, Driver, Errored, Started, settled, gitVars
    <3> QED BY <1>3, <3>1, <3>2, <3>3 DEF ModalStart
  <2> QED BY <1>1, <2>1 DEF StagesGrow, Begun, gitVars
<1>4. CASE AgentStart(s)
  <2>1. /\ UNCHANGED <<req, gitVars>>
        /\ \E x : stage' = [stage EXCEPT ![s] = x] /\ x \notin {"none", "dir"}
    BY <1>4 DEF AgentStart, ExeSpawn, ModalSpawn, LocalSpawn, To, Errored, settled, gitVars
  <2> QED BY <1>1, <2>1 DEF StagesGrow, Begun, gitVars
<1>5. CASE LocalDir(s)
  <2>1. /\ UNCHANGED <<req, gitVars>> /\ stage[s] = "none"
        /\ \E x : stage' = [stage EXCEPT ![s] = x]
    BY <1>5 DEF LocalDir, At, To, Errored, settled, gitVars
  <2> QED BY <1>1, <2>1 DEF StagesGrow, Begun, gitVars
<1>6. CASE LocalSetup(s) \/ LocalOpen(s)
  <2>1. /\ UNCHANGED <<req, gitVars>>
        /\ \E x : stage' = [stage EXCEPT ![s] = x] /\ x \notin {"none", "dir"}
    BY <1>6 DEF LocalSetup, LocalOpen, To, Errored, Started, settled, gitVars
  <2> QED BY <1>1, <2>1 DEF StagesGrow, Begun, gitVars
<1>7. CASE LocalTree(s)
  <2>1. req' = req /\ At(s, "local", "dir")
    BY <1>7 DEF LocalTree, settled
  <2>2. \/ /\ To(s, "tree")
           /\ \/ UNCHANGED gitVars
              \/ req[s].isolation = "worktree" /\ AddWorktree(s, req[s].ref, req[s].fetch)
              \/ AddClone(s)
        \/ Errored(s) /\ UNCHANGED gitVars
    BY <1>7 DEF LocalTree
  <2>3. \E x \in {"tree", "errored"} : stage' = [stage EXCEPT ![s] = x]
    BY <2>2 DEF To, Errored
  <2>4. StagesGrow
    BY <1>1, <2>1, <2>3 DEF StagesGrow, Begun
  <2>5. To(s, "tree") => stage'[s] = "tree"
    BY <1>1 DEF To
  <2> QED BY <2>1, <2>2, <2>4, <2>5
<1> QED BY <1>2, <1>3, <1>4, <1>5, <1>6, <1>7 DEF Provision, LocalStart

\* git worktree add keeps GitInv; what it drops, it drops by -B.
LEMMA GitTrees ==
  ASSUME GitInv, StagesGrow, VerdictsKept, NEW s \in Session,
         At(s, "local", "dir"), stage'[s] = "tree", req[s].ref \in Ref \cup {NoRef},
         AddWorktree(s, req[s].ref, req[s].fetch)
  PROVE  /\ GitInv'
         /\ \A c \in Reachable \ Reachable' : ~req[s].fetch /\ c \in heads[req[s].ref]
<1> DEFINE ref == req[s].ref
           branch == IF ref = NoRef THEN s ELSE ref
<1>1. /\ clone' = clone /\ remote' = remote
      /\ tree' = With(tree, s, branch) /\ branch \in Ref \cup {s}
      /\ \/ branch = ref /\ req[s].fetch /\ heads' = With(heads, branch, FetchedCommits(ref))
         \/ branch = s /\ s \notin DOMAIN heads /\ heads' = With(heads, branch, {})
         \/ branch = ref /\ ~req[s].fetch /\ heads' = With(heads, branch, {})
  BY WorktreesAssumption DEF AddWorktree, AddFetched, AddLocal, Checkout
<1>2. /\ DOMAIN tree' = DOMAIN tree \cup {s} /\ DOMAIN heads' = DOMAIN heads \cup {branch}
      /\ tree'[s] = branch /\ \A u \in DOMAIN tree \ {s} : tree'[u] = tree[u]
  <2> HIDE DEF branch
  <2> QED BY <1>1 DEF With
<1>3. GitInv'
  <2> SUFFICES ASSUME NEW u \in Session PROVE GitSound(u)'
    BY DEF GitInv, VerdictsKept
  <2>1. GitSound(u) /\ (Begun(u) => Begun(u)') /\ KindOf(u)' = KindOf(u) /\ KindOf(s) = "local"
    BY DEF GitInv, StagesGrow, KindOf, At
  <2>2. Begun(s)'
    BY DEF Begun
  <2>3. u \in Ref \cup {s} => u = s
    BY WorktreesAssumption
  <2> HIDE DEF branch
  <2> QED BY <1>1, <1>2, <2>1, <2>2, <2>3 DEF GitSound
<1>4. ASSUME NEW c \in Reachable \ Reachable' PROVE ~req[s].fetch /\ c \in heads[ref]
  <2> HIDE DEF branch
  <2>1. PICK b : \/ b \in DOMAIN heads \ clone /\ c \in heads[b]
                 \/ b \in DOMAIN remote \ clone /\ c \in remote[b]
    <3>1. \/ c \in UNION {heads[x] : x \in DOMAIN heads \ clone}
          \/ c \in UNION {remote[x] : x \in DOMAIN remote \ clone}
      <4>1. c \in Reachable
        BY <1>4
      <4> QED BY <4>1 DEF Reachable
    <3>2. \/ \E x \in DOMAIN heads \ clone : c \in heads[x]
          \/ \E x \in DOMAIN remote \ clone : c \in remote[x]
      BY <3>1, Zenon
    <3> QED BY <3>2, Zenon
  <2>2. ~(b \in DOMAIN remote \ clone /\ c \in remote[b])
    <3>1. c \notin UNION {remote'[x] : x \in DOMAIN remote' \ clone'}
      <4>1. c \notin Reachable'
        BY <1>4
      <4> QED BY <4>1 DEF Reachable
    <3> QED BY <1>1, <3>1, Zenon
  <2>3. b \in DOMAIN heads \ clone /\ c \in heads[b]
    BY <2>1, <2>2
  <2>4. b \in DOMAIN heads' \ clone' /\ c \notin heads'[b]
    BY <1>1, <1>2, <1>4, <2>3 DEF Reachable
  <2>5. b = branch
    BY <1>1, <2>3, <2>4 DEF With
  <2>6. CASE branch = ref /\ req[s].fetch /\ heads' = With(heads, branch, FetchedCommits(ref))
    <3>1. FetchedCommits(ref) = heads[b]
      BY <2>3, <2>5, <2>6 DEF FetchedCommits
    <3> QED BY <2>3, <2>4, <2>5, <2>6, <3>1 DEF With
  <2> QED BY <1>1, <2>3, <2>5, <2>6
<1> QED BY <1>3, <1>4

\* A clone takes a name no ref has yet, so it hides none.
LEMMA GitClones ==
  ASSUME GitInv, StagesGrow, VerdictsKept, NEW s \in Session,
         At(s, "local", "dir"), stage'[s] = "tree", AddClone(s)
  PROVE  GitInv' /\ Reachable \subseteq Reachable'
<1>1. /\ tree' = tree /\ clone' = clone \cup {s}
      /\ heads' = With(heads, s, {}) /\ remote' = With(remote, s, {})
  BY DEF AddClone
<1>2. s \notin DOMAIN heads \cup DOMAIN remote
  BY DEF GitInv, GitSound, Begun, At
<1>3. /\ DOMAIN heads' = DOMAIN heads \cup {s} /\ DOMAIN remote' = DOMAIN remote \cup {s}
      /\ \A b \in DOMAIN heads : heads'[b] = heads[b]
      /\ \A b \in DOMAIN remote : remote'[b] = remote[b]
  BY <1>1, <1>2 DEF With
<1>4. GitInv'
  <2> SUFFICES ASSUME NEW u \in Session PROVE GitSound(u)'
    BY DEF GitInv, VerdictsKept
  <2>1. GitSound(u) /\ (Begun(u) => Begun(u)') /\ KindOf(u)' = KindOf(u) /\ KindOf(s) = "local"
    BY DEF GitInv, StagesGrow, KindOf, At
  <2>2. Begun(s)'
    BY DEF Begun
  <2> QED BY <1>1, <1>3, <2>1, <2>2 DEF GitSound
<1>5. Reachable \subseteq Reachable'
  BY <1>1, <1>2, <1>3 DEF Reachable
<1> QED BY <1>4, <1>5

\* An agent's work only adds.
LEMMA GitWorks ==
  ASSUME GitInv, StagesGrow, VerdictsKept, NEW s \in Session, Edit(s) \/ Commit(s) \/ Push(s)
  PROVE  GitInv' /\ Reachable \subseteq Reachable'
<1> DEFINE here == CheckedOut(s)
<1>1. CASE Edit(s)
  BY <1>1, GitStill DEF Edit, Reachable
<1>2. CASE Commit(s)
  <2>1. UNCHANGED <<tree, clone, remote>> /\ heads' = [heads EXCEPT ![here] = @ \cup {s}]
    BY <1>2 DEF Commit
  <2> HIDE DEF here
  <2>2. DOMAIN heads' = DOMAIN heads /\ \A b \in DOMAIN heads : heads[b] \subseteq heads'[b]
    BY <2>1
  <2>3. GitInv'
    BY <2>1, <2>2 DEF GitInv, GitSound, StagesGrow, VerdictsKept, KindOf
  <2>4. Reachable \subseteq Reachable'
    BY <2>1, <2>2 DEF Reachable
  <2> QED BY <2>3, <2>4
<1>3. CASE Push(s)
  <2>1. /\ UNCHANGED <<tree, clone, heads>> /\ remote' = With(remote, here, heads[here]) /\ HasGit(s)
        /\ here \in DOMAIN remote => remote[here] \subseteq heads[here]
    BY <1>3 DEF Push
  <2>2. here \in Session => here = s /\ Begun(s)
    BY <2>1, WorktreesAssumption DEF GitInv, GitSound, HasGit, CheckedOut
  <2> HIDE DEF here
  <2>3. DOMAIN remote' = DOMAIN remote \cup {here} /\ \A b \in DOMAIN remote : remote[b] \subseteq remote'[b]
    BY <2>1 DEF With
  <2>4. GitInv'
    <3> SUFFICES ASSUME NEW u \in Session PROVE GitSound(u)'
      BY DEF GitInv, VerdictsKept
    <3>1. GitSound(u) /\ (Begun(u) => Begun(u)') /\ KindOf(u)' = KindOf(u)
      BY DEF GitInv, StagesGrow, KindOf
    <3> QED BY <2>1, <2>2, <2>3, <3>1 DEF GitSound
  <2>5. Reachable \subseteq Reachable'
    BY <2>1, <2>3 DEF Reachable
  <2> QED BY <2>4, <2>5
<1> QED BY <1>1, <1>2, <1>3

\* A work dir that goes takes a clone's refs, which nobody counted on, and leaves
\* a worktree's branch.
LEMMA GitRemoves ==
  ASSUME GitInv, StagesGrow, VerdictsKept, NEW s \in Session, NEW registered, NEW emptied, NEW fails,
         RemoveWorkDir(s, registered, emptied, fails)
  PROVE  GitInv' /\ Reachable \subseteq Reachable'
<1>1. /\ clone' \subseteq clone /\ clone \ clone' \subseteq {s}
      /\ DOMAIN tree' \subseteq DOMAIN tree /\ \A u \in DOMAIN tree' : tree'[u] = tree[u]
  BY DEF RemoveWorkDir
<1>2. /\ DOMAIN heads' \subseteq DOMAIN heads /\ \A b \in DOMAIN heads' : heads'[b] = heads[b]
      /\ DOMAIN remote' \subseteq DOMAIN remote /\ \A b \in DOMAIN remote' : remote'[b] = remote[b]
      /\ DOMAIN heads \ clone \subseteq DOMAIN heads' \ clone'
      /\ DOMAIN remote \ clone \subseteq DOMAIN remote' \ clone'
  BY DEF RemoveWorkDir, Drop
<1>3. GitInv'
  <2> SUFFICES ASSUME NEW u \in Session PROVE GitSound(u)'
    BY DEF GitInv, VerdictsKept
  <2>1. GitSound(u) /\ (Begun(u) => Begun(u)') /\ KindOf(u)' = KindOf(u)
    BY DEF GitInv, StagesGrow, KindOf
  <2> QED BY <1>1, <1>2, <2>1 DEF GitSound
<1>4. Reachable \subseteq Reachable'
  BY <1>2 DEF Reachable
<1> QED BY <1>3, <1>4

\* A commit is dropped by a START with -B, and by nothing else.
OnlyResetDrops ==
  \A c \in Reachable \ Reachable' :
    \E s \in Session : /\ stage[s] = "dir" /\ stage'[s] = "tree"
                       /\ req[s].isolation = "worktree" /\ ~req[s].fetch /\ c \in heads[req[s].ref]

\* Each action keeps GitInv and drops no commit but by -B.
LEMMA GitNext == BackendsInv /\ GitInv /\ [Next]_vars => GitInv' /\ OnlyResetDrops
<1> SUFFICES ASSUME BackendsInv, GitInv, [Next]_vars PROVE GitInv' /\ OnlyResetDrops
  OBVIOUS
<1>1. verdict' = verdict => VerdictsKept
  BY DEF GitInv, VerdictsKept
<1>2. stage \in [Session -> Stages]
  BY DEF BackendsInv, WorkerType
<1>3. ASSUME StagesGrow, VerdictsKept, UNCHANGED <<tree, clone, heads, remote>>
      PROVE  GitInv' /\ OnlyResetDrops
  BY <1>3, GitStill DEF OnlyResetDrops, Reachable
<1>4. CASE UNCHANGED vars
  BY <1>1, <1>3, <1>4 DEF vars, workerVars, gitVars, reapVars, StagesGrow, Begun
<1>5. ASSUME NEW s \in Session, Provision(s) PROVE GitInv' /\ OnlyResetDrops
  <2>1. StagesGrow /\ VerdictsKept
    BY <1>1, <1>5, StagesOfGit DEF Provision, reapVars
  <2>2. CASE UNCHANGED gitVars
    BY <1>3, <2>1, <2>2 DEF gitVars
  <2>3. CASE /\ At(s, "local", "dir") /\ stage'[s] = "tree"
             /\ req[s].isolation = "worktree" /\ AddWorktree(s, req[s].ref, req[s].fetch)
    <3>1. req[s].ref \in Ref \cup {NoRef}
      BY DEF BackendsInv, WorkerType, Request
    <3> QED BY <2>1, <2>3, <3>1, GitTrees DEF OnlyResetDrops, At
  <2>4. CASE At(s, "local", "dir") /\ stage'[s] = "tree" /\ AddClone(s)
    BY <2>1, <2>4, GitClones DEF OnlyResetDrops
  <2> QED BY <1>5, <2>2, <2>3, <2>4, StagesOfGit
<1>6. ASSUME NEW s \in Session, Remove(s) \/ RemoveFails(s) \/ TearDown(s) PROVE GitInv' /\ OnlyResetDrops
  <2>1. StagesGrow /\ VerdictsKept
    BY <1>6 DEF Remove, RemoveFails, TearDown, StagesGrow, Begun, GitInv, VerdictsKept, reapVars
  <2>2. CASE UNCHANGED gitVars
    BY <1>3, <2>1, <2>2 DEF gitVars
  <2>3. CASE LocalReap(s)
    <3>1. PICK registered, emptied, fails : RemoveWorkDir(s, registered, emptied, fails)
      BY <2>3 DEF LocalReap
    <3> QED BY <2>1, <3>1, GitRemoves DEF OnlyResetDrops
  <2> QED BY <1>6, <2>2, <2>3 DEF Remove, RemoveFails, TearDown, Removed
<1>7. ASSUME NEW s \in Session, Work(s) PROVE GitInv' /\ OnlyResetDrops
  <2>1. StagesGrow /\ VerdictsKept
    BY <1>1, <1>7 DEF Work, workerVars, reapVars, StagesGrow, Begun
  <2> QED BY <1>7, <2>1, GitWorks DEF Work, OnlyResetDrops
<1>8. ASSUME NEW s \in Session,
             \/ Dispatch(s) \/ Cancel(s) \/ AgentEnds(s) \/ Archive(s) \/ ArchiveUnprovisioned(s) \/ Lose(s)
             \/ Vanish(s) \/ Attach(s) \/ Detach(s) \/ Assess(s)
      PROVE  GitInv' /\ OnlyResetDrops
  <2>1. UNCHANGED <<stage, req, tree, clone, heads, remote>>
    BY <1>8 DEF Dispatch, Cancel, AgentEnds, Archive, ArchiveUnprovisioned, Lose, Vanish, Attach, Detach, Assess,
       workerVars, gitVars
  <2>2. VerdictsKept
    <3>1. CASE Assess(s)
      BY <3>1 DEF Assess, GitInv, VerdictsKept
    <3>2. CASE ~Assess(s)
      BY <1>1, <1>8, <3>2 DEF Dispatch, Cancel, AgentEnds, Archive, ArchiveUnprovisioned, Lose, Vanish, Attach, Detach,
         reapVars
    <3> QED BY <3>1, <3>2
  <2> QED BY <1>3, <2>1, <2>2 DEF StagesGrow, Begun
<1>9. ASSUME NEW s \in Session, Adopt(s) PROVE GitInv' /\ OnlyResetDrops
  <2>1. /\ UNCHANGED <<req, verdict, tree, clone, heads, remote>>
        /\ stage' = [stage EXCEPT ![s] = "launched"]
    BY <1>9 DEF Adopt, gitVars, reapVars
  <2> QED BY <1>1, <1>2, <1>3, <2>1 DEF StagesGrow, Begun
<1>10. CASE Restart
  <2>1. /\ UNCHANGED <<req, tree, clone, heads, remote>> /\ VerdictsKept
        /\ \A s \in Session : stage'[s] \in {stage[s], "errored"}
    BY <1>10 DEF Restart, gitVars, GitInv, VerdictsKept
  <2> QED BY <1>2, <1>3, <2>1 DEF StagesGrow, Begun
<1> QED BY <1>4, <1>5, <1>6, <1>7, <1>8, <1>9, <1>10 DEF Next, Reap

\* What an agent committed in a worktree outlives every reap, failure and restart;
\* only a START that resets its branch (worktree add -B) drops it.
THEOREM CommitsStay == Spec => CommitsSurvive
<1>1. BackendsInv /\ GitInv /\ [Next]_vars => [OnlyResetDrops]_vars
  BY GitNext
<1>2. BackendsInv /\ GitInv /\ [Next]_vars => GitInv'
  BY GitNext
<1> QED BY <1>1, <1>2, GitStarts, BackendsAlways, PTL DEF Spec, CommitsSurvive, OnlyResetDrops

\* What UnsharedWorkCredited asks of one step.
Credited ==
  \A s \in Session :
       reaping[s] = "no" /\ reaping'[s] = "read" /\ slips' = slips /\ Unshared(s) => verdict'[s] = "shipped"

\* A commit on one ref only leaves git branch --contains no other ref to list.
LEMMA SoleCopyIsSeen ==
  ASSUME NEW s \in Session, Unshared(s)
  PROVE  DeliverySignal(s) = "shipped"
<1>1. CASE s \in dirty
  BY <1>1 DEF Unshared, DeliverySignal
<1>2. CASE s \notin dirty
  <2> DEFINE here == CheckedOut(s)
  <2>1. s \in heads[here]
    BY <1>2 DEF Unshared
  <2>2. \A b \in DOMAIN heads : b # here => ~(heads[here] \subseteq heads[b])
    BY <1>2, <2>1 DEF Unshared
  <2>3. \A b \in DOMAIN remote : ~(heads[here] \subseteq remote[b])
    BY <1>2, <2>1 DEF Unshared
  <2>4. OtherRefs(s) = {}
    BY <2>2, <2>3 DEF OtherRefs
  <2> QED BY <2>4 DEF Unshared, DeliverySignal
<1> QED BY <1>1, <1>2

\* Only Assess begins a reap, and it asks delivery_signal.
LEMMA ReapCredits == BackendsInv /\ ReapInv /\ GitInv /\ [Next]_vars => [Credited]_vars
<1> SUFFICES ASSUME BackendsInv, ReapInv, GitInv, [Next]_vars PROVE Credited \/ UNCHANGED vars
  OBVIOUS
<1>1. ASSUME NEW s \in Session, reaping[s] = "no", reaping'[s] = "read", ~UNCHANGED vars
      PROVE  Assess(s)
  <2>1. reaping \in [Session -> {"no", "read", "removed"}]
    BY DEF ReapInv
  <2>2. ASSUME NEW u \in Session, Assess(u) PROVE Assess(s)
    BY <1>1, <2>1, <2>2 DEF Assess
  <2>3. ASSUME NEW u \in Session, Remove(u) \/ RemoveFails(u) \/ Archive(u) PROVE FALSE
    BY <1>1, <2>1, <2>3 DEF Remove, RemoveFails, Archive
  <2>4. ASSUME NEW u \in Session,
               \/ Dispatch(u) \/ Provision(u) \/ Cancel(u) \/ AgentEnds(u) \/ ArchiveUnprovisioned(u) \/ Adopt(u)
               \/ Lose(u) \/ TearDown(u) \/ Vanish(u) \/ Attach(u) \/ Detach(u) \/ Work(u)
        PROVE  FALSE
    BY <1>1, <2>4 DEF Dispatch, Provision, Cancel, AgentEnds, ArchiveUnprovisioned, Adopt, Lose, TearDown, Vanish,
       Attach, Detach, Work, reapVars
  <2>5. CASE Restart
    BY <1>1, <2>5 DEF Restart
  <2> QED BY <1>1, <2>2, <2>3, <2>4, <2>5 DEF Next, Reap
<1>2. ASSUME NEW s \in Session, Assess(s), slips' = slips, Unshared(s)
      PROVE  verdict'[s] = "shipped"
  <2>1. KindOf(s) = "local"
    BY <1>2 DEF Unshared, GitInv, GitSound, HasGit
  <2>2. PICK v \in {"none", "shipped", "empty"} : verdict' = [verdict EXCEPT ![s] = v] /\ ReadSignal(s, v)
    BY <1>2, <2>1 DEF Assess
  <2>3. slips \in Nat
    BY DEF BackendsInv, WorkerType
  <2>4. v = "shipped"
    BY <1>2, <2>2, <2>3, SoleCopyIsSeen DEF ReadSignal
  <2> QED BY <2>2, <2>4 DEF GitInv
<1> QED BY <1>1, <1>2 DEF Credited

\* Whatever the other sessions did to the shared repository, a reap that git does
\* not fail credits work that exists nowhere but in the work dir at that moment
\* (delivery_signal).
THEOREM SoleCopiesAreCredited == Spec => UnsharedWorkCredited
<1>1. BackendsInv /\ GitInv /\ [Next]_vars => GitInv'
  BY GitNext
<1> QED BY <1>1, ReapCredits, GitStarts, BackendsAlways, PTL DEF Spec, UnsharedWorkCredited, Credited
=============================================================================
