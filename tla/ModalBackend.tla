------------------------------ MODULE ModalBackend ------------------------------
(***************************************************************************)
(* The modal backend: every verb is one run of the Python driver, which    *)
(* answers ok or an error.  START creates a sandbox, then executes two     *)
(* commands in it whose exit codes nobody looks at.                        *)
(***************************************************************************)
EXTENDS Workers

\* _build_image: the dispatch's setup is a step of the image.
BuildsImage(s) == Outcomes("setup")

\* sandbox_create: a sandbox on that image, tagged at best effort.
SandboxCreate(s) ==
  /\ TRUE \in BuildsImage(s)
  /\ \E tagged \in Outcomes("tag") : place' = [place EXCEPT ![s] = [NewPlace EXCEPT !.tagged = tagged]]

\* exec: the answer is ok, and the command's exit code is part of it.
Exec(s, left, fault) == \E done \in Outcomes(fault) : place' = [place EXCEPT ![s][left] = done]

\* main: an exception of the SDK is an error answer, wherever the verb was:
\* tunnels() may fail for a sandbox that exists, and its id is lost.
Raised(s, verb) == MayFail("command") /\ (verb \/ UNCHANGED place)

\* One run of the driver: the answer is ok, or an error, or cannot be read.
Driver(s, verb, next) == (verb /\ next) \/ (Raised(s, verb) /\ Errored(s))

ModalCreate(s) ==
  /\ At(s, "modal", "none")
  /\ \/ Driver(s, SandboxCreate(s), To(s, "created"))
     \/ FALSE \in BuildsImage(s) /\ UNCHANGED place /\ Errored(s)
  /\ UNCHANGED <<term, owner, settled, gitVars>>

\* The command that takes the brief may fail: START does not look at exit codes.
ModalBrief(s) ==
  /\ At(s, "modal", "created")
  /\ Driver(s, Exec(s, "brief", "command"), To(s, "briefed"))
  /\ UNCHANGED <<term, owner, settled, gitVars>>

\* ... and so may the clone and the setup script.
ModalSetup(s) ==
  /\ At(s, "modal", "briefed")
  /\ Driver(s, Exec(s, "ready", "setup"), Started(s, Handle("none", FALSE)))
  /\ UNCHANGED <<term, owner, settled, gitVars>>

\* container_bootstrap: the run script in a fresh tmux session.
ContainerBootstrap(s) == Terminal(s, "agent", "tmux")

\* ModalCompute::spawn, by an exec that does check the exit code.
ModalSpawn(s) ==
  /\ At(s, "modal", "started")
  /\ \/ ContainerBootstrap(s) /\ To(s, "launched")
     \/ MayFail("command") /\ UNCHANGED <<term, owner>> /\ Errored(s)
  /\ UNCHANGED <<place, settled, gitVars>>

\* tmux_exec: a sandbox or a session that is not there is an error.
TmuxExec(s) == place[s].up /\ term[s] \in Alive

ModalInterrupt(s) == {t \in Interrupted(s) : TmuxExec(s)}
ModalKill(s)      == {t \in {"dead"} : TmuxExec(s)}

\* Terminated, with what runs in it.
ModalReap(s) ==
  /\ place' = [place EXCEPT ![s] = NoPlace]
  /\ Terminal(s, "none", "none")
  /\ human' = human \ {s}

\* sandbox_list: the sandboxes with the worker tag, each with the session it is
\* tagged with, if its tags can be read.
SandboxList == {s \in Session : KindOf(s) = "modal" /\ place[s].up /\ place[s].tagged}

\* Those that name a session.
ModalSurveys == {SandboxList \ unread : unread \in SUBSET {s \in SandboxList : MayFail("tag")}}

ModalStart(s) == ModalCreate(s) \/ ModalBrief(s) \/ ModalSetup(s)
=============================================================================
