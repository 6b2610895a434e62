---------------------------- MODULE EngineProofs ----------------------------
(***************************************************************************)
(* Theorems about Engine, for every set of sessions and callers, every set *)
(* of faults and every bound on crashes and failed writes.                 *)
(***************************************************************************)
EXTENDS Engine, TLAPS

USE DEF ProvisionPc, ProcState

\* The states a row is moved to.
LEMMA StatesMembers ==
  /\ {"queued", "provisioning", "running", "failed", "cancelled", "lost", "completed"}
       \subseteq States
  /\ LiveStates \subseteq States
  /\ TERMINAL \subseteq States
  BY DEF States, LiveStates, TERMINAL

\* Moving one row keeps the board well typed.
LEMMA RowUpdate ==
  ASSUME NEW f \in [Session -> RowType], NEW s \in Session,
         NEW x \in States \cup {"none"}, NEW b \in BOOLEAN
  PROVE  /\ [f EXCEPT ![s].state = x] \in [Session -> RowType]
         /\ [f EXCEPT ![s].state = x, ![s].handle = b] \in [Session -> RowType]
         /\ [f EXCEPT ![s].state = x, ![s].reaped = b] \in [Session -> RowType]
  BY DEF RowType

(***************************************************************************)
(* Typing of the parts that several actions share.                         *)
(***************************************************************************)
\* The mirror stores rows of the board, whole or in part.
LEMMA MirrorType ==
  ASSUME TypeOK, NEW S \in SUBSET Session, row' \in [Session -> RowType], Mirror(S)
  PROVE  /\ saved' \in [Session -> RowType]
         /\ sinkFails' \in 0 .. MaxSinkFails
  BY EngineAssumption DEF TypeOK, Mirror, MirrorOk, MirrorErr, Stored

\* backend.reap leaves well-typed environments and processes.
LEMMA DestroyType ==
  ASSUME NEW D, NEW p \in [Session -> ProcState], env \in [Session -> BOOLEAN],
         Destroy(D, p)
  PROVE  env' \in [Session -> BOOLEAN] /\ proc' \in [Session -> ProcState]
  BY DEF Destroy

\* Stopping an agent leaves its process in one of the known states.
LEMMA StopType ==
  ASSUME TypeOK, NEW s \in Session, NEW p \in StopOutcomes(s)
  PROVE  p \in ProcState
  BY DEF TypeOK, StopOutcomes

\* So does what reap does before the teardown.
LEMMA ReapStopType ==
  ASSUME TypeOK, NEW s \in Session, NEW p \in ReapStop(s)
  PROVE  p \in [Session -> ProcState]
  BY StopType DEF ReapStop, TypeOK

LEMMA CutShortType ==
  ASSUME TypeOK, NEW s \in Session, CutShort(s)
  PROVE  env' \in [Session -> BOOLEAN] /\ proc' \in [Session -> ProcState]
<1>1. PICK p \in ReapStop(s) : (proc' = p /\ UNCHANGED env) \/ Destroy({s}, p)
  BY DEF CutShort
<1>2. p \in [Session -> ProcState]
  BY ReapStopType
<1>3. env \in [Session -> BOOLEAN]
  BY DEF TypeOK
<1> QED BY <1>1, <1>2, <1>3, DestroyType

\* It removes environments and creates none.
LEMMA CutShortRemoves ==
  ASSUME TypeOK, NEW s \in Session, CutShort(s), NEW t \in Session
  PROVE  env'[t] => env[t]
  BY DEF CutShort, Destroy

LEMMA ArchiveType ==
  ASSUME TypeOK, NEW s \in Session, Archive(s)
  PROVE  /\ row' \in [Session -> RowType]
         /\ saved' \in [Session -> RowType]
         /\ sinkFails' \in 0 .. MaxSinkFails
         /\ obs' \in [Session -> {"none", "exact", "scraped"}]
<1>1. row' \in [Session -> RowType]
  <2>1. (IF Live(s) THEN "cancelled" ELSE row[s].state) \in States \cup {"none"}
    BY StatesMembers DEF TypeOK, RowType
  <2> QED BY <2>1, RowUpdate DEF TypeOK, Archive
<1>2. Mirror({s}) /\ obs' \in [Session -> {"none", "exact", "scraped"}]
  BY DEF TypeOK, Archive, Mirror
<1> QED BY <1>1, <1>2, MirrorType

LEMMA TierType == \A s : TierOf(s) \in {"exact", "scraped"}
  BY DEF TierOf

(***************************************************************************)
(* TypeOK is inductive.                                                    *)
(***************************************************************************)
LEMMA TypeInit == Init => TypeOK
  BY EngineAssumption DEF Init, TypeOK, RowType, NoRow, NotSurveying

LEMMA TypeProvision ==
  ASSUME TypeOK, NEW s \in Session, Provision(s) PROVE TypeOK'
<1>1. CASE ProvBegin(s)
  <2>1. CASE row[s].state = "queued"
    <3>1. row' = [row EXCEPT ![s].state = "provisioning"]
      BY <1>1, <2>1 DEF ProvBegin
    <3>2. row' \in [Session -> RowType]
      BY <3>1, RowUpdate, StatesMembers DEF TypeOK
    <3> QED BY <1>1, <2>1, <3>2, MirrorType DEF ProvBegin, TypeOK, workerVars, watchVars
  <2>2. CASE row[s].state # "queued"
    BY <1>1, <2>2 DEF ProvBegin, TypeOK, workerVars, watchVars, ledgerVars
  <2> QED BY <2>1, <2>2
<1>2. CASE ProvCreate(s)
  BY <1>2 DEF ProvCreate, TypeOK, ledgerVars, watchVars
<1>3. CASE ProvLaunch(s)
  BY <1>3 DEF ProvLaunch, TypeOK, ledgerVars, watchVars
<1>4. CASE ProvRun(s)
  <2>1. row' \in [Session -> RowType]
    BY <1>4, RowUpdate, StatesMembers DEF ProvRun, TypeOK
  <2> QED BY <1>4, <2>1, MirrorType DEF ProvRun, TypeOK, workerVars, watchVars
<1>5. CASE ProvAbandon(s)
  BY <1>5, DestroyType DEF ProvAbandon, TypeOK, workerVars, ledgerVars, watchVars
<1>6. CASE ProvFail(s)
  <2>1. row' = [row EXCEPT ![s].state = "failed"] \/ row' = row
    BY <1>6 DEF ProvFail, ledgerVars
  <2>2. row' \in [Session -> RowType]
    <3>1. CASE row' = row
      BY <3>1 DEF TypeOK
    <3>2. CASE row' = [row EXCEPT ![s].state = "failed"]
      BY <3>2, RowUpdate, StatesMembers DEF TypeOK
    <3> QED BY <2>1, <3>1, <3>2
  <2> QED BY <1>6, <2>2, MirrorType DEF ProvFail, TypeOK, workerVars, watchVars, ledgerVars
<1>7. CASE ProvWatch(s)
  BY <1>7, TierType DEF ProvWatch, TypeOK, workerVars, ledgerVars
<1> QED BY <1>1, <1>2, <1>3, <1>4, <1>5, <1>6, <1>7 DEF Provision

LEMMA TypeOperation ==
  ASSUME TypeOK, NEW s \in Session, Dispatch(s) \/ Cancel(s) \/ Reap(s)
  PROVE  TypeOK'
<1>1. CASE Dispatch(s)
  <2>1. row' \in [Session -> RowType]
    BY <1>1, RowUpdate, StatesMembers DEF Dispatch, TypeOK
  <2>2. Mirror({s}) /\ prov' \in [Session -> ProvisionPc]
    BY <1>1 DEF Dispatch, Mirror, TypeOK
  <2> QED BY <1>1, <2>1, <2>2, MirrorType DEF Dispatch, TypeOK, workerVars, watchVars
<1>2. CASE Cancel(s)
  <2>1. row' \in [Session -> RowType]
    BY <1>2, RowUpdate, StatesMembers DEF Cancel, TypeOK
  <2>2. Mirror({s}) /\ obs' \in [Session -> {"none", "exact", "scraped"}]
    BY <1>2 DEF Cancel, Mirror, TypeOK
  <2>3. proc' \in [Session -> ProcState]
    BY <1>2, StopType DEF Cancel, TypeOK
  <2> QED BY <1>2, <2>1, <2>2, <2>3, MirrorType DEF Cancel, TypeOK
<1>3. CASE Reap(s)
  <2>1. CASE row[s].handle /\ \E p \in ReapStop(s) : Destroy({s}, p) /\ Archive(s)
    BY <1>3, <2>1, ReapStopType, DestroyType, ArchiveType DEF Reap, TypeOK
  <2>2. CASE UNCHANGED workerVars /\ Archive(s)
    BY <1>3, <2>2, ArchiveType DEF Reap, TypeOK, workerVars
  <2>3. CASE CutShort(s) /\ UNCHANGED <<ledgerVars, obs>>
    BY <1>3, <2>3, CutShortType DEF Reap, TypeOK, ledgerVars
  <2> QED BY <1>3, <2>1, <2>2, <2>3 DEF Reap
<1> QED BY <1>1, <1>2, <1>3

LEMMA TypeWatch ==
  ASSUME TypeOK, NEW s \in Session, Poll(s) \/ Fold(s) \/ AgentEnds(s)
  PROVE  TypeOK'
<1>1. CASE ExactPoll(s)
  BY <1>1 DEF ExactPoll, StateOfExit, TypeOK, ledgerVars, workerVars
<1>2. CASE ScrapedPoll(s)
  BY <1>2 DEF ScrapedPoll, TypeOK, ledgerVars, workerVars
<1>3. CASE Fold(s)
  <2>1. row' = [row EXCEPT ![s].state = exitItem[s]] \/ row' = row
    BY <1>3 DEF Fold, ledgerVars
  <2>2. row' \in [Session -> RowType]
    <3>1. CASE row' = row
      BY <3>1 DEF TypeOK
    <3>2. exitItem[s] \in States \cup {"none"}
      BY StatesMembers DEF TypeOK
    <3>3. CASE row' = [row EXCEPT ![s].state = exitItem[s]]
      BY <3>2, <3>3, RowUpdate DEF TypeOK
    <3> QED BY <2>1, <3>1, <3>3
  <2> QED BY <1>3, <2>2, MirrorType DEF Fold, TypeOK, ledgerVars, workerVars
<1>4. CASE AgentEnds(s)
  BY <1>4 DEF AgentEnds, TypeOK, ledgerVars, watchVars
<1> QED BY <1>1, <1>2, <1>3, <1>4 DEF Poll

LEMMA TypeReconcile ==
  ASSUME TypeOK, NEW r \in Reconciler, Survey(r) \/ Reconcile(r)
  PROVE  TypeOK'
<1>1. CASE Survey(r)
  BY <1>1 DEF Survey, TypeOK, ledgerVars, workerVars, watchVars
<1>2. CASE Reconcile(r)
  <2>1. row' \in [Session -> RowType]
    <3> DEFINE seen == survey[r].seen
               lost == LostBy(seen)
               adopted == AdoptedBy(seen)
    <3>1. row' = [s \in Session |->
                   IF s \in lost THEN [row[s] EXCEPT !.state = "lost"]
                   ELSE IF s \in adopted
                   THEN [state |-> "running", handle |-> TRUE, reaped |-> FALSE]
                   ELSE row[s]]
      BY <1>2 DEF Reconcile
    <3>2. \A s \in Session : [row[s] EXCEPT !.state = "lost"] \in RowType
      BY StatesMembers DEF TypeOK, RowType
    <3>3. [state |-> "running", handle |-> TRUE, reaped |-> FALSE] \in RowType
      BY StatesMembers DEF RowType
    <3> HIDE DEF lost, adopted
    <3> QED BY <3>1, <3>2, <3>3 DEF TypeOK
  <2>2. saved' \in [Session -> RowType] /\ sinkFails' \in 0 .. MaxSinkFails
    BY <1>2, <2>1, MirrorType DEF Reconcile, TypeOK, LostBy, AdoptedBy
  <2>3. env' \in [Session -> BOOLEAN] /\ proc' \in [Session -> ProcState]
    BY <1>2, DestroyType DEF Reconcile, TypeOK
  <2>4. obs' \in [Session -> {"none", "exact", "scraped"}]
    BY <1>2, TierType DEF Reconcile, TypeOK
  <2>5. survey' \in [Reconciler -> [busy : BOOLEAN, seen : SUBSET Session]]
    BY <1>2 DEF Reconcile, TypeOK, NotSurveying
  <2> QED BY <1>2, <2>1, <2>2, <2>3, <2>4, <2>5 DEF Reconcile, TypeOK
<1> QED BY <1>1, <1>2

LEMMA TypeCrash == ASSUME TypeOK, CrashRestart PROVE TypeOK'
<1>1. env' \in [Session -> BOOLEAN] /\ proc' \in [Session -> ProcState]
  BY CutShortType DEF CrashRestart, HalfDone, TypeOK, workerVars
<1>2. obs' \in [Session -> {"none", "exact", "scraped"}]
  BY DEF CrashRestart, TierOf
<1>3. crashes' \in 0 .. MaxCrash
  BY EngineAssumption DEF CrashRestart, TypeOK
<1> QED BY <1>1, <1>2, <1>3 DEF CrashRestart, TypeOK, NotSurveying

LEMMA TypeNext == TypeOK /\ [Next]_vars => TypeOK'
<1> SUFFICES ASSUME TypeOK, [Next]_vars PROVE TypeOK'
  OBVIOUS
<1>1. CASE UNCHANGED vars
  BY <1>1 DEF TypeOK, vars
<1>2. CASE Next
  BY <1>2, TypeProvision, TypeOperation, TypeWatch, TypeReconcile, TypeCrash DEF Next
<1> QED BY <1>1, <1>2

\* Every variable keeps its type.
THEOREM TypeCorrect == Spec => []TypeOK
  BY TypeInit, TypeNext, PTL DEF Spec

(***************************************************************************)
(* An archived session with a known worker has no VM.                      *)
(*                                                                         *)
(* ReapedEnvDestroyed is not inductive: a provision thread could create an *)
(* VM for such a row, and a crash could restore a row that breaks          *)
(* it.  The strengthening says that a thread that may still create one     *)
(* works for a row without a handle, that the mirror never knows a handle  *)
(* the board does not, and that the mirror's rows are as good as the       *)
(* board's.                                                                *)
(***************************************************************************)
InFlight == {"spawned", "starting", "created", "up", "errored"}

Safe(s) ==
  /\ s \in Exe /\ row[s].reaped /\ row[s].handle => ~env[s]
  /\ s \in Exe /\ saved[s].reaped /\ saved[s].handle => ~env[s]
  /\ saved[s].handle => row[s].handle
  /\ row[s].reaped => row[s].state \in TERMINAL
  /\ saved[s].reaped => saved[s].state \in TERMINAL
  /\ row[s].state = "none" => ~row[s].handle /\ ~row[s].reaped
  /\ saved[s].state = "none" => ~saved[s].handle /\ ~saved[s].reaped
  /\ prov[s] \in InFlight => row[s].state # "none" /\ ~row[s].handle

SafeInv == \A s \in Session : Safe(s)

\* After a mirror a stored row is the old one or the board's.
LEMMA MirrorRows ==
  ASSUME TypeOK, NEW S \in SUBSET Session, Mirror(S), NEW s \in Session
  PROVE  saved'[s] = saved[s] \/ saved'[s] = row'[s]
  BY DEF Mirror, MirrorOk, MirrorErr, Stored, TypeOK

\* A session a step does not move stays safe while environments only go away.
LEMMA SafeFrame ==
  ASSUME NEW s \in Session, Safe(s),
         row'[s] = row[s],
         saved'[s] = saved[s] \/ saved'[s] = row'[s],
         prov'[s] = prov[s] \/ prov'[s] \notin InFlight,
         env'[s] => env[s]
  PROVE  Safe(s)'
  BY DEF Safe

LEMMA SafeInit == Init => SafeInv
  BY DEF Init, SafeInv, Safe, NoRow, InFlight

LEMMA SafeProvision ==
  ASSUME TypeOK, SafeInv, NEW s \in Session, Provision(s) PROVE SafeInv'
<1> SUFFICES ASSUME NEW t \in Session PROVE Safe(t)'
  BY DEF SafeInv
<1>0. Safe(t)
  BY DEF SafeInv
<1>1. CASE ProvBegin(s)
  <2>1. CASE row[s].state = "queued"
    <3>1. saved'[t] = saved[t] \/ saved'[t] = row'[t]
      BY <1>1, <2>1, MirrorRows DEF ProvBegin
    <3> QED BY <1>0, <1>1, <2>1, <3>1, SMTT(30)
            DEF ProvBegin, TypeOK, RowType, Safe, InFlight, TERMINAL, workerVars
  <2>2. CASE row[s].state # "queued"
    BY <1>0, <1>1, <2>2 DEF ProvBegin, TypeOK, Safe, InFlight, workerVars, ledgerVars
  <2> QED BY <2>1, <2>2
<1>2. CASE ProvCreate(s)
  BY <1>0, <1>2 DEF ProvCreate, TypeOK, Safe, InFlight, ledgerVars
<1>3. CASE ProvLaunch(s)
  BY <1>0, <1>3 DEF ProvLaunch, TypeOK, Safe, InFlight, ledgerVars
<1>4. CASE ProvRun(s)
  <2>1. saved'[t] = saved[t] \/ saved'[t] = row'[t]
    BY <1>4, MirrorRows DEF ProvRun
  <2> QED BY <1>0, <1>4, <2>1, SMTT(30) DEF ProvRun, TypeOK, RowType, Safe, InFlight, TERMINAL, workerVars
<1>5. CASE ProvAbandon(s)
  BY <1>0, <1>5 DEF ProvAbandon, Destroy, TypeOK, Safe, InFlight, workerVars, ledgerVars
<1>6. CASE ProvFail(s)
  <2>1. saved'[t] = saved[t] \/ saved'[t] = row'[t]
    BY <1>6, MirrorRows DEF ProvFail, ledgerVars
  <2>2. row' = [row EXCEPT ![s].state = "failed"] \/ row' = row
    BY <1>6 DEF ProvFail, ledgerVars
  <2>3. env' = env /\ prov' = [prov EXCEPT ![s] = "none"]
    BY <1>6 DEF ProvFail, workerVars
  <2>4. prov'[t] = prov[t] \/ prov'[t] \notin InFlight
    BY <2>3 DEF TypeOK, InFlight
  <2>5. CASE row'[t] = row[t]
    BY <1>0, <2>1, <2>3, <2>4, <2>5, SafeFrame
  <2>6. CASE t = s /\ row'[t] = [row[t] EXCEPT !.state = "failed"]
    BY <1>0, <2>1, <2>3, <2>6, SMTT(30) DEF TypeOK, RowType, Safe, InFlight, TERMINAL
  <2> QED BY <2>2, <2>5, <2>6 DEF TypeOK
<1>7. CASE ProvWatch(s)
  BY <1>0, <1>7 DEF ProvWatch, TypeOK, Safe, InFlight, workerVars, ledgerVars
<1> QED BY <1>1, <1>2, <1>3, <1>4, <1>5, <1>6, <1>7 DEF Provision

LEMMA SafeOperation ==
  ASSUME TypeOK, SafeInv, NEW s \in Session, Dispatch(s) \/ Cancel(s) \/ Reap(s)
  PROVE  SafeInv'
<1> SUFFICES ASSUME NEW t \in Session PROVE Safe(t)'
  BY DEF SafeInv
<1>0. Safe(t)
  BY DEF SafeInv
<1>1. CASE Dispatch(s)
  <2>1. Mirror({s}) /\ env' = env
    BY <1>1 DEF Dispatch, Mirror, workerVars
  <2>2. saved'[t] = saved[t] \/ saved'[t] = row'[t]
    BY <2>1, MirrorRows
  <2>3. CASE t = s
    <3>1. row[t] = NoRow /\ row'[t] = [NoRow EXCEPT !.state = "queued"]
      BY <1>1, <2>3 DEF Dispatch, TypeOK
    <3> QED BY <1>0, <2>1, <2>2, <3>1 DEF Safe, NoRow
  <2>4. CASE t # s
    <3>1. row'[t] = row[t] /\ prov'[t] = prov[t]
      BY <1>1, <2>4 DEF Dispatch, TypeOK
    <3> QED BY <1>0, <2>1, <2>2, <3>1, SafeFrame
  <2> QED BY <2>3, <2>4
<1>2. CASE Cancel(s)
  <2>1. Mirror({s})
    BY <1>2 DEF Cancel, Mirror
  <2>2. saved'[t] = saved[t] \/ saved'[t] = row'[t]
    BY <2>1, MirrorRows
  <2> QED BY <1>0, <1>2, <2>2, SMTT(30) DEF Cancel, TypeOK, RowType, Safe, InFlight, TERMINAL
<1>3. CASE Reap(s)
  <2>3. CASE CutShort(s) /\ UNCHANGED <<ledgerVars, obs>>
    BY <1>0, <1>3, <2>3, CutShortRemoves, SafeFrame DEF Reap, ledgerVars
  <2>2. CASE /\ Archive(s)
             /\ \/ ~row[s].handle /\ UNCHANGED workerVars
                \/ \E p \in ReapStop(s) : Destroy({s}, p)
    <3>1. Mirror({s}) /\ prov' = prov
      BY <1>3, <2>2 DEF Archive, Mirror, Reap
    <3>2. saved'[t] = saved[t] \/ saved'[t] = row'[t]
      BY <3>1, MirrorRows
    <3>3. /\ env'[t] => env[t]
          /\ s \in Exe /\ row[s].handle => ~env'[s]
      <4>1. CASE ~row[s].handle /\ UNCHANGED workerVars
        BY <4>1 DEF workerVars
      <4>2. CASE \E p \in ReapStop(s) : Destroy({s}, p)
        BY <4>2 DEF Destroy, TypeOK
      <4> QED BY <2>2, <4>1, <4>2
    <3>4. CASE t # s
      <4>1. row'[t] = row[t]
        BY <2>2, <3>4 DEF Archive, TypeOK
      <4> QED BY <1>0, <3>1, <3>2, <3>3, <4>1, SafeFrame
    <3>5. CASE t = s
      <4>1. /\ row'[s].handle = row[s].handle
            /\ row'[s].reaped
            /\ row'[s].state \in TERMINAL \/ row'[s].state = row[s].state
            /\ Live(s) => row'[s].state = "cancelled"
            /\ ~Live(s) => row'[s].state = row[s].state
        BY <2>2 DEF Archive, TypeOK, RowType, TERMINAL
      <4>2. row[s].state # "none"
        <5>1. row[s] = [state |-> row[s].state, handle |-> row[s].handle,
                        reaped |-> row[s].reaped]
          BY DEF TypeOK, RowType
        <5>2. row[s] # NoRow
          BY <1>3 DEF Reap
        <5> QED BY <1>0, <3>5, <5>1, <5>2 DEF Safe, NoRow, TypeOK, RowType
      <4>3. row'[s].state \in TERMINAL
        BY <4>1, <4>2 DEF TypeOK, RowType, States, Live, TERMINAL
      <4> QED BY <1>0, <3>1, <3>2, <3>3, <3>5, <4>1, <4>3 DEF Safe, TERMINAL
    <3> QED BY <3>4, <3>5
  <2> QED BY <1>3, <2>2, <2>3 DEF Reap
<1> QED BY <1>1, <1>2, <1>3

LEMMA SafeWatch ==
  ASSUME TypeOK, SafeInv, NEW s \in Session, Poll(s) \/ Fold(s) \/ AgentEnds(s)
  PROVE  SafeInv'
<1> SUFFICES ASSUME NEW t \in Session PROVE Safe(t)'
  BY DEF SafeInv
<1>0. Safe(t)
  BY DEF SafeInv
<1>1. CASE Poll(s)
  BY <1>0, <1>1, SafeFrame DEF Poll, ExactPoll, ScrapedPoll, ledgerVars, workerVars
<1>2. CASE Fold(s)
  <2>1. saved'[t] = saved[t] \/ saved'[t] = row'[t]
    BY <1>2, MirrorRows DEF Fold, ledgerVars
  <2>2. \/ row' = [row EXCEPT ![s].state = exitItem[s]] /\ row[s].state # "none"
        \/ row' = row
    BY <1>2 DEF Fold, ledgerVars, LegalTransition, LiveStates
  <2>3. env' = env /\ prov' = prov /\ exitItem[s] \in {"completed", "failed"}
    BY <1>2 DEF Fold, workerVars, TypeOK
  <2>5. CASE row'[t] = row[t]
    BY <1>0, <2>1, <2>3, <2>5, SafeFrame
  <2>6. CASE t = s /\ row'[t] = [row[t] EXCEPT !.state = exitItem[s]] /\ row[t].state # "none"
    BY <1>0, <2>1, <2>3, <2>6, SMTT(30) DEF TypeOK, RowType, Safe, TERMINAL
  <2> QED BY <2>2, <2>5, <2>6 DEF TypeOK
<1>3. CASE AgentEnds(s)
  <2>1. env'[t] => env[t]
    BY <1>3 DEF AgentEnds, TypeOK
  <2> QED BY <1>0, <1>3, <2>1, SafeFrame DEF AgentEnds, ledgerVars
<1> QED BY <1>1, <1>2, <1>3

LEMMA SafeReconcile ==
  ASSUME TypeOK, SafeInv, NEW r \in Reconciler, Survey(r) \/ Reconcile(r)
  PROVE  SafeInv'
<1> SUFFICES ASSUME NEW t \in Session PROVE Safe(t)'
  BY DEF SafeInv
<1>0. Safe(t)
  BY DEF SafeInv
<1>1. CASE Survey(r)
  BY <1>0, <1>1, SafeFrame DEF Survey, ledgerVars, workerVars
<1>2. CASE Reconcile(r)
  <2> DEFINE seen == survey[r].seen
             changed == LostBy(seen) \cup AdoptedBy(seen)
  <2>0. seen \in SUBSET Session
    BY DEF TypeOK
  <2>1. saved'[t] = saved[t] \/ saved'[t] = row'[t]
    <3>1. changed \in SUBSET Session
      BY <2>0 DEF LostBy, AdoptedBy
    <3>2. UNCHANGED saved \/ Mirror(changed)
      BY <1>2 DEF Reconcile
    <3> QED BY <3>1, <3>2, MirrorRows
  <2>2. prov' = prov /\ (env'[t] => env[t])
    BY <1>2 DEF Reconcile, Destroy
  <2>3. CASE t \in LostBy(seen)
    <3>1. row'[t] = [row[t] EXCEPT !.state = "lost"]
      BY <1>2, <2>3 DEF Reconcile
    <3> QED BY <1>0, <2>1, <2>2, <2>3, <3>1 DEF Safe, LostBy, TypeOK, RowType, TERMINAL
  <2>4. CASE t \in AdoptedBy(seen) /\ t \notin LostBy(seen)
    <3>1. row'[t] = [state |-> "running", handle |-> TRUE, reaped |-> FALSE]
      BY <1>2, <2>4 DEF Reconcile
    <3>2. row[t] = NoRow
      BY <2>4 DEF AdoptedBy
    <3> QED BY <1>0, <2>1, <2>2, <3>1, <3>2 DEF Safe, NoRow
  <2>5. CASE t \notin AdoptedBy(seen) /\ t \notin LostBy(seen)
    <3>1. row'[t] = row[t]
      BY <1>2, <2>5 DEF Reconcile
    <3> QED BY <1>0, <2>1, <2>2, <3>1, SafeFrame
  <2> QED BY <2>3, <2>4, <2>5
<1> QED BY <1>1, <1>2

LEMMA SafeCrash == ASSUME TypeOK, SafeInv, CrashRestart PROVE SafeInv'
<1>1. ASSUME NEW t \in Session PROVE env'[t] => env[t]
  BY <1>1, CutShortRemoves DEF CrashRestart, HalfDone, workerVars
<1> QED BY <1>1 DEF CrashRestart, SafeInv, Safe, InFlight

LEMMA SafeNext == TypeOK /\ SafeInv /\ [Next]_vars => SafeInv'
<1> SUFFICES ASSUME TypeOK, SafeInv, [Next]_vars PROVE SafeInv'
  OBVIOUS
<1>1. CASE UNCHANGED vars
  BY <1>1 DEF SafeInv, Safe, vars
<1>2. CASE Next
  BY <1>2, SafeProvision, SafeOperation, SafeWatch, SafeReconcile, SafeCrash DEF Next
<1> QED BY <1>1, <1>2

\* Whatever fails, crashes or interleaves, a session archived with a known
\* worker has no VM left.  (Of a local work dir the code promises less: see
\* ReapedDirGone.)
THEOREM ReapedEnvIsDestroyed == Spec => []ReapedEnvDestroyed
<1>1. SafeInv => ReapedEnvDestroyed
  BY DEF SafeInv, Safe, ReapedEnvDestroyed
<1> QED BY <1>1, TypeInit, TypeNext, SafeInit, SafeNext, PTL DEF Spec

(***************************************************************************)
(* The mirror holds the board as long as it took every write.              *)
(***************************************************************************)
\* A mirror of every row that moved keeps the two equal.
LEMMA MirrorDurable ==
  ASSUME TypeOK, TypeOK', Durable, NEW S \in SUBSET Session, Mirror(S),
         \A t \in Session \ S : row'[t] = row[t]
  PROVE  Durable'
<1> SUFFICES ASSUME sinkFails' = 0 PROVE saved' = row'
  BY DEF Durable
<1>1. MirrorOk(S) /\ sinkFails = 0
  BY EngineAssumption DEF Mirror, MirrorOk, MirrorErr, TypeOK
<1>2. saved' = [t \in Session |-> IF t \in S THEN row'[t] ELSE row[t]]
  BY <1>1 DEF MirrorOk, Stored, Durable
<1> QED BY <1>2 DEF TypeOK

LEMMA DurableNext ==
  ASSUME TypeOK, TypeOK', Durable, [Next]_vars PROVE Durable'
<1>1. CASE UNCHANGED <<row, saved, sinkFails>>
  BY <1>1 DEF Durable
<1>2. ASSUME NEW s \in Session, Mirror({s}), \A t \in Session \ {s} : row'[t] = row[t]
      PROVE  Durable'
  BY <1>2, MirrorDurable
<1>3. ASSUME NEW s \in Session, Provision(s) PROVE Durable'
  <2>1. CASE ProvBegin(s)
    BY <1>1, <1>2, <2>1 DEF ProvBegin, TypeOK, ledgerVars
  <2>2. CASE ProvRun(s)
    BY <1>2, <2>2 DEF ProvRun, TypeOK
  <2>3. CASE ProvFail(s)
    BY <1>1, <1>2, <2>3 DEF ProvFail, TypeOK, ledgerVars
  <2>4. CASE ProvCreate(s) \/ ProvLaunch(s) \/ ProvAbandon(s) \/ ProvWatch(s)
    BY <1>1, <2>4 DEF ProvCreate, ProvLaunch, ProvAbandon, ProvWatch, ledgerVars
  <2> QED BY <1>3, <2>1, <2>2, <2>3, <2>4 DEF Provision
<1>4. ASSUME NEW s \in Session, Dispatch(s) PROVE Durable'
  BY <1>2, <1>4 DEF Dispatch, Mirror, TypeOK
<1>5. ASSUME NEW s \in Session, Cancel(s) PROVE Durable'
  BY <1>2, <1>5 DEF Cancel, Mirror, TypeOK
<1>6. ASSUME NEW s \in Session, Reap(s) PROVE Durable'
  <2>1. CASE UNCHANGED ledgerVars
    BY <1>1, <2>1 DEF ledgerVars
  <2>2. CASE Archive(s)
    BY <1>2, <2>2 DEF Archive, Mirror, TypeOK
  <2> QED BY <1>6, <2>1, <2>2 DEF Reap, ledgerVars
<1>7. ASSUME NEW s \in Session, Poll(s) \/ Fold(s) \/ AgentEnds(s) PROVE Durable'
  <2>1. CASE Poll(s) \/ AgentEnds(s)
    BY <1>1, <2>1 DEF Poll, ExactPoll, ScrapedPoll, AgentEnds, ledgerVars
  <2>2. CASE Fold(s)
    BY <1>1, <1>2, <2>2 DEF Fold, TypeOK, ledgerVars
  <2> QED BY <1>7, <2>1, <2>2
<1>8. ASSUME NEW r \in Reconciler, Survey(r) \/ Reconcile(r) PROVE Durable'
  <2>1. CASE Survey(r)
    BY <1>1, <2>1 DEF Survey, ledgerVars
  <2>2. CASE Reconcile(r)
    <3> DEFINE seen == survey[r].seen
               lost == LostBy(seen)
               adopted == AdoptedBy(seen)
               moved == lost \cup adopted
    <3>1. moved \in SUBSET Session
      BY DEF TypeOK, LostBy, AdoptedBy
    <3>2. row' = [s \in Session |->
                   IF s \in lost THEN [row[s] EXCEPT !.state = "lost"]
                   ELSE IF s \in adopted
                   THEN [state |-> "running", handle |-> TRUE, reaped |-> FALSE]
                   ELSE row[s]]
      BY <2>2 DEF Reconcile
    <3>3. \A t \in Session \ moved : row'[t] = row[t]
      BY <3>2
    <3>4. CASE moved = {}
      <4>1. UNCHANGED <<saved, sinkFails>>
        BY <2>2, <3>4 DEF Reconcile
      <4>2. row' = row
        BY <3>2, <3>4 DEF TypeOK
      <4> QED BY <1>1, <4>1, <4>2
    <3>5. CASE moved # {}
      BY <2>2, <3>1, <3>3, <3>5, MirrorDurable DEF Reconcile
    <3> QED BY <3>4, <3>5
  <2> QED BY <1>8, <2>1, <2>2
<1>9. CASE CrashRestart
  BY <1>9 DEF CrashRestart, Durable
<1>10. CASE UNCHANGED vars
  BY <1>1, <1>10 DEF vars
<1> QED BY <1>3, <1>4, <1>5, <1>6, <1>7, <1>8, <1>9, <1>10 DEF Next

\* A crash restores exactly the board that was served, unless some write to the
\* mirror failed before.
THEOREM BoardIsDurable == Spec => []Durable
<1>1. Init => Durable
  BY DEF Init, Durable
<1>2. TypeOK /\ TypeOK' /\ Durable /\ [Next]_vars => Durable'
  BY DurableNext
<1> QED BY <1>1, <1>2, TypeCorrect, PTL DEF Spec

(***************************************************************************)
(* The engine implements SessionLifecycle.                                 *)
(***************************************************************************)
LEMMA StepOfTransition ==
  ASSUME NEW old \in RowType, NEW new \in RowType,
         LegalTransition(old.state, new.state),
         new.handle = (old.handle \/ (old.state = "provisioning" /\ new.state = "running")),
         new.reaped = old.reaped
  PROVE  Lifecycle!RowStep(old, new)
  BY DEF Lifecycle!RowStep, Lifecycle!Advanced, Lifecycle!LegalTransition, LegalTransition,
         Lifecycle!LiveStates, LiveStates, Lifecycle!successors, successors

\* Every live session may be cancelled or marked lost.
LEMMA LiveEdges ==
  ASSUME NEW x \in LiveStates, NEW y \in {"cancelled", "lost"}
  PROVE  LegalTransition(x, y)
  BY DEF LegalTransition, LiveStates, successors

\* A step that moves one row by RowStep is a step of the lifecycle.
LEMMA LifecycleOfOne ==
  ASSUME TypeOK, TypeOK', NEW s \in Session,
         \A t \in Session \ {s} : row'[t] = row[t],
         Lifecycle!RowStep(row[s], row'[s])
  PROVE  Lifecycle!Next
<1>1. row' \in [Session -> Lifecycle!Row]
  BY DEF TypeOK, RowType, Lifecycle!Row, States, Lifecycle!States, LiveStates,
         Lifecycle!LiveStates, TERMINAL, Lifecycle!TERMINAL
<1>2. \A t \in Session : Lifecycle!RowStep(row[t], row'[t])
  BY DEF Lifecycle!RowStep
<1> QED BY <1>1, <1>2 DEF Lifecycle!Next

LEMMA LifecycleOfProvision ==
  ASSUME TypeOK, TypeOK', NEW s \in Session, Provision(s)
  PROVE  Lifecycle!Next \/ row' = row
<1>1. ASSUME NEW x \in States, row' = [row EXCEPT ![s].state = x],
             LegalTransition(row[s].state, x),
             x # "running"
      PROVE  Lifecycle!Next
  <2>1. Lifecycle!RowStep(row[s], row'[s])
    <3>1. row[s] \in RowType /\ row'[s] = [row[s] EXCEPT !.state = x] /\ row'[s] \in RowType
      BY <1>1 DEF TypeOK
    <3> QED BY <1>1, <3>1, StepOfTransition DEF RowType
  <2>2. row \in [Session -> RowType]
    BY DEF TypeOK
  <2>3. \A t \in Session \ {s} : row'[t] = row[t]
    BY <1>1, <2>2
  <2> QED BY <2>1, <2>3, LifecycleOfOne
<1>2. CASE ProvBegin(s)
  <2>1. CASE row[s].state = "queued"
    <3>1. row' = [row EXCEPT ![s].state = "provisioning"]
      BY <1>2, <2>1 DEF ProvBegin
    <3>2. LegalTransition(row[s].state, "provisioning")
      BY <2>1 DEF LegalTransition, LiveStates, successors
    <3> QED BY <1>1, <3>1, <3>2, StatesMembers
  <2>2. CASE row[s].state # "queued"
    BY <1>2, <2>2 DEF ProvBegin, ledgerVars
  <2> QED BY <2>1, <2>2
<1>3. CASE ProvRun(s)
  <2>1. /\ row[s] \in RowType /\ row'[s] \in RowType
        /\ row'[s] = [row[s] EXCEPT !.state = "running", !.handle = TRUE]
        /\ row[s].state = "provisioning"
    BY <1>3 DEF ProvRun, TypeOK
  <2>2. LegalTransition("provisioning", "running")
    BY DEF LegalTransition, LiveStates, successors
  <2>3. /\ row'[s].state = "running" /\ row'[s].handle = TRUE
        /\ row'[s].reaped = row[s].reaped
    BY <2>1 DEF RowType
  <2>4. Lifecycle!RowStep(row[s], row'[s])
    BY <2>1, <2>2, <2>3, StepOfTransition
  <2> QED BY <1>3, <2>4, LifecycleOfOne DEF ProvRun, TypeOK
<1>4. CASE ProvFail(s)
  <2>1. \/ row' = [row EXCEPT ![s].state = "failed"] /\ LegalTransition(row[s].state, "failed")
        \/ row' = row
    BY <1>4 DEF ProvFail, ledgerVars
  <2> QED BY <1>1, <2>1, StatesMembers
<1>5. CASE ProvCreate(s) \/ ProvLaunch(s) \/ ProvAbandon(s) \/ ProvWatch(s)
  BY <1>5 DEF ProvCreate, ProvLaunch, ProvAbandon, ProvWatch, ledgerVars
<1> QED BY <1>2, <1>3, <1>4, <1>5 DEF Provision

LEMMA LifecycleOfOperation ==
  ASSUME TypeOK, TypeOK', SafeInv, NEW s \in Session, Dispatch(s) \/ Cancel(s) \/ Reap(s)
  PROVE  Lifecycle!Next \/ row' = row
<1>0. row[s] \in RowType /\ row'[s] \in RowType
  BY DEF TypeOK
<1>1. CASE Dispatch(s)
  <2>1. row[s] = NoRow /\ row'[s] = [NoRow EXCEPT !.state = "queued"]
    BY <1>1 DEF Dispatch, TypeOK
  <2>2. Lifecycle!RowStep(row[s], row'[s])
    BY <2>1 DEF NoRow, Lifecycle!RowStep, Lifecycle!Accepted, Lifecycle!NoRow
  <2> QED BY <1>1, <2>2, LifecycleOfOne DEF Dispatch, TypeOK
<1>2. CASE Cancel(s)
  <2>1. row'[s] = [row[s] EXCEPT !.state = "cancelled"]
    BY <1>2 DEF Cancel, TypeOK
  <2>2. LegalTransition(row[s].state, "cancelled")
    BY <1>2, LiveEdges DEF Cancel, Live
  <2>3. Lifecycle!RowStep(row[s], row'[s])
    BY <1>0, <2>1, <2>2, StepOfTransition DEF RowType
  <2> QED BY <1>2, <2>3, LifecycleOfOne DEF Cancel, TypeOK
<1>3. CASE Reap(s)
  <2>1. CASE UNCHANGED ledgerVars
    BY <2>1 DEF ledgerVars
  <2>2. CASE Archive(s)
    <3>1. row[s].state # "none" /\ ~row[s].reaped
      <4>1. row[s] = [state |-> row[s].state, handle |-> row[s].handle,
                      reaped |-> row[s].reaped]
        BY <1>0 DEF RowType
      <4>2. row[s] # NoRow /\ ~row[s].reaped
        BY <1>3 DEF Reap
      <4> QED BY <4>1, <4>2, <1>0 DEF SafeInv, Safe, NoRow, RowType
    <3>2. row'[s] = [row[s] EXCEPT !.state = IF Live(s) THEN "cancelled" ELSE @,
                                   !.reaped = TRUE]
      BY <2>2 DEF Archive, TypeOK
    <3>3. Live(s) <=> row[s].state \notin TERMINAL
      BY <1>0, <3>1 DEF Live, RowType, States, LiveStates, TERMINAL
    <3>4. row'[s] = [row[s] EXCEPT !.reaped = TRUE,
                                   !.state = IF @ \in Lifecycle!TERMINAL THEN @ ELSE "cancelled"]
      BY <1>0, <3>2, <3>3 DEF TERMINAL, Lifecycle!TERMINAL, RowType
    <3>5. Lifecycle!RowStep(row[s], row'[s])
      BY <3>1, <3>4 DEF Lifecycle!RowStep, Lifecycle!Archived
    <3> QED BY <2>2, <3>5, LifecycleOfOne DEF Archive, TypeOK
  <2> QED BY <1>3, <2>1, <2>2 DEF Reap, ledgerVars
<1> QED BY <1>1, <1>2, <1>3

LEMMA LifecycleOfWatch ==
  ASSUME TypeOK, TypeOK', NEW s \in Session, Poll(s) \/ Fold(s) \/ AgentEnds(s)
  PROVE  Lifecycle!Next \/ row' = row
<1>1. CASE Poll(s) \/ AgentEnds(s)
  BY <1>1 DEF Poll, ExactPoll, ScrapedPoll, AgentEnds, ledgerVars
<1>2. CASE Fold(s)
  <2>1. \/ /\ row' = [row EXCEPT ![s].state = exitItem[s]]
           /\ LegalTransition(row[s].state, exitItem[s])
        \/ row' = row
    BY <1>2 DEF Fold, ledgerVars
  <2>2. CASE /\ row' = [row EXCEPT ![s].state = exitItem[s]]
             /\ LegalTransition(row[s].state, exitItem[s])
    <3>1. row[s] \in RowType /\ row'[s] = [row[s] EXCEPT !.state = exitItem[s]] /\ row'[s] \in RowType
      BY <2>2 DEF TypeOK
    <3>2. exitItem[s] # "running"
      BY DEF TypeOK
    <3>3. Lifecycle!RowStep(row[s], row'[s])
      BY <2>2, <3>1, <3>2, StepOfTransition DEF RowType
    <3>4. \A t \in Session \ {s} : row'[t] = row[t]
      BY <2>2 DEF TypeOK
    <3> QED BY <3>3, <3>4, LifecycleOfOne
  <2> QED BY <2>1, <2>2
<1> QED BY <1>1, <1>2

LEMMA LifecycleOfReconcile ==
  ASSUME TypeOK, TypeOK', NEW r \in Reconciler, Survey(r) \/ Reconcile(r)
  PROVE  Lifecycle!Next \/ row' = row
<1>1. CASE Survey(r)
  BY <1>1 DEF Survey, ledgerVars
<1>2. CASE Reconcile(r)
  <2> DEFINE seen == survey[r].seen
  <2>1. ASSUME NEW s \in Session PROVE Lifecycle!RowStep(row[s], row'[s])
    <3>0. row[s] \in RowType /\ row'[s] \in RowType
      BY DEF TypeOK
    <3>1. CASE s \in LostBy(seen)
      <4>1. row'[s] = [row[s] EXCEPT !.state = "lost"]
        BY <1>2, <3>1 DEF Reconcile
      <4>2. LegalTransition(row[s].state, "lost")
        BY <3>1, LiveEdges DEF LostBy, Live
      <4> QED BY <3>0, <4>1, <4>2, StepOfTransition DEF RowType
    <3>2. CASE s \notin LostBy(seen) /\ s \in AdoptedBy(seen)
      <4>1. row[s] = NoRow /\ row'[s] = [state |-> "running", handle |-> TRUE, reaped |-> FALSE]
        BY <1>2, <3>2 DEF Reconcile, AdoptedBy
      <4> QED BY <4>1 DEF NoRow, Lifecycle!NoRow, Lifecycle!RowStep, Lifecycle!Accepted
    <3>3. CASE s \notin LostBy(seen) /\ s \notin AdoptedBy(seen)
      <4>1. row'[s] = row[s]
        BY <1>2, <3>3 DEF Reconcile
      <4> QED BY <4>1 DEF Lifecycle!RowStep
    <3> QED BY <3>1, <3>2, <3>3
  <2>2. row' \in [Session -> Lifecycle!Row]
    BY DEF TypeOK, RowType, Lifecycle!Row, States, Lifecycle!States, LiveStates,
           Lifecycle!LiveStates, TERMINAL, Lifecycle!TERMINAL
  <2> QED BY <2>1, <2>2 DEF Lifecycle!Next
<1> QED BY <1>1, <1>2

\* Every step is a step of the lifecycle, leaves the board alone, or is a crash.
LEMMA LifecycleNext ==
  ASSUME TypeOK, TypeOK', SafeInv, [Next]_vars
  PROVE  Lifecycle!Next \/ row' = row \/ CrashRestart
<1>1. CASE UNCHANGED vars
  BY <1>1 DEF vars
<1>2. CASE Next
  BY <1>2, LifecycleOfProvision, LifecycleOfOperation, LifecycleOfWatch, LifecycleOfReconcile
     DEF Next
<1> QED BY <1>1, <1>2

\* Between two restarts every consumer sees rows move only as promised.
THEOREM LifecycleHoldsBetweenRestarts == Spec => LifecycleBetweenRestarts
<1>1. TypeOK /\ TypeOK' /\ SafeInv /\ [Next]_vars => [crashes' = crashes => Lifecycle!Next]_row
  <2> SUFFICES ASSUME TypeOK, TypeOK', SafeInv, [Next]_vars, crashes' = crashes, row' # row
               PROVE  Lifecycle!Next
    OBVIOUS
  <2>1. ~CrashRestart
    BY EngineAssumption DEF CrashRestart, TypeOK
  <2> QED BY <2>1, LifecycleNext
<1>2. Init => TypeOK /\ SafeInv
  BY TypeInit, SafeInit
<1>3. TypeOK /\ SafeInv /\ [Next]_vars => TypeOK' /\ SafeInv'
  BY TypeNext, SafeNext
<1> QED BY <1>1, <1>2, <1>3, PTL DEF Spec, LifecycleBetweenRestarts

\* With a mirror that never fails the engine implements SessionLifecycle: a
\* crash and restart at any point is a stutter of the board.
THEOREM EngineImplementsLifecycle ==
  ASSUME MaxSinkFails = 0 PROVE Spec => ImplementsLifecycle
<1>1. Init => Lifecycle!Init
  BY DEF Init, Lifecycle!Init, NoRow, Lifecycle!NoRow
<1>2. TypeOK /\ TypeOK' /\ SafeInv /\ Durable /\ [Next]_vars => [Lifecycle!Next]_row
  <2> SUFFICES ASSUME TypeOK, TypeOK', SafeInv, Durable, [Next]_vars, row' # row
               PROVE  Lifecycle!Next
    OBVIOUS
  <2>1. saved = row
    BY DEF Durable, TypeOK
  <2>2. ~CrashRestart
    BY <2>1 DEF CrashRestart
  <2> QED BY <2>2, LifecycleNext
<1>3. Init => TypeOK /\ SafeInv /\ Durable
  BY TypeInit, SafeInit DEF Init, Durable
<1>4. TypeOK /\ SafeInv /\ Durable /\ [Next]_vars => TypeOK' /\ SafeInv' /\ Durable'
  BY TypeNext, SafeNext, DurableNext
<1> QED BY <1>1, <1>2, <1>3, <1>4, PTL DEF Spec, ImplementsLifecycle, Lifecycle!Spec

(***************************************************************************)
(* What the engine says of a worker's end is what happened to it, and no   *)
(* worker is forgotten: the two promises of Engine that a false exit, or a *)
(* thread that ends early, would break.                                    *)
(***************************************************************************)
Ends == {"completed", "failed"}

\* The state x is what the exit p of a process is told as.
Told(p, x) == p \in Ended /\ x = StateOfExit(p)

Tells(r, p) == r.handle /\ r.state \in Ends => Told(p, r.state)

(***************************************************************************)
(* ExitIsReal is not inductive: the exit travels through the pool and the  *)
(* queue before it meets the row, and a restart takes the mirror's row.    *)
(* The strengthening follows it: what is queued is the worker's real end,  *)
(* only a row with a handle is watched, and the mirror's rows are as true  *)
(* as the board's.                                                         *)
(***************************************************************************)
Exit(s) ==
  /\ Tells(row[s], proc[s]) /\ Tells(saved[s], proc[s])
  /\ exitItem[s] # "none" => Told(proc[s], exitItem[s])
  /\ obs[s] # "none" \/ exitItem[s] # "none" \/ prov[s] = "watch" => row[s].handle

ExitInv == \A s \in Session : Exit(s)

\* A worker that ended stays ended, while its session has a handle.
Settled(s) == row[s].handle /\ proc[s] \in Ended => proc'[s] = proc[s]

\* A step that moves a row to an end only when it is the worker's.
LEMMA ExitFrame ==
  ASSUME NEW s \in Session, Safe(s), Exit(s), Settled(s),
         exitItem[s] \in {"none", "completed", "failed"},
         saved'[s] = saved[s] \/ saved'[s] = row'[s],
         row[s].handle => row'[s].handle,
         \/ row'[s] = row[s]
         \/ row'[s].state \notin Ends
         \/ ~row'[s].handle
         \/ Told(proc'[s], row'[s].state)
         \/ row'[s].handle = row[s].handle /\ row'[s].state = row[s].state,
         obs'[s] \in {obs[s], "none"} \/ row'[s].handle,
         exitItem'[s] \in {exitItem[s], "none"} \/ (row'[s].handle /\ Told(proc'[s], exitItem'[s])),
         prov'[s] = "watch" => row'[s].handle \/ prov[s] = "watch"
  PROVE  Exit(s)'
<1>1. Tells(row'[s], proc'[s])
  BY DEF Exit, Tells, Settled, Ends, Told
<1>2. Tells(saved'[s], proc'[s])
  BY <1>1 DEF Exit, Safe, Tells, Settled, Ends, Told
<1>3. exitItem'[s] # "none" => Told(proc'[s], exitItem'[s])
  BY DEF Exit, Settled, Ends, Told
<1> QED BY <1>1, <1>2, <1>3 DEF Exit

LEMMA ExitInit == Init => ExitInv
  BY DEF Init, ExitInv, Exit, Tells, Ends, NoRow

\* A session that only a mirror or nothing touches.
LEMMA ExitStill ==
  ASSUME TypeOK, NEW s \in Session, Safe(s), Exit(s),
         row'[s] = row[s], proc'[s] = proc[s], obs'[s] = obs[s], exitItem'[s] = exitItem[s],
         prov'[s] = prov[s] \/ prov'[s] # "watch",
         saved'[s] = saved[s] \/ saved'[s] = row'[s]
  PROVE  Exit(s)'
<1>1. Settled(s) /\ exitItem[s] \in {"none", "completed", "failed"}
  BY DEF Settled, TypeOK
<1> QED BY <1>1, ExitFrame

LEMMA ExitProvision ==
  ASSUME TypeOK, SafeInv, ExitInv, NEW s \in Session, Provision(s) PROVE ExitInv'
<1> SUFFICES ASSUME NEW t \in Session PROVE Exit(t)'
  BY DEF ExitInv
<1>0. Safe(t) /\ Exit(t) /\ exitItem[t] \in {"none", "completed", "failed"}
  BY DEF SafeInv, ExitInv, TypeOK
<1>1. CASE ProvBegin(s)
  <2>1. saved'[t] = saved[t] \/ saved'[t] = row'[t]
    BY <1>1, MirrorRows DEF ProvBegin, ledgerVars
  <2>2. /\ row'[t] = row[t] \/ (row'[t] = [row[t] EXCEPT !.state = "provisioning"])
        /\ proc' = proc /\ obs' = obs /\ exitItem' = exitItem
        /\ prov'[t] = prov[t] \/ prov'[t] # "watch"
    BY <1>1 DEF ProvBegin, TypeOK, ledgerVars, workerVars, watchVars
  <2>3. Settled(t)
    BY <2>2 DEF Settled
  <2>4. row'[t] = row[t] \/ (row'[t].state \notin Ends /\ row'[t].handle = row[t].handle)
    BY <2>2 DEF TypeOK, RowType, Ends
  <2> QED BY <1>0, <2>1, <2>2, <2>3, <2>4, ExitFrame
<1>2. CASE ProvCreate(s)
  <2>1. /\ row' = row /\ saved' = saved /\ proc' = proc /\ obs' = obs /\ exitItem' = exitItem
        /\ prov'[t] = prov[t] \/ prov'[t] # "watch"
    BY <1>2 DEF ProvCreate, TypeOK, ledgerVars, watchVars
  <2> QED BY <1>0, <2>1, ExitStill
<1>3. CASE ProvLaunch(s)
  <2>1. /\ row' = row /\ saved' = saved /\ obs' = obs /\ exitItem' = exitItem
        /\ prov'[t] = prov[t] \/ prov'[t] # "watch"
    BY <1>3 DEF ProvLaunch, TypeOK, ledgerVars, watchVars
  <2>2. Settled(t)
    <3>1. CASE t # s
      BY <1>3, <3>1 DEF ProvLaunch, Settled, TypeOK
    <3>2. CASE t = s
      BY <1>0, <1>3, <3>2 DEF ProvLaunch, Settled, Safe, InFlight
    <3> QED BY <3>1, <3>2
  <2> QED BY <1>0, <2>1, <2>2, ExitFrame
<1>4. CASE ProvRun(s)
  <2>1. saved'[t] = saved[t] \/ saved'[t] = row'[t]
    BY <1>4, MirrorRows DEF ProvRun
  <2>2. proc' = proc /\ obs' = obs /\ exitItem' = exitItem
    BY <1>4 DEF ProvRun, workerVars, watchVars
  <2>3. Settled(t)
    BY <2>2 DEF Settled
  <2>4. /\ row'[t] = row[t] \/ (row'[t].state \notin Ends /\ row'[t].handle)
        /\ prov'[t] = "watch" => row'[t].handle \/ prov[t] = "watch"
    BY <1>4 DEF ProvRun, TypeOK, RowType, Ends
  <2> QED BY <1>0, <2>1, <2>2, <2>3, <2>4, ExitFrame
<1>5. CASE ProvAbandon(s)
  <2>1. /\ row' = row /\ saved' = saved /\ obs' = obs /\ exitItem' = exitItem
        /\ prov'[t] = prov[t] \/ prov'[t] # "watch"
    BY <1>5 DEF ProvAbandon, TypeOK, ledgerVars, watchVars
  <2>2. Settled(t)
    BY <1>5 DEF ProvAbandon, Destroy, Settled, Ended, workerVars
  <2> QED BY <1>0, <2>1, <2>2, ExitFrame
<1>6. CASE ProvFail(s)
  <2>1. saved'[t] = saved[t] \/ saved'[t] = row'[t]
    BY <1>6, MirrorRows DEF ProvFail, ledgerVars
  <2>2. /\ proc' = proc /\ obs' = obs /\ exitItem' = exitItem
        /\ prov'[t] = prov[t] \/ prov'[t] # "watch"
        /\ row'[t] = row[t] \/ (t = s /\ row'[t] = [row[t] EXCEPT !.state = "failed"])
    BY <1>6 DEF ProvFail, TypeOK, workerVars, watchVars, ledgerVars
  <2>3. Settled(t)
    BY <2>2 DEF Settled
  <2>4. t = s => ~row[t].handle
    BY <1>0, <1>6 DEF ProvFail, Safe, InFlight
  <2>5. row'[t] = row[t] \/ (~row'[t].handle /\ ~row[t].handle)
    BY <2>2, <2>4 DEF TypeOK, RowType
  <2> QED BY <1>0, <2>1, <2>2, <2>3, <2>5, ExitFrame
<1>7. CASE ProvWatch(s)
  <2>1. /\ row' = row /\ saved' = saved /\ proc' = proc /\ exitItem' = exitItem
        /\ prov'[t] = prov[t] \/ prov'[t] # "watch"
        /\ obs'[t] = obs[t] \/ (t = s /\ prov[t] = "watch")
    BY <1>7 DEF ProvWatch, TypeOK, workerVars, ledgerVars
  <2>2. obs'[t] \in {obs[t], "none"} \/ row'[t].handle
    BY <1>0, <2>1 DEF Exit
  <2>3. Settled(t)
    BY <2>1 DEF Settled
  <2> QED BY <1>0, <2>1, <2>2, <2>3, ExitFrame
<1> QED BY <1>1, <1>2, <1>3, <1>4, <1>5, <1>6, <1>7 DEF Provision

\* Stopping an agent ends only a worker that runs.
LEMMA StopSettles ==
  ASSUME TypeOK, NEW s \in Session, NEW p \in StopOutcomes(s), proc[s] \in Ended
  PROVE  p = proc[s]
  BY DEF StopOutcomes, Ended

LEMMA ReapStopSettles ==
  ASSUME TypeOK, NEW s \in Session, NEW p \in ReapStop(s), NEW t \in Session, proc[t] \in Ended
  PROVE  p[t] = proc[t]
  BY StopSettles DEF ReapStop, TypeOK

LEMMA CutShortSettles ==
  ASSUME TypeOK, NEW s \in Session, CutShort(s), NEW t \in Session
  PROVE  Settled(t)
<1>1. PICK p \in ReapStop(s) : (proc' = p /\ UNCHANGED env) \/ Destroy({s}, p)
  BY DEF CutShort
<1>2. proc[t] \in Ended => p[t] = proc[t]
  BY ReapStopSettles
<1> QED BY <1>1, <1>2 DEF Settled, Destroy, Ended

LEMMA ExitOperation ==
  ASSUME TypeOK, SafeInv, ExitInv, NEW s \in Session, Dispatch(s) \/ Cancel(s) \/ Reap(s)
  PROVE  ExitInv'
<1> SUFFICES ASSUME NEW t \in Session PROVE Exit(t)'
  BY DEF ExitInv
<1>0. Safe(t) /\ Exit(t) /\ exitItem[t] \in {"none", "completed", "failed"}
  BY DEF SafeInv, ExitInv, TypeOK
<1>1. CASE Dispatch(s)
  <2>1. Mirror({s}) /\ proc' = proc /\ obs' = obs /\ exitItem' = exitItem
    BY <1>1 DEF Dispatch, Mirror, workerVars, watchVars
  <2>2. saved'[t] = saved[t] \/ saved'[t] = row'[t]
    BY <2>1, MirrorRows
  <2>3. prov'[t] = prov[t] \/ prov'[t] # "watch"
    BY <1>1 DEF Dispatch, TypeOK
  <2>4. row'[t] = row[t] \/ (row'[t].state \notin Ends /\ ~row[t].handle)
    BY <1>1 DEF Dispatch, TypeOK, NoRow, Ends
  <2>5. Settled(t)
    BY <2>1 DEF Settled
  <2> QED BY <1>0, <2>1, <2>2, <2>3, <2>4, <2>5, ExitFrame
<1>2. CASE Cancel(s)
  <2>1. Mirror({s}) /\ exitItem' = exitItem /\ prov' = prov
    BY <1>2 DEF Cancel, Mirror
  <2>2. saved'[t] = saved[t] \/ saved'[t] = row'[t]
    BY <2>1, MirrorRows
  <2>3. obs'[t] \in {obs[t], "none"}
    BY <1>2 DEF Cancel, TypeOK
  <2>4. row'[t] = row[t] \/ (row'[t].state \notin Ends /\ row'[t].handle = row[t].handle)
    BY <1>2 DEF Cancel, TypeOK, RowType, Ends
  <2>5. Settled(t)
    <3>1. CASE proc' = proc
      BY <3>1 DEF Settled
    <3>2. CASE \E p \in StopOutcomes(s) : proc' = [proc EXCEPT ![s] = p]
      BY <3>2, StopSettles DEF Settled, TypeOK
    <3> QED BY <1>2, <3>1, <3>2 DEF Cancel
  <2> QED BY <1>0, <2>1, <2>2, <2>3, <2>4, <2>5, ExitFrame
<1>3. CASE Reap(s)
  <2>0. prov' = prov /\ exitItem' = exitItem
    BY <1>3 DEF Reap
  <2>1. Settled(t)
    <3>1. CASE UNCHANGED workerVars
      BY <3>1 DEF Settled, workerVars
    <3>2. CASE \E p \in ReapStop(s) : Destroy({s}, p)
      BY <3>2, CutShortSettles DEF CutShort
    <3>3. CASE CutShort(s)
      BY <3>3, CutShortSettles
    <3> QED BY <1>3, <3>1, <3>2, <3>3 DEF Reap
  <2>2. CASE UNCHANGED <<ledgerVars, obs>>
    BY <1>0, <2>0, <2>1, <2>2, ExitFrame DEF ledgerVars
  <2>3. CASE Archive(s)
    <3>1. Mirror({s})
      BY <2>3 DEF Archive, Mirror
    <3>2. saved'[t] = saved[t] \/ saved'[t] = row'[t]
      BY <3>1, MirrorRows
    <3>3. obs'[t] \in {obs[t], "none"}
      BY <2>3 DEF Archive, TypeOK
    <3>4. /\ row'[t].handle = row[t].handle
          /\ row'[t].state \in {row[t].state, "cancelled"}
      BY <2>3 DEF Archive, TypeOK, RowType
    <3>5. row'[t].state \notin Ends \/ row'[t].state = row[t].state
      BY <3>4 DEF Ends
    <3> QED BY <1>0, <2>0, <2>1, <3>2, <3>3, <3>4, <3>5, ExitFrame
  <2> QED BY <1>3, <2>2, <2>3 DEF Reap
<1> QED BY <1>1, <1>2, <1>3

LEMMA ExitWatch ==
  ASSUME TypeOK, SafeInv, ExitInv, NEW s \in Session, Poll(s) \/ Fold(s) \/ AgentEnds(s)
  PROVE  ExitInv'
<1> SUFFICES ASSUME NEW t \in Session PROVE Exit(t)'
  BY DEF ExitInv
<1>0. Safe(t) /\ Exit(t) /\ exitItem[t] \in {"none", "completed", "failed"}
  BY DEF SafeInv, ExitInv, TypeOK
<1>1. CASE Poll(s)
  <2>1. /\ row' = row /\ saved' = saved /\ proc' = proc /\ prov' = prov
        /\ obs'[t] \in {obs[t], "none"}
        /\ \/ exitItem'[t] = exitItem[t]
           \/ obs[t] # "none" /\ Told(proc[t], exitItem'[t])
    BY <1>1 DEF Poll, ExactPoll, ScrapedPoll, Told, TypeOK, ledgerVars, workerVars
  <2>2. Settled(t)
    BY <2>1 DEF Settled
  <2>3. \/ exitItem'[t] \in {exitItem[t], "none"}
        \/ row'[t].handle /\ Told(proc'[t], exitItem'[t])
    BY <1>0, <2>1 DEF Exit
  <2> QED BY <1>0, <2>1, <2>2, <2>3, ExitFrame
<1>2. CASE Fold(s)
  <2>1. saved'[t] = saved[t] \/ saved'[t] = row'[t]
    BY <1>2, MirrorRows DEF Fold, ledgerVars
  <2>2. /\ proc' = proc /\ obs' = obs /\ prov' = prov
        /\ exitItem'[t] \in {exitItem[t], "none"}
        /\ \/ row'[t] = row[t]
           \/ exitItem[t] # "none" /\ row'[t] = [row[t] EXCEPT !.state = exitItem[t]]
    BY <1>2 DEF Fold, TypeOK, ledgerVars, workerVars
  <2>3. Settled(t)
    BY <2>2 DEF Settled
  <2>4. \/ row'[t] = row[t]
        \/ /\ row'[t].handle = row[t].handle
           /\ Told(proc'[t], row'[t].state)
    BY <1>0, <2>2 DEF Exit, TypeOK, RowType
  <2> QED BY <1>0, <2>1, <2>2, <2>3, <2>4, ExitFrame
<1>3. CASE AgentEnds(s)
  <2>1. /\ row' = row /\ saved' = saved /\ obs' = obs /\ exitItem' = exitItem /\ prov' = prov
    BY <1>3 DEF AgentEnds, ledgerVars, watchVars
  <2>2. Settled(t)
    BY <1>3 DEF AgentEnds, Settled, TypeOK, Ended
  <2> QED BY <1>0, <2>1, <2>2, ExitFrame
<1> QED BY <1>1, <1>2, <1>3

LEMMA ExitReconcile ==
  ASSUME TypeOK, SafeInv, ExitInv, NEW r \in Reconciler, Survey(r) \/ Reconcile(r)
  PROVE  ExitInv'
<1> SUFFICES ASSUME NEW t \in Session PROVE Exit(t)'
  BY DEF ExitInv
<1>0. Safe(t) /\ Exit(t) /\ exitItem[t] \in {"none", "completed", "failed"}
  BY DEF SafeInv, ExitInv, TypeOK
<1>1. CASE Survey(r)
  BY <1>0, <1>1, ExitStill DEF Survey, ledgerVars, workerVars, watchVars
<1>2. CASE Reconcile(r)
  <2> DEFINE seen == survey[r].seen
             changed == LostBy(seen) \cup AdoptedBy(seen)
  <2>0. seen \in SUBSET Session
    BY DEF TypeOK
  <2>1. saved'[t] = saved[t] \/ saved'[t] = row'[t]
    <3>1. changed \in SUBSET Session
      BY <2>0 DEF LostBy, AdoptedBy
    <3>2. UNCHANGED saved \/ Mirror(changed)
      BY <1>2 DEF Reconcile
    <3> QED BY <3>1, <3>2, MirrorRows
  <2>2. prov' = prov /\ exitItem' = exitItem
    BY <1>2 DEF Reconcile
  <2>3. Settled(t)
    BY <1>2 DEF Reconcile, Destroy, Settled, Ended
  <2>4. /\ t \in AdoptedBy(seen) \/ obs'[t] = obs[t]
        /\ \/ row'[t] = row[t] /\ t \notin AdoptedBy(seen)
           \/ row'[t] = [row[t] EXCEPT !.state = "lost"] /\ row[t].handle
           \/ row'[t] = [state |-> "running", handle |-> TRUE, reaped |-> FALSE]
    BY <1>2 DEF Reconcile, LostBy
  <2>5. /\ row[t].handle => row'[t].handle
        /\ row'[t] = row[t] \/ row'[t].state \notin Ends
        /\ obs'[t] = obs[t] \/ row'[t].handle
    BY <2>4 DEF TypeOK, RowType, Ends
  <2> QED BY <1>0, <2>1, <2>2, <2>3, <2>5, ExitFrame
<1> QED BY <1>1, <1>2

LEMMA ExitCrash == ASSUME TypeOK, SafeInv, ExitInv, CrashRestart PROVE ExitInv'
<1> SUFFICES ASSUME NEW t \in Session PROVE Exit(t)'
  BY DEF ExitInv
<1>1. Exit(t)
  BY DEF ExitInv
<1>2. row' = saved /\ saved' = saved /\ exitItem'[t] = "none" /\ prov'[t] = "none"
  BY DEF CrashRestart
<1>3. saved[t].handle /\ proc[t] \in Ended => proc'[t] = proc[t]
  <2>1. saved[t].handle => row[t].handle
    BY DEF SafeInv, Safe
  <2>2. UNCHANGED proc \/ Settled(t)
    BY CutShortSettles DEF CrashRestart, HalfDone, workerVars
  <2> QED BY <2>1, <2>2 DEF Settled
<1>4. obs'[t] # "none" => saved[t].handle
  BY DEF CrashRestart
<1> QED BY <1>1, <1>2, <1>3, <1>4 DEF Exit, Tells, Told, Ends

LEMMA ExitNext == TypeOK /\ SafeInv /\ ExitInv /\ [Next]_vars => ExitInv'
<1> SUFFICES ASSUME TypeOK, SafeInv, ExitInv, [Next]_vars PROVE ExitInv'
  OBVIOUS
<1>1. CASE UNCHANGED vars
  BY <1>1 DEF ExitInv, Exit, Tells, vars
<1>2. CASE Next
  BY <1>2, ExitProvision, ExitOperation, ExitWatch, ExitReconcile, ExitCrash DEF Next
<1> QED BY <1>1, <1>2

\* `completed`, and `failed` on a session that ran, report an exit of the worker's
\* process, whatever fails, crashes or interleaves (the collector's guard, and the
\* exit that only a holder's stream can bring).  An engine's own kill is never told
\* as a completion, but may be told as a failure.
THEOREM ExitsAreReal == Spec => []ExitIsReal
<1>1. ExitInv => ExitIsReal
  BY DEF ExitInv, Exit, Tells, Told, Ends, Ended, StateOfExit, ExitIsReal
<1> QED BY <1>1, TypeInit, TypeNext, SafeInit, SafeNext, ExitInit, ExitNext, PTL DEF Spec

(***************************************************************************)
(* Nothing that runs is forgotten.                                         *)
(*                                                                         *)
(* The environment comes into being between two lock sections.  While the  *)
(* engine has not crashed, the provision thread that made it is still      *)
(* there, until the row has the handle or the environment is gone; before  *)
(* that, and for a session nobody dispatched, there is none.               *)
(***************************************************************************)
Accounted(s) ==
  /\ env[s] => row[s] = NoRow \/ row[s].handle \/ prov[s] # "none"
  /\ prov[s] \in {"spawned", "starting"} => ~env[s]
  /\ row[s] = NoRow /\ s \notin Foreign => ~env[s]
  /\ prov[s] # "errored"

AccountInv == crashes = 0 => \A s \in Session : Accounted(s)

\* A session whose thread does not end keeps its account, as rows keep handles.
LEMMA AccountFrame ==
  ASSUME NEW s \in Session, Accounted(s), prov'[s] = prov[s], env'[s] => env[s],
         row'[s] = row[s] \/ (row'[s] # NoRow /\ (row'[s].handle \/ (row[s] # NoRow /\ ~row[s].handle)))
  PROVE  Accounted(s)'
  BY DEF Accounted

LEMMA AccountInit == Init => AccountInv
<1> SUFFICES ASSUME Init, NEW s \in Session PROVE Accounted(s)
  BY DEF AccountInv
<1>1. row[s] = NoRow /\ prov[s] = "none" /\ env[s] = (s \in Foreign)
  BY DEF Init
<1> QED BY <1>1, Zenon DEF Accounted

LEMMA AccountProvision ==
  ASSUME Faults = {}, TypeOK, SafeInv, ExitInv, NEW s \in Session, Provision(s),
         NEW t \in Session, Accounted(t), Accounted(s)
  PROVE  Accounted(t)'
<1>0. Safe(s) /\ Exit(s)
  BY DEF SafeInv, ExitInv
<1>1. CASE t # s
  <2>1. row'[t] = row[t] /\ prov'[t] = prov[t] /\ (env'[t] => env[t])
    BY <1>1 DEF Provision, ProvBegin, ProvCreate, ProvLaunch, ProvRun, ProvAbandon, ProvFail,
                ProvWatch, Destroy, TypeOK, ledgerVars, workerVars
  <2> QED BY <2>1, AccountFrame
<1>2. CASE t = s
  <2>1. CASE ProvBegin(s)
    <3>1. env' = env /\ ~env[s]
      BY <1>2, <2>1 DEF ProvBegin, workerVars, Accounted
    <3>2. prov'[s] # "errored"
      BY <2>1 DEF ProvBegin, TypeOK
    <3> QED BY <1>2, <3>1, <3>2 DEF Accounted
  <2>2. CASE ProvCreate(s)
    <3>1. prov'[s] = "created" /\ row' = row
      BY <2>2 DEF ProvCreate, MayFail, TypeOK, ledgerVars
    <3>2. row[s] # NoRow
      BY <1>0, <2>2 DEF ProvCreate, Safe, InFlight, NoRow
    <3> QED BY <1>2, <3>1, <3>2 DEF Accounted
  <2>3. CASE ProvLaunch(s)
    <3>1. prov'[s] = "up" /\ row' = row /\ env' = env
      BY <2>3 DEF ProvLaunch, MayFail, TypeOK, ledgerVars
    <3> QED BY <1>2, <3>1 DEF Accounted
  <2>4. CASE ProvRun(s)
    <3>1. row'[s].handle /\ row'[s].state = "running" /\ prov'[s] = "watch"
      BY <2>4 DEF ProvRun, TypeOK, RowType
    <3> QED BY <1>2, <3>1 DEF Accounted, NoRow
  <2>5. CASE ProvAbandon(s)
    <3>1. ~env'[s] /\ prov'[s] = "none"
      BY <2>5 DEF ProvAbandon, Destroy, MayFail, TypeOK
    <3> QED BY <1>2, <3>1 DEF Accounted
  <2>6. CASE ProvFail(s)
    BY <1>2, <2>6 DEF ProvFail, Accounted
  <2>7. CASE ProvWatch(s)
    <3>1. row' = row /\ env' = env /\ prov'[s] = "none" /\ row[s].handle
      BY <1>0, <2>7 DEF ProvWatch, TypeOK, Exit, ledgerVars, workerVars
    <3>2. row[s] # NoRow
      BY <3>1 DEF NoRow
    <3> QED BY <1>2, <3>1, <3>2 DEF Accounted
  <2> QED BY <2>1, <2>2, <2>3, <2>4, <2>5, <2>6, <2>7 DEF Provision
<1> QED BY <1>1, <1>2

\* What users, observers and reconcile do to a session.
LEMMA AccountOther ==
  ASSUME TypeOK, SafeInv, NEW t \in Session, Accounted(t),
         \/ \E s \in Session : Dispatch(s) \/ Cancel(s) \/ Reap(s) \/ Poll(s) \/ Fold(s) \/ AgentEnds(s)
         \/ \E r \in Reconciler : Survey(r) \/ Reconcile(r)
  PROVE  Accounted(t)'
<1>0. Safe(t)
  BY DEF SafeInv
<1>1. ASSUME NEW s \in Session, Dispatch(s) PROVE Accounted(t)'
  <2>1. CASE t # s
    <3>1. row'[t] = row[t] /\ prov'[t] = prov[t] /\ env' = env
      BY <1>1, <2>1 DEF Dispatch, TypeOK, workerVars
    <3> QED BY <3>1, AccountFrame
  <2>2. CASE t = s
    <3>1. ~env'[s] /\ prov'[s] # "errored"
      BY <1>1, <2>2 DEF Dispatch, Accounted, TypeOK, workerVars
    <3> QED BY <2>2, <3>1 DEF Accounted
  <2> QED BY <2>1, <2>2
<1>2. ASSUME NEW s \in Session, Cancel(s) PROVE Accounted(t)'
  <2>1. prov' = prov /\ env' = env
    BY <1>2 DEF Cancel
  <2>2. \/ row'[t] = row[t]
        \/ /\ row'[t].handle = row[t].handle /\ row'[t].state = "cancelled"
           /\ row[t].state \in LiveStates
    BY <1>2 DEF Cancel, Live, TypeOK, RowType
  <2>3. row'[t] = row[t] \/ (row'[t] # NoRow /\ row[t] # NoRow /\ row'[t].handle = row[t].handle)
    BY <2>2 DEF NoRow, LiveStates
  <2> QED BY <2>1, <2>3, AccountFrame DEF TypeOK, RowType
<1>3. ASSUME NEW s \in Session, Reap(s) PROVE Accounted(t)'
  <2>1. prov' = prov /\ (env'[t] => env[t])
    BY <1>3, CutShortRemoves DEF Reap, Destroy, TypeOK, workerVars
  <2>2. \/ row'[t] = row[t]
        \/ t = s /\ row'[t].handle = row[t].handle /\ row'[t].reaped
    BY <1>3 DEF Reap, Archive, ledgerVars, TypeOK, RowType
  <2>3. row[s] # NoRow
    BY <1>3 DEF Reap
  <2>4. row'[t] = row[t] \/ (row'[t] # NoRow /\ row[t] # NoRow /\ row'[t].handle = row[t].handle)
    BY <2>2, <2>3 DEF NoRow
  <2> QED BY <2>1, <2>4, AccountFrame DEF TypeOK, RowType
<1>4. ASSUME NEW s \in Session, Poll(s) \/ AgentEnds(s) PROVE Accounted(t)'
  <2>1. row' = row /\ prov' = prov /\ (env'[t] => env[t])
    BY <1>4 DEF Poll, ExactPoll, ScrapedPoll, AgentEnds, TypeOK, ledgerVars, workerVars
  <2> QED BY <2>1, AccountFrame
<1>5. ASSUME NEW s \in Session, Fold(s) PROVE Accounted(t)'
  <2>1. prov' = prov /\ env' = env
    BY <1>5 DEF Fold, workerVars
  <2>2. \/ row'[t] = row[t]
        \/ /\ row'[t].handle = row[t].handle /\ row'[t].state \in Ends
           /\ row[t].state \in LiveStates
    BY <1>5 DEF Fold, LegalTransition, ledgerVars, TypeOK, RowType, Ends
  <2>3. row'[t] = row[t] \/ (row'[t] # NoRow /\ row[t] # NoRow /\ row'[t].handle = row[t].handle)
    BY <2>2 DEF NoRow, LiveStates, Ends
  <2> QED BY <2>1, <2>3, AccountFrame DEF TypeOK, RowType
<1>6. ASSUME NEW r \in Reconciler, Survey(r) PROVE Accounted(t)'
  BY <1>6, AccountFrame DEF Survey, ledgerVars, workerVars
<1>7. ASSUME NEW r \in Reconciler, Reconcile(r) PROVE Accounted(t)'
  <2>1. prov' = prov /\ (env'[t] => env[t])
    BY <1>7 DEF Reconcile, Destroy
  <2>2. \/ row'[t] = row[t]
        \/ row'[t] = [row[t] EXCEPT !.state = "lost"] /\ row[t].handle
        \/ row'[t] = [state |-> "running", handle |-> TRUE, reaped |-> FALSE]
    BY <1>7 DEF Reconcile, LostBy
  <2>3. row'[t] = row[t] \/ (row'[t] # NoRow /\ row'[t].handle)
    BY <2>2 DEF NoRow, TypeOK, RowType
  <2> QED BY <2>1, <2>3, AccountFrame
<1> QED BY <1>1, <1>2, <1>3, <1>4, <1>5, <1>6, <1>7

LEMMA AccountNext ==
  ASSUME Faults = {}, TypeOK, SafeInv, ExitInv, AccountInv, [Next]_vars
  PROVE  AccountInv'
<1>1. CASE UNCHANGED vars
  BY <1>1 DEF AccountInv, Accounted, vars
<1>2. CASE CrashRestart
  BY <1>2, EngineAssumption DEF CrashRestart, AccountInv, TypeOK
<1>3. CASE Next /\ ~CrashRestart
  <2> SUFFICES ASSUME crashes' = 0, NEW t \in Session PROVE Accounted(t)'
    BY DEF AccountInv
  <2>1. crashes' = crashes
    BY <1>3 DEF Next, Dispatch, Provision, ProvBegin, ProvCreate, ProvLaunch, ProvRun, ProvAbandon,
       ProvFail, ProvWatch, Cancel, Reap, Poll, ExactPoll, ScrapedPoll, Fold, AgentEnds, Survey, Reconcile
  <2>2. \A s \in Session : Accounted(s)
    BY <2>1 DEF AccountInv
  <2>3. ASSUME NEW s \in Session, Provision(s) PROVE Accounted(t)'
    BY <2>2, <2>3, AccountProvision
  <2> QED BY <1>3, <2>2, <2>3, AccountOther DEF Next
<1> QED BY <1>1, <1>2, <1>3

\* Without a fault, an environment is accounted for by its row, by the thread that
\* provisions it or by adoption, until a crash, whoever cancels and reaps when.
THEOREM WorkersAreAccounted ==
  ASSUME Faults = {} PROVE Spec => []EveryWorkerAccounted
<1>1. AccountInv => EveryWorkerAccounted
  BY DEF AccountInv, Accounted, EveryWorkerAccounted
<1>2. Init => TypeOK /\ SafeInv /\ ExitInv /\ AccountInv
  BY TypeInit, SafeInit, ExitInit, AccountInit
<1>3. TypeOK /\ SafeInv /\ ExitInv /\ AccountInv /\ [Next]_vars
        => TypeOK' /\ SafeInv' /\ ExitInv' /\ AccountInv'
  BY TypeNext, SafeNext, ExitNext, AccountNext
<1> QED BY <1>1, <1>2, <1>3, PTL DEF Spec
=============================================================================
