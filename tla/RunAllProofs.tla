---------------------------- MODULE RunAllProofs ----------------------------
(***************************************************************************)
(* Theorems about RunAll, for every stack, every set of jobs and every     *)
(* bound: its variables stay in their types, two jobs never run Terraform  *)
(* on one unit, nobody but the killed leaves a lock, and every step brings *)
(* a job closer to its end.                                                *)
(***************************************************************************)
EXTENDS RunAll, TLAPS

USE DEF Dir, Unit

(* The variables that belong to a job. *)
JobTypes ==
    /\ kind \in [Job -> Entries \cup {"idle"}]
    /\ at \in [Job -> Dir]
    /\ phase \in [Job -> Phases]
    /\ prog \in [Job -> [Unit -> Progress]]
    /\ retried \in [Job -> BOOLEAN]

StackTypes ==
    /\ cloud \in DOMAIN Stack
    /\ state \in [Unit -> {"absent", "partial", "applied"}]
    /\ lock \in [Unit -> Job \cup {Free, Stale}]
    /\ left \subseteq Unit

(* A job under way has a kind: what NextDir needs to stay among the directories. *)
BusyHasKind == \A j \in Job : phase[j] # "idle" => kind[j] # "idle"

(* Whoever has Terraform running on a unit holds its lock. *)
RunnerHoldsLock == \A j \in Job, u \in Unit : prog[j][u] = "running" => lock[u] = j

Inv == StackTypes /\ JobTypes /\ BusyHasKind

-----------------------------------------------------------------------------
(* Type correctness *)

LEMMA InitInv == Init => Inv
BY StackAssumption DEF Init, Inv, StackTypes, JobTypes, BusyHasKind,
   Entries, Phases, Progress, NoProgress, Free, Stale

LEMMA NoProgressType == NoProgress \in [Unit -> Progress]
BY DEF NoProgress, Progress

LEMMA StartInv ==
    ASSUME UNCHANGED cloud, JobTypes, BusyHasKind, NEW j \in Job, NEW k, NEW d \in Dir, Start(j, k, d)
    PROVE  JobTypes' /\ BusyHasKind' /\ state' = state /\ lock' = lock
<1>1. k \in Entries /\ k # "idle"
  BY StackAssumption DEF Start, Entries
<1>. QED  BY <1>1 DEF Start, JobTypes, BusyHasKind, Phases

LEMMA EndJobInv ==
    ASSUME UNCHANGED cloud, JobTypes, BusyHasKind, NEW j \in Job, EndJob(j)
    PROVE  JobTypes' /\ BusyHasKind'
BY NoProgressType DEF EndJob, JobTypes, BusyHasKind, Phases

LEMMA RunAllFailedInv ==
    ASSUME UNCHANGED cloud, JobTypes, BusyHasKind, NEW j \in Job, phase[j] # "idle", RunAllFailed(j)
    PROVE  JobTypes' /\ BusyHasKind'
<1>1. CASE kind[j] = "destroy" /\ ~retried[j]
  <2>1. /\ phase' = [phase EXCEPT ![j] = "drain"]
        /\ prog' = [prog EXCEPT ![j] = NoProgress]
        /\ UNCHANGED <<kind, at, retried>>
    BY <1>1, Zenon DEF RunAllFailed
  <2>. QED  BY <2>1, NoProgressType DEF JobTypes, BusyHasKind, Phases
<1>2. CASE ~(kind[j] = "destroy" /\ ~retried[j])
  <2>1. EndJob(j)
    BY <1>2, Zenon DEF RunAllFailed
  <2>. QED  BY <2>1, EndJobInv
<1>. QED  BY <1>1, <1>2

LEMMA NextDirInv ==
    ASSUME UNCHANGED cloud, JobTypes, BusyHasKind, NEW j \in Job, phase[j] # "idle", NextDir(j)
    PROVE  JobTypes' /\ BusyHasKind'
<1>1. CASE InLastDir(j)
  <2>1. EndJob(j)
    BY <1>1 DEF NextDir
  <2>. QED  BY <2>1, EndJobInv
<1>2. CASE ~InLastDir(j)
  <2>1. Following(j) \in Dir
    <3>1. kind[j] \in {"deploy", "destroy"}
      BY <1>2 DEF InLastDir, JobTypes, BusyHasKind, Entries
    <3>2. at[j] \in 1..DirCount /\ DirCount \in Nat
      BY StackAssumption DEF JobTypes
    <3>3. CASE kind[j] = "deploy"
      BY <1>2, <3>2, <3>3 DEF InLastDir, Following
    <3>4. CASE kind[j] = "destroy"
      BY <1>2, <3>2, <3>4 DEF InLastDir, Following
    <3>. QED  BY <3>1, <3>3, <3>4
  <2>2. /\ at' = [at EXCEPT ![j] = Following(j)]
        /\ phase' = [phase EXCEPT ![j] = "begin"]
        /\ prog' = [prog EXCEPT ![j] = NoProgress]
        /\ retried' = [retried EXCEPT ![j] = FALSE]
        /\ UNCHANGED kind
    BY <1>2 DEF NextDir
  <2>. QED  BY <2>1, <2>2, NoProgressType DEF JobTypes, BusyHasKind, Phases
<1>. QED  BY <1>1, <1>2

LEMMA SettleInv ==
    ASSUME UNCHANGED cloud, JobTypes, BusyHasKind, NEW j \in Job, NEW u \in Unit, NEW p \in Progress,
           Settle(j, u, p)
    PROVE  JobTypes' /\ BusyHasKind'
BY DEF Settle, JobTypes, BusyHasKind

LEMMA DispatchInv ==
    ASSUME Inv, NEW j \in Job, Dispatch(j)
    PROVE  Inv'
<1>u. UNCHANGED cloud
  BY DEF Dispatch
<1>. USE <1>u
<1>1. ASSUME NEW s \in Dir, DispatchDeploy(j, s)
      PROVE  Inv'
  BY <1>1, StartInv DEF DispatchDeploy, Inv, StackTypes
<1>2. ASSUME NEW s \in Dir, DispatchDestroy(j, s)
      PROVE  Inv'
  BY <1>2, StartInv DEF DispatchDestroy, StandingIn, Inv, StackTypes
<1>3. 1 \in Dir
  BY StackAssumption
<1>4. CASE MakeApply(j)
  BY <1>3, <1>4, StartInv DEF MakeApply, Inv, StackTypes
<1>5. CASE MakeDestroy(j)
  BY <1>3, <1>5, StartInv DEF MakeDestroy, Inv, StackTypes
<1>. QED  BY <1>1, <1>2, <1>4, <1>5 DEF Dispatch

LEMMA UnitStepInv ==
    ASSUME UNCHANGED cloud, Inv, NEW j \in Job, NEW u \in Unit, UnitStep(j, u)
    PROVE  Inv'
<1>1. CASE UnitStarts(j, u)
  BY <1>1, SettleInv DEF UnitStarts, Inv, StackTypes, Progress
<1>2. CASE UnitLacksOutputs(j, u)
  BY <1>2, SettleInv DEF UnitLacksOutputs, Inv, StackTypes, stackVars, Progress
<1>3. CASE LockTimesOut(j, u)
  BY <1>3, SettleInv DEF LockTimesOut, Inv, StackTypes, stackVars, Progress
<1>4. CASE UnitSucceeds(j, u)
  <2>1. JobTypes' /\ BusyHasKind'
    BY <1>4, SettleInv DEF UnitSucceeds, Inv, Progress
  <2>. QED  BY <1>4, <2>1 DEF UnitSucceeds, Inv, StackTypes
<1>5. CASE UnitFails(j, u)
  <2>1. JobTypes' /\ BusyHasKind'
    BY <1>5, SettleInv DEF UnitFails, Inv, Progress
  <2>. QED  BY <1>5, <2>1 DEF UnitFails, Inv, StackTypes
<1>6. CASE UnitSkipped(j, u)
  BY <1>6, SettleInv DEF UnitSkipped, Inv, StackTypes, stackVars, Progress
<1>. QED  BY <1>1, <1>2, <1>3, <1>4, <1>5, <1>6 DEF UnitStep

LEMMA JobStepInv ==
    ASSUME Inv, NEW j \in Job, JobStep(j)
    PROVE  Inv'
<1>u. UNCHANGED cloud
  BY DEF JobStep
<1>. USE <1>u
<1>1. CASE BeginRunAll(j)
  <2>1. CASE Parses(j)
    <3>1. [u \in Unit |-> IF u \in Scope(j) THEN "queued" ELSE "none"] \in [Unit -> Progress]
      BY DEF Progress
    <3>. QED  BY <1>1, <2>1, <3>1
           DEF BeginRunAll, Inv, StackTypes, JobTypes, BusyHasKind, stackVars, Phases
  <2>2. CASE ~Parses(j)
    BY <1>1, <2>2, RunAllFailedInv DEF BeginRunAll, Inv, StackTypes, stackVars
  <2>. QED  BY <2>1, <2>2
<1>2. ASSUME NEW u \in Unit, UnitStep(j, u)
      PROVE  Inv'
  BY <1>2, UnitStepInv
<1>3. CASE EndRunAll(j)
  <2>1. CASE \E u \in Scope(j) : prog[j][u] # "ok"
    BY <1>3, <2>1, RunAllFailedInv DEF EndRunAll, Inv, StackTypes, stackVars
  <2>2. CASE /\ ~(\E u \in Scope(j) : prog[j][u] # "ok")
             /\ kind[j] = "deploy" /\ at[j] \in StepAfter[cloud]
    BY <1>3, <2>2 DEF EndRunAll, Inv, StackTypes, JobTypes, BusyHasKind, stackVars, Phases
  <2>3. CASE /\ ~(\E u \in Scope(j) : prog[j][u] # "ok")
             /\ ~(kind[j] = "deploy" /\ at[j] \in StepAfter[cloud])
    BY <1>3, <2>3, NextDirInv DEF EndRunAll, Inv, StackTypes, stackVars
  <2>. QED  BY <2>1, <2>2, <2>3
<1>4. CASE StepEnds(j)
  BY <1>4, NextDirInv, EndJobInv DEF StepEnds, Inv, StackTypes, stackVars
<1>5. CASE DrainEnds(j)
  <2>1. CASE EndJob(j)
    BY <1>5, <2>1, EndJobInv DEF DrainEnds, Inv, StackTypes, stackVars
  <2>2. CASE ~EndJob(j)
    BY <1>5, <2>2
    DEF DrainEnds, Inv, StackTypes, JobTypes, BusyHasKind, stackVars, Phases
  <2>. QED  BY <2>1, <2>2
<1>. QED  BY <1>1, <1>2, <1>3, <1>4, <1>5 DEF JobStep

LEMMA KilledInv ==
    ASSUME Inv, NEW j \in Job, Killed(j)
    PROVE  Inv'
<1>u. UNCHANGED cloud
  BY DEF Killed
<1>. USE <1>u
<1>1. JobTypes' /\ BusyHasKind'
  BY EndJobInv DEF Killed, Inv
<1>2. StackTypes'
  BY DEF Killed, Inv, StackTypes
<1>. QED  BY <1>1, <1>2 DEF Inv

LEMMA NextInv == Inv /\ [Next]_vars => Inv'
<1>. SUFFICES ASSUME Inv, [Next]_vars
              PROVE  Inv'
  OBVIOUS
<1>1. CASE Next
  BY <1>1, DispatchInv, JobStepInv, KilledInv DEF Next
<1>2. CASE UNCHANGED vars
  BY <1>2 DEF vars, Inv, StackTypes, JobTypes, BusyHasKind
<1>. QED  BY <1>1, <1>2

THEOREM AlwaysInv == Spec => []Inv
BY InitInv, NextInv, PTL DEF Spec

(* The variables of RunAll keep their types: in particular the loop index     *)
(* never leaves the directories, upwards or downwards.                        *)
THEOREM TypeCorrect == Spec => []TypeOK
<1>1. Inv => TypeOK
  BY DEF Inv, StackTypes, JobTypes, TypeOK
<1>. QED  BY <1>1, AlwaysInv, PTL

-----------------------------------------------------------------------------
(* The state lock *)

(* A step that ends or restarts a run-all of j takes units out of "running". *)
LEMMA QuietProg ==
    ASSUME Inv, NEW j \in Job, phase[j] # "idle",
           NextDir(j) \/ EndJob(j) \/ RunAllFailed(j)
    PROVE  prog' = [prog EXCEPT ![j] = NoProgress]
BY Zenon DEF NextDir, EndJob, RunAllFailed

LEMMA KeepsRunners ==
    ASSUME UNCHANGED cloud, Inv, RunnerHoldsLock, NEW j \in Job, lock' = lock,
           NEW p, prog' = [prog EXCEPT ![j] = p],
           \A u \in Unit : p[u] # "running"
    PROVE  RunnerHoldsLock'
BY DEF RunnerHoldsLock, Inv, JobTypes

LEMMA SettleKeepsRunners ==
    ASSUME UNCHANGED cloud, Inv, RunnerHoldsLock, NEW j \in Job, NEW u \in Unit, lock' = lock,
           NEW p, p # "running", Settle(j, u, p)
    PROVE  RunnerHoldsLock'
BY DEF RunnerHoldsLock, Settle, Inv, JobTypes

LEMMA UnitStepRunners ==
    ASSUME UNCHANGED cloud, Inv, RunnerHoldsLock, NEW j \in Job, NEW u \in Unit, UnitStep(j, u)
    PROVE  RunnerHoldsLock'
<1>1. CASE UnitStarts(j, u)
  <2>1. \A i \in Job : prog[i][u] # "running"
    BY <1>1, JobAssumption DEF UnitStarts, RunnerHoldsLock
  <2>. QED  BY <1>1, <2>1 DEF UnitStarts, Settle, RunnerHoldsLock, Inv, StackTypes, JobTypes
<1>2. CASE UnitLacksOutputs(j, u)
  BY <1>2, SettleKeepsRunners DEF UnitLacksOutputs, stackVars
<1>3. CASE LockTimesOut(j, u)
  BY <1>3, SettleKeepsRunners DEF LockTimesOut, stackVars
<1>4. CASE UnitSucceeds(j, u)
  <2>1. \A i \in Job \ {j} : prog[i][u] # "running"
    BY <1>4 DEF UnitSucceeds, RunnerHoldsLock
  <2>. QED  BY <1>4, <2>1 DEF UnitSucceeds, Settle, RunnerHoldsLock, Inv, StackTypes, JobTypes
<1>5. CASE UnitFails(j, u)
  <2>1. \A i \in Job \ {j} : prog[i][u] # "running"
    BY <1>5 DEF UnitFails, RunnerHoldsLock
  <2>. QED  BY <1>5, <2>1 DEF UnitFails, Settle, RunnerHoldsLock, Inv, StackTypes, JobTypes
<1>6. CASE UnitSkipped(j, u)
  BY <1>6, SettleKeepsRunners DEF UnitSkipped, stackVars
<1>. QED  BY <1>1, <1>2, <1>3, <1>4, <1>5, <1>6 DEF UnitStep

LEMMA JobStepRunners ==
    ASSUME Inv, RunnerHoldsLock, NEW j \in Job, JobStep(j)
    PROVE  RunnerHoldsLock'
<1>u. UNCHANGED cloud
  BY DEF JobStep
<1>. USE <1>u
<1>0. \A u \in Unit : NoProgress[u] # "running"
  BY DEF NoProgress
<1>1. CASE BeginRunAll(j)
  <2>. DEFINE queued == [u \in Unit |-> IF u \in Scope(j) THEN "queued" ELSE "none"]
  <2>1. CASE Parses(j)
    <3>1. prog' = [prog EXCEPT ![j] = queued] /\ lock' = lock
      BY <1>1, <2>1 DEF BeginRunAll, stackVars
    <3>2. \A u \in Unit : queued[u] # "running"
      OBVIOUS
    <3>. HIDE DEF queued
    <3>. QED  BY <3>1, <3>2, KeepsRunners
  <2>2. CASE ~Parses(j)
    BY <1>0, <1>1, <2>2, QuietProg, KeepsRunners DEF BeginRunAll, stackVars
  <2>. QED  BY <2>1, <2>2
<1>2. ASSUME NEW u \in Unit, UnitStep(j, u)
      PROVE  RunnerHoldsLock'
  BY <1>2, UnitStepRunners
<1>3. CASE EndRunAll(j)
  <2>1. lock' = lock /\ phase[j] # "idle"
    BY <1>3 DEF EndRunAll, stackVars
  <2>2. CASE NextDir(j) \/ RunAllFailed(j)
    BY <1>0, <2>1, <2>2, QuietProg, KeepsRunners
  <2>3. CASE ~(NextDir(j) \/ RunAllFailed(j))
    <3>1. prog' = prog
      BY <1>3, <2>3 DEF EndRunAll
    <3>. QED  BY <2>1, <3>1 DEF RunnerHoldsLock
  <2>. QED  BY <2>2, <2>3
<1>4. CASE StepEnds(j)
  BY <1>0, <1>4, QuietProg, KeepsRunners DEF StepEnds, stackVars
<1>5. CASE DrainEnds(j)
  <2>1. CASE EndJob(j)
    BY <1>0, <1>5, <2>1, QuietProg, KeepsRunners DEF DrainEnds, stackVars
  <2>2. CASE ~EndJob(j)
    BY <1>5, <2>2 DEF DrainEnds, stackVars, RunnerHoldsLock
  <2>. QED  BY <2>1, <2>2
<1>. QED  BY <1>1, <1>2, <1>3, <1>4, <1>5 DEF JobStep

LEMMA KilledRunners ==
    ASSUME Inv, RunnerHoldsLock, NEW j \in Job, Killed(j)
    PROVE  RunnerHoldsLock'
<1>u. UNCHANGED cloud
  BY DEF Killed
<1>. USE <1>u
<1>. SUFFICES ASSUME NEW i \in Job, NEW u \in Unit, prog'[i][u] = "running"
              PROVE  lock'[u] = i
  BY DEF RunnerHoldsLock
<1>1. prog' = [prog EXCEPT ![j] = NoProgress]
  BY DEF Killed, EndJob
<1>2. i # j /\ prog[i][u] = "running"
  BY <1>1 DEF NoProgress, Inv, JobTypes
<1>3. u \notin Running(j)
  BY <1>2 DEF Running, RunnerHoldsLock
<1>4. lock'[u] = lock[u]
  BY <1>3 DEF Killed, Running
<1>. QED  BY <1>2, <1>4 DEF RunnerHoldsLock

LEMMA NextRunners == Inv /\ RunnerHoldsLock /\ [Next]_vars => RunnerHoldsLock'
<1>. SUFFICES ASSUME Inv, RunnerHoldsLock, [Next]_vars
              PROVE  RunnerHoldsLock'
  OBVIOUS
<1>1. ASSUME NEW j \in Job, Dispatch(j)
      PROVE  RunnerHoldsLock'
  BY <1>1 DEF Dispatch, DispatchDeploy, DispatchDestroy, MakeApply, MakeDestroy, Start,
     RunnerHoldsLock
<1>2. CASE UNCHANGED vars
  BY <1>2 DEF vars, RunnerHoldsLock
<1>. QED  BY <1>1, <1>2, JobStepRunners, KilledRunners DEF Next

(* The state lock is enough for "concurrent-apply protection" (ADR-0004):     *)
(* whatever overlaps and whatever is killed, a unit has one Terraform on it.  *)
THEOREM LockExclusionHolds == Spec => []LockExclusion
<1>1. Init => RunnerHoldsLock
  BY DEF Init, RunnerHoldsLock, NoProgress
<1>2. RunnerHoldsLock => LockExclusion
  BY DEF RunnerHoldsLock, LockExclusion
<1>. QED  BY <1>1, <1>2, AlwaysInv, NextRunners, PTL DEF Spec

-----------------------------------------------------------------------------
(* The other way round: no lock without a runner *)

(* A run-all settles the units of its scope, and Terraform runs on them only  *)
(* while it is under way.                                                     *)
RunsInScope ==
    \A j \in Job, u \in Unit :
        /\ prog[j][u] # "none" => phase[j] \in {"run", "step"} /\ u \in Scope(j)
        /\ prog[j][u] = "running" => phase[j] = "run"

LEMMA SettleInScope ==
    ASSUME UNCHANGED cloud, Inv, RunsInScope, NEW j \in Job, NEW u \in Unit, NEW p \in Progress,
           Settle(j, u, p), prog[j][u] # "none", phase[j] = "run"
    PROVE  RunsInScope'
<1>. SUFFICES ASSUME NEW i \in Job, NEW v \in Unit
              PROVE  /\ prog'[i][v] # "none" => phase[i] \in {"run", "step"} /\ v \in Scope(i)
                     /\ prog'[i][v] = "running" => phase[i] = "run"
  BY DEF RunsInScope, Scope, Settle, DirOf
<1>1. prog' = [prog EXCEPT ![j][u] = p]
  BY DEF Settle
<1>2. CASE i = j /\ v = u
  BY <1>1, <1>2 DEF RunsInScope, Inv, JobTypes
<1>3. CASE ~(i = j /\ v = u)
  <2>1. prog'[i][v] = prog[i][v]
    BY <1>1, <1>3 DEF Inv, JobTypes
  <2>. QED  BY <2>1 DEF RunsInScope
<1>. QED  BY <1>2, <1>3

(* A job that goes on to something else leaves nothing of its run-all. *)
LEMMA OthersInScope ==
    ASSUME UNCHANGED cloud, Inv, RunsInScope, NEW j \in Job,
           \A i \in Job \ {j} : UNCHANGED <<kind[i], at[i], phase[i], prog[i]>>,
           \A u \in Unit : prog'[j][u] = "none"
    PROVE  RunsInScope'
BY DEF RunsInScope, Scope, DirOf

LEMMA MovesInScope ==
    ASSUME UNCHANGED cloud, Inv, RunsInScope, NEW j \in Job, phase[j] # "idle",
           NextDir(j) \/ EndJob(j) \/ RunAllFailed(j)
    PROVE  RunsInScope'
<1>1. prog' = [prog EXCEPT ![j] = NoProgress]
  BY QuietProg
<1>2. \A i \in Job \ {j} : UNCHANGED <<kind[i], at[i], phase[i], prog[i]>>
  BY DEF NextDir, EndJob, RunAllFailed, Inv, JobTypes
<1>3. \A u \in Unit : prog'[j][u] = "none"
  BY <1>1 DEF NoProgress, Inv, JobTypes
<1>. QED  BY <1>2, <1>3, OthersInScope

LEMMA UnitStepInScope ==
    ASSUME UNCHANGED cloud, Inv, RunsInScope, NEW j \in Job, NEW u \in Unit, UnitStep(j, u)
    PROVE  RunsInScope'
<1>. USE DEF Progress
<1>1. CASE UnitStarts(j, u) \/ UnitLacksOutputs(j, u) \/ LockTimesOut(j, u) \/ UnitSkipped(j, u)
  <2>1. prog[j][u] = "queued" /\ phase[j] = "run"
    BY <1>1 DEF UnitStarts, UnitLacksOutputs, LockTimesOut, UnitSkipped, Ready
  <2>. QED  BY <1>1, <2>1, SettleInScope DEF UnitStarts, UnitLacksOutputs, LockTimesOut, UnitSkipped
<1>2. CASE UnitSucceeds(j, u) \/ UnitFails(j, u)
  <2>1. prog[j][u] = "running" /\ phase[j] = "run"
    BY <1>2 DEF UnitSucceeds, UnitFails, RunsInScope
  <2>. QED  BY <1>2, <2>1, SettleInScope DEF UnitSucceeds, UnitFails
<1>. QED  BY <1>1, <1>2 DEF UnitStep

LEMMA JobStepInScope ==
    ASSUME Inv, RunsInScope, NEW j \in Job, JobStep(j)
    PROVE  RunsInScope'
<1>u. UNCHANGED cloud
  BY DEF JobStep
<1>. USE <1>u
<1>1. CASE BeginRunAll(j)
  <2>1. CASE Parses(j)
    <3>1. /\ UNCHANGED <<kind, at>>
          /\ phase' = [phase EXCEPT ![j] = "run"]
          /\ prog' = [prog EXCEPT ![j] =
                         [u \in Unit |-> IF u \in Scope(j) THEN "queued" ELSE "none"]]
      BY <1>1, <2>1 DEF BeginRunAll
    <3>2. \A u \in Unit : /\ prog'[j][u] # "none" => u \in Scope(j)
                          /\ prog'[j][u] # "running"
      BY <3>1 DEF Inv, JobTypes
    <3>3. \A i \in Job \ {j} : UNCHANGED <<phase[i], prog[i]>>
      BY <3>1 DEF Inv, JobTypes
    <3>4. phase'[j] = "run"
      BY <3>1 DEF Inv, JobTypes
    <3>. QED  BY <3>1, <3>2, <3>3, <3>4 DEF RunsInScope, Scope, DirOf
  <2>2. CASE ~Parses(j)
    BY <1>1, <2>2, MovesInScope DEF BeginRunAll
  <2>. QED  BY <2>1, <2>2
<1>2. ASSUME NEW u \in Unit, UnitStep(j, u)
      PROVE  RunsInScope'
  BY <1>2, UnitStepInScope
<1>3. CASE EndRunAll(j)
  <2>1. phase[j] = "run"
    BY <1>3 DEF EndRunAll
  <2>2. CASE NextDir(j) \/ RunAllFailed(j)
    BY <2>1, <2>2, MovesInScope
  <2>3. CASE ~(NextDir(j) \/ RunAllFailed(j))
    <3>1. UNCHANGED <<kind, at, prog>> /\ phase' = [phase EXCEPT ![j] = "step"]
      BY <1>3, <2>3 DEF EndRunAll
    <3>2. \A u \in Unit : prog[j][u] # "running"
      BY <1>3 DEF EndRunAll, RunsInScope
    <3>3. phase'[j] = "step" /\ \A i \in Job \ {j} : phase'[i] = phase[i]
      BY <3>1 DEF Inv, JobTypes
    <3>. QED  BY <3>1, <3>2, <3>3 DEF RunsInScope, Scope, DirOf
  <2>. QED  BY <2>2, <2>3
<1>4. CASE StepEnds(j)
  BY <1>4, MovesInScope DEF StepEnds
<1>5. CASE DrainEnds(j)
  <2>1. CASE EndJob(j)
    BY <1>5, <2>1, MovesInScope DEF DrainEnds
  <2>2. CASE ~EndJob(j)
    <3>1. /\ UNCHANGED <<kind, at, prog>> /\ phase' = [phase EXCEPT ![j] = "begin"]
          /\ phase[j] = "drain"
      BY <1>5, <2>2 DEF DrainEnds
    <3>2. \A u \in Unit : prog'[j][u] = "none"
      BY <3>1 DEF RunsInScope
    <3>3. \A i \in Job \ {j} : UNCHANGED <<kind[i], at[i], phase[i], prog[i]>>
      BY <3>1 DEF Inv, JobTypes
    <3>. QED  BY <3>2, <3>3, OthersInScope
  <2>. QED  BY <2>1, <2>2
<1>. QED  BY <1>1, <1>2, <1>3, <1>4, <1>5 DEF JobStep

LEMMA NextInScope == Inv /\ RunsInScope /\ [Next]_vars => RunsInScope'
<1>. SUFFICES ASSUME Inv, RunsInScope, [Next]_vars
              PROVE  RunsInScope'
  OBVIOUS
<1>1. ASSUME NEW j \in Job, Dispatch(j)
      PROVE  RunsInScope'
  <2>1. /\ UNCHANGED <<cloud, prog>> /\ Idle(j)
        /\ \A i \in Job \ {j} : UNCHANGED <<kind[i], at[i], phase[i], prog[i]>>
    BY <1>1 DEF Dispatch, DispatchDeploy, DispatchDestroy, MakeApply, MakeDestroy, Start,
       Inv, JobTypes
  <2>2. \A u \in Unit : prog'[j][u] = "none"
    BY <2>1 DEF RunsInScope, Idle
  <2>. QED  BY <2>1, <2>2, OthersInScope
<1>2. ASSUME NEW j \in Job, Killed(j)
      PROVE  RunsInScope'
  BY <1>2, MovesInScope DEF Killed, Idle
<1>3. CASE UNCHANGED vars
  BY <1>3 DEF vars, RunsInScope, Scope, DirOf
<1>. QED  BY <1>1, <1>2, <1>3, JobStepInScope DEF Next

(* The end of a run-all finds nothing running, whatever it leads to. *)
LEMMA QuietEnds ==
    ASSUME UNCHANGED cloud, Inv, NoOrphanLock, NEW j \in Job, UNCHANGED lock,
           \A u \in Unit : prog[j][u] # "running",
           \A i \in Job \ {j} : UNCHANGED prog[i]
    PROVE  NoOrphanLock'
BY DEF NoOrphanLock, Inv, JobTypes

LEMMA OnlyOwnProg ==
    ASSUME Inv, NEW j \in Job, JobStep(j)
    PROVE  \A i \in Job \ {j} : UNCHANGED prog[i]
<1>1. ASSUME NEW u \in Unit, UnitStep(j, u)
      PROVE  \A i \in Job \ {j} : UNCHANGED prog[i]
  BY <1>1 DEF UnitStep, UnitStarts, UnitLacksOutputs, LockTimesOut, UnitSucceeds, UnitFails,
     UnitSkipped, Settle, Inv, JobTypes
<1>2. CASE BeginRunAll(j) \/ EndRunAll(j) \/ StepEnds(j) \/ DrainEnds(j)
  <2>1. prog' = prog \/ \E p : prog' = [prog EXCEPT ![j] = p]
    BY <1>2, Zenon DEF BeginRunAll, EndRunAll, StepEnds, DrainEnds, RunAllFailed, NextDir, EndJob
  <2>. QED  BY <2>1 DEF Inv, JobTypes
<1>. QED  BY <1>1, <1>2 DEF JobStep

LEMMA UnitStepNoOrphan ==
    ASSUME UNCHANGED cloud, Inv, RunnerHoldsLock, NoOrphanLock,
           NEW j \in Job, NEW u \in Unit, UnitStep(j, u)
    PROVE  NoOrphanLock'
<1>1. CASE UnitStarts(j, u)
  BY <1>1, JobAssumption DEF UnitStarts, Settle, NoOrphanLock, Inv, StackTypes, JobTypes
<1>2. CASE UnitLacksOutputs(j, u) \/ LockTimesOut(j, u) \/ UnitSkipped(j, u)
  <2>1. prog[j][u] = "queued" /\ lock' = lock
    BY <1>2 DEF UnitLacksOutputs, LockTimesOut, UnitSkipped, Ready, stackVars
  <2>2. PICK p : prog' = [prog EXCEPT ![j][u] = p]
    BY <1>2 DEF UnitLacksOutputs, LockTimesOut, UnitSkipped, Settle
  <2>. QED  BY <2>1, <2>2 DEF NoOrphanLock, Inv, JobTypes
<1>3. CASE UnitSucceeds(j, u) \/ UnitFails(j, u)
  <2>1. lock' = [lock EXCEPT ![u] = Free]
    BY <1>3 DEF UnitSucceeds, UnitFails
  <2>2. PICK p : prog' = [prog EXCEPT ![j][u] = p]
    BY <1>3 DEF UnitSucceeds, UnitFails, Settle
  <2>. QED  BY <2>1, <2>2, JobAssumption DEF NoOrphanLock, Inv, StackTypes, JobTypes
<1>. QED  BY <1>1, <1>2, <1>3 DEF UnitStep

LEMMA JobStepNoOrphan ==
    ASSUME Inv, RunsInScope, RunnerHoldsLock, NoOrphanLock, NEW j \in Job, JobStep(j)
    PROVE  NoOrphanLock'
<1>u. UNCHANGED cloud
  BY DEF JobStep
<1>1. ASSUME NEW u \in Unit, UnitStep(j, u)
      PROVE  NoOrphanLock'
  BY <1>u, <1>1, UnitStepNoOrphan
<1>2. CASE BeginRunAll(j) \/ EndRunAll(j) \/ StepEnds(j) \/ DrainEnds(j)
  <2>1. lock' = lock
    BY <1>2 DEF BeginRunAll, EndRunAll, StepEnds, DrainEnds, stackVars
  <2>2. \A u \in Unit : prog[j][u] # "running"
    BY <1>2 DEF BeginRunAll, EndRunAll, StepEnds, DrainEnds, RunsInScope
  <2>. QED  BY <1>u, <2>1, <2>2, OnlyOwnProg, QuietEnds
<1>. QED  BY <1>1, <1>2 DEF JobStep

LEMMA KilledNoOrphan ==
    ASSUME Inv, NoOrphanLock, NEW j \in Job, Killed(j)
    PROVE  NoOrphanLock'
<1>u. UNCHANGED cloud
  BY DEF Killed
<1>. SUFFICES ASSUME NEW u \in Unit, lock'[u] \in Job
              PROVE  prog'[lock'[u]][u] = "running"
  BY <1>u DEF NoOrphanLock
<1>1. u \notin Running(j) /\ lock'[u] = lock[u]
  BY JobAssumption DEF Killed
<1>2. lock[u] # j
  BY <1>1 DEF NoOrphanLock, Running
<1>3. prog' = [prog EXCEPT ![j] = NoProgress]
  BY DEF Killed, EndJob
<1>. QED  BY <1>1, <1>2, <1>3 DEF NoOrphanLock, Inv, JobTypes

LEMMA NextNoOrphan ==
    Inv /\ RunsInScope /\ RunnerHoldsLock /\ NoOrphanLock /\ [Next]_vars => NoOrphanLock'
<1>. SUFFICES ASSUME Inv, RunsInScope, RunnerHoldsLock, NoOrphanLock, [Next]_vars
              PROVE  NoOrphanLock'
  OBVIOUS
<1>1. ASSUME NEW j \in Job, Dispatch(j)
      PROVE  NoOrphanLock'
  BY <1>1 DEF Dispatch, DispatchDeploy, DispatchDestroy, MakeApply, MakeDestroy, Start,
     NoOrphanLock
<1>2. CASE UNCHANGED vars
  BY <1>2 DEF vars, NoOrphanLock
<1>. QED  BY <1>1, <1>2, JobStepNoOrphan, KilledNoOrphan DEF Next

(* Every lock that names a job is held by Terraform of that job: whatever     *)
(* fails, overlaps or is killed, a job that has ended holds nobody up.        *)
THEOREM NoOrphanLockHolds == Spec => []NoOrphanLock
<1>1. Init => RunsInScope /\ RunnerHoldsLock /\ NoOrphanLock
  BY JobAssumption DEF Init, RunsInScope, RunnerHoldsLock, NoOrphanLock, NoProgress
<1>. QED  BY <1>1, AlwaysInv, NextInScope, NextRunners, NextNoOrphan, PTL DEF Spec

-----------------------------------------------------------------------------
(* Jobs only move on *)

Same(j) == UNCHANGED <<kind[j], at[j], phase[j], prog[j], retried[j]>>

LEMMA AheadOf ==
    Ahead["begin"] = 2 /\ Ahead["run"] = 1 /\ Ahead["step"] = 0 /\ Ahead["drain"] = 0
BY DEF Ahead

(* The drain comes before the retry, never after it. *)
DrainsOnce == \A j \in Job : phase[j] = "drain" => ~retried[j]

LEMMA NextDrainsOnce == Inv /\ DrainsOnce /\ [Next]_vars => DrainsOnce'
<1>. SUFFICES ASSUME Inv, DrainsOnce, [Next]_vars
              PROVE  DrainsOnce'
  OBVIOUS
<1>. USE DEF DrainsOnce
<1>1. ASSUME NEW j \in Job, EndJob(j) \/ RunAllFailed(j) \/ NextDir(j)
      PROVE  DrainsOnce'
  BY <1>1 DEF EndJob, RunAllFailed, NextDir, Inv, JobTypes
<1>2. ASSUME NEW j \in Job, Dispatch(j)
      PROVE  DrainsOnce'
  BY <1>2 DEF Dispatch, DispatchDeploy, DispatchDestroy, MakeApply, MakeDestroy, Start,
     Inv, JobTypes
<1>3. ASSUME NEW j \in Job, BeginRunAll(j)
      PROVE  DrainsOnce'
  <2>1. CASE Parses(j)
    BY <1>3, <2>1 DEF BeginRunAll, Inv, JobTypes
  <2>2. CASE ~Parses(j)
    BY <1>1, <1>3, <2>2 DEF BeginRunAll
  <2>. QED  BY <2>1, <2>2
<1>4. ASSUME NEW j \in Job, NEW u \in Unit, UnitStep(j, u)
      PROVE  DrainsOnce'
  <2>1. UNCHANGED <<phase, retried>>
    BY <1>4 DEF UnitStep, UnitStarts, UnitLacksOutputs, LockTimesOut, UnitSucceeds, UnitFails,
       UnitSkipped, Settle
  <2>. QED  BY <2>1
<1>5. ASSUME NEW j \in Job, EndRunAll(j)
      PROVE  DrainsOnce'
  <2>1. CASE NextDir(j) \/ RunAllFailed(j)
    BY <1>1, <2>1
  <2>2. CASE ~(NextDir(j) \/ RunAllFailed(j))
    BY <1>5, <2>2 DEF EndRunAll, Inv, JobTypes
  <2>. QED  BY <2>1, <2>2
<1>6. ASSUME NEW j \in Job, StepEnds(j) \/ DrainEnds(j) \/ Killed(j)
      PROVE  DrainsOnce'
  <2>1. CASE EndJob(j) \/ NextDir(j)
    BY <1>1, <2>1
  <2>2. CASE ~(EndJob(j) \/ NextDir(j))
    BY <1>6, <2>2 DEF StepEnds, DrainEnds, Killed, Inv, JobTypes
  <2>. QED  BY <2>1, <2>2
<1>7. CASE UNCHANGED vars
  BY <1>7 DEF vars
<1>. QED  BY <1>2, <1>3, <1>4, <1>5, <1>6, <1>7 DEF Next, JobStep

LEMMA EndJobEnds ==
    ASSUME Inv, NEW j \in Job, EndJob(j)
    PROVE  Closer(j)
BY DEF EndJob, Closer, Idle, Inv, JobTypes

LEMMA NextDirCloser ==
    ASSUME Inv, NEW j \in Job, phase[j] # "idle", NextDir(j)
    PROVE  Closer(j)
<1>1. CASE InLastDir(j)
  BY <1>1, EndJobEnds DEF NextDir
<1>2. CASE ~InLastDir(j)
  <2>1. /\ at' = [at EXCEPT ![j] = Following(j)]
        /\ UNCHANGED kind
    BY <1>2 DEF NextDir
  <2>2. at'[j] = Following(j) /\ kind'[j] = kind[j]
    BY <2>1 DEF Inv, JobTypes
  <2>3. at[j] \in Nat /\ DirCount \in Nat
    BY StackAssumption DEF Inv, JobTypes
  <2>4. DirsAhead(j)' < DirsAhead(j)
    <3>1. CASE kind[j] = "destroy"
      BY <2>2, <2>3, <3>1 DEF DirsAhead, Following
    <3>2. CASE kind[j] # "destroy"
      BY <2>2, <2>3, <3>2 DEF DirsAhead, Following
    <3>. QED  BY <3>1, <3>2
  <2>. QED  BY <2>2, <2>4 DEF Closer
<1>. QED  BY <1>1, <1>2

(* Within an attempt, from one place of the iteration to a later one. *)
LEMMA PlaceCloser ==
    ASSUME Inv, NEW j \in Job, UNCHANGED <<kind, at, retried>>,
           NEW p, phase' = [phase EXCEPT ![j] = p], Ahead[p] < Ahead[phase[j]]
    PROVE  Closer(j)
<1>1. phase'[j] = p
  BY DEF Inv, JobTypes
<1>. QED  BY <1>1 DEF Closer, SameAttempt, SameIteration

LEMMA RunAllFailedCloser ==
    ASSUME Inv, NEW j \in Job, phase[j] \in {"begin", "run"}, RunAllFailed(j)
    PROVE  Closer(j)
<1>1. CASE kind[j] = "destroy" /\ ~retried[j]
  <2>1. phase' = [phase EXCEPT ![j] = "drain"] /\ UNCHANGED <<kind, at, retried>>
    BY <1>1, Zenon DEF RunAllFailed
  <2>2. Ahead["drain"] < Ahead[phase[j]]
    BY AheadOf
  <2>. QED  BY <2>1, <2>2, PlaceCloser
<1>2. CASE ~(kind[j] = "destroy" /\ ~retried[j])
  BY <1>2, EndJobEnds, Zenon DEF RunAllFailed
<1>. QED  BY <1>1, <1>2

(* A unit settles: one fewer is queued, or one fewer running. *)
LEMMA UnitStepCloser ==
    ASSUME Inv, UNCHANGED cloud, NEW j \in Job, NEW u \in Unit, UnitStep(j, u)
    PROVE  Closer(j)
<1>0. ASSUME NEW p, Settle(j, u, p)
      PROVE  /\ SameAttempt(j) /\ UNCHANGED phase[j]
             /\ prog'[j] = [prog[j] EXCEPT ![u] = p]
             /\ prog[j] \in [Unit -> Progress]
  BY <1>0 DEF Settle, SameAttempt, SameIteration, Inv, JobTypes
<1>1. ASSUME NEW p, p # "queued", Settle(j, u, p), prog[j][u] = "queued"
      PROVE  Closer(j)
  <2>1. Queued(j)' = Queued(j) \ {u} /\ u \in Queued(j)
    BY <1>0, <1>1 DEF Queued
  <2>. QED  BY <1>0, <1>1, <2>1 DEF Closer
<1>2. ASSUME NEW p, p \notin {"queued", "running"}, Settle(j, u, p), prog[j][u] = "running"
      PROVE  Closer(j)
  <2>1. Queued(j)' = Queued(j)
    BY <1>0, <1>2 DEF Queued
  <2>2. Running(j)' = Running(j) \ {u} /\ u \in Running(j)
    BY <1>0, <1>2 DEF Running
  <2>. QED  BY <1>0, <1>2, <2>1, <2>2 DEF Closer
<1>3. CASE UnitStarts(j, u) \/ UnitLacksOutputs(j, u) \/ LockTimesOut(j, u) \/ UnitSkipped(j, u)
  BY <1>1, <1>3 DEF UnitStarts, UnitLacksOutputs, LockTimesOut, UnitSkipped, Ready
<1>4. CASE UnitSucceeds(j, u) \/ UnitFails(j, u)
  BY <1>2, <1>4 DEF UnitSucceeds, UnitFails
<1>. QED  BY <1>3, <1>4 DEF UnitStep

LEMMA JobStepCloser ==
    ASSUME Inv, DrainsOnce, NEW j \in Job, JobStep(j)
    PROVE  Closer(j)
<1>1. CASE BeginRunAll(j)
  <2>1. phase[j] = "begin"
    BY <1>1 DEF BeginRunAll
  <2>2. CASE Parses(j)
    <3>1. phase' = [phase EXCEPT ![j] = "run"] /\ UNCHANGED <<kind, at, retried>>
      BY <1>1, <2>2 DEF BeginRunAll
    <3>2. Ahead["run"] < Ahead[phase[j]]
      BY <2>1, AheadOf
    <3>. QED  BY <3>1, <3>2, PlaceCloser
  <2>3. CASE ~Parses(j)
    BY <1>1, <2>1, <2>3, RunAllFailedCloser DEF BeginRunAll
  <2>. QED  BY <2>2, <2>3
<1>2. ASSUME NEW u \in Unit, UnitStep(j, u)
      PROVE  Closer(j)
  BY <1>2, UnitStepCloser DEF JobStep
<1>3. CASE EndRunAll(j)
  <2>1. phase[j] = "run"
    BY <1>3 DEF EndRunAll
  <2>2. CASE NextDir(j)
    BY <2>1, <2>2, NextDirCloser
  <2>3. CASE RunAllFailed(j)
    BY <2>1, <2>3, RunAllFailedCloser
  <2>4. CASE ~NextDir(j) /\ ~RunAllFailed(j)
    <3>1. phase' = [phase EXCEPT ![j] = "step"] /\ UNCHANGED <<kind, at, retried>>
      BY <1>3, <2>4 DEF EndRunAll
    <3>2. Ahead["step"] < Ahead[phase[j]]
      BY <2>1, AheadOf
    <3>. QED  BY <3>1, <3>2, PlaceCloser
  <2>. QED  BY <2>2, <2>3, <2>4
<1>4. CASE StepEnds(j)
  BY <1>4, NextDirCloser, EndJobEnds DEF StepEnds
<1>5. CASE DrainEnds(j)
  <2>1. CASE EndJob(j)
    BY <2>1, EndJobEnds
  <2>2. CASE ~EndJob(j)
    <3>1. retried' = [retried EXCEPT ![j] = TRUE] /\ UNCHANGED <<kind, at>>
      BY <1>5, <2>2 DEF DrainEnds
    <3>2. ~retried[j] /\ retried'[j]
      BY <1>5, <3>1 DEF DrainEnds, DrainsOnce, Inv, JobTypes
    <3>. QED  BY <3>1, <3>2 DEF Closer, SameIteration
  <2>. QED  BY <2>1, <2>2
<1>. QED  BY <1>1, <1>2, <1>3, <1>4, <1>5 DEF JobStep

(* What one job does leaves every other where it is. *)
LEMMA OthersStay ==
    ASSUME Inv, NEW i \in Job, Dispatch(i) \/ JobStep(i) \/ Killed(i),
           NEW j \in Job, j # i
    PROVE  Same(j)
<1>1. CASE Dispatch(i)
  BY <1>1 DEF Dispatch, DispatchDeploy, DispatchDestroy, MakeApply, MakeDestroy, Start,
     Same, Inv, JobTypes
<1>2. EndJob(i) \/ RunAllFailed(i) \/ NextDir(i) => Same(j)
  BY DEF EndJob, RunAllFailed, NextDir, Same, Inv, JobTypes
<1>3. CASE JobStep(i)
  BY <1>2, <1>3 DEF JobStep, BeginRunAll, UnitStep, UnitStarts, UnitLacksOutputs, LockTimesOut,
     UnitSucceeds, UnitFails, UnitSkipped, Settle, EndRunAll, StepEnds, DrainEnds,
     Same, Inv, JobTypes
<1>4. CASE Killed(i)
  BY <1>2, <1>4 DEF Killed
<1>. QED  BY <1>1, <1>3, <1>4

(* For every stack, every set of jobs and every overlap: a job that has begun *)
(* comes closer to its end with every step it takes, and with no other.       *)
THEOREM JobsOnlyMoveOnHolds == Spec => JobsOnlyMoveOn
<1>1. Inv /\ DrainsOnce /\ [Next]_vars => \A j \in Job : ~Idle(j) => Same(j) \/ Closer(j)
  <2>. SUFFICES ASSUME Inv, DrainsOnce, [Next]_vars, NEW j \in Job, ~Idle(j)
                PROVE  Same(j) \/ Closer(j)
    OBVIOUS
  <2>1. CASE UNCHANGED vars
    BY <2>1 DEF vars, Same
  <2>2. ASSUME NEW i \in Job, Dispatch(i) \/ JobStep(i) \/ Killed(i)
        PROVE  Same(j) \/ Closer(j)
    <3>1. CASE i # j
      BY <2>2, <3>1, OthersStay
    <3>2. CASE i = j /\ JobStep(i)
      BY <3>2, JobStepCloser
    <3>3. CASE i = j /\ Killed(i)
      BY <3>3, EndJobEnds DEF Killed
    <3>4. CASE i = j /\ Dispatch(i)
      BY <3>4 DEF Dispatch, DispatchDeploy, DispatchDestroy, MakeApply, MakeDestroy, Start
    <3>. QED  BY <2>2, <3>1, <3>2, <3>3, <3>4
  <2>. QED  BY <2>1, <2>2 DEF Next
<1>2. Init => DrainsOnce
  BY DEF Init, DrainsOnce
<1>. QED  BY <1>1, <1>2, AlwaysInv, NextDrainsOnce, PTL DEF Spec, JobsOnlyMoveOn, Same
=============================================================================
