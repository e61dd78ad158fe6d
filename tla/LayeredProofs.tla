---------------------------- MODULE LayeredProofs ----------------------------
(***************************************************************************)
(* Theorems about RunAll when jobs do not overlap, for every stack whose   *)
(* edges lead down and every bound: it implements LayeredStack, and with   *)
(* it a destroy steps over nothing and nothing floats unannounced.         *)
(***************************************************************************)
EXTENDS RunAllProofs

USE DEF Dir, Unit

(* One job is under way at most. *)
Alone == \A i, j \in Job : ~Idle(i) /\ ~Idle(j) => i = j

(* Units have progress in their own job's scope, while its run-all is on. *)
Placed ==
    \A j \in Job :
        /\ Idle(j) => kind[j] = "idle"
        /\ phase[j] = "step" => kind[j] = "deploy"
        /\ \A u \in Unit : prog[j][u] # "none" => phase[j] \in {"run", "step"} /\ u \in Scope(j)

(* A destroy starts a unit after all that depends on it in the scope is gone. *)
Downwards ==
    \A j \in Job : Destroying(j) =>
        \A u \in Unit :
            /\ prog[j][u] = "ok" => state[u] = "absent"
            /\ prog[j][u] = "running" => \A v \in Before(j, u) : prog[j][v] = "ok"

(* A deploy starts a unit when it finds its outputs, and they stay. *)
Upwards ==
    \A j \in Job : ~Destroying(j) =>
        \A u \in Unit : prog[j][u] = "running" => MayHaveOutputs(u)

LeftStands == left \subseteq StandingIn(Dir)

Order == Downwards /\ Upwards /\ LeftStands /\ DestroyedMeansGone

SerialInv == Inv /\ Alone /\ Placed /\ Order

-----------------------------------------------------------------------------
(* Jobs one at a time *)

LEMMA OthersIdle ==
    ASSUME SerialInv, NEW j \in Job, ~Idle(j), NEW i \in Job, i # j
    PROVE  /\ Idle(i)
           /\ kind[i] = "idle"
           /\ \A u \in Unit : prog[i][u] = "none"
BY DEF SerialInv, Alone, Placed, Idle

(* A job that ends, or goes on to another run-all. *)
LEMMA ClearedInv ==
    ASSUME SerialInv, NEW j \in Job, ~Idle(j), UNCHANGED <<cloud, state, left>>, Inv',
           prog' = [prog EXCEPT ![j] = NoProgress],
           NEW p \in {"idle", "begin", "drain"}, phase' = [phase EXCEPT ![j] = p],
           NEW k, kind' = [kind EXCEPT ![j] = k], p = "idle" => k = "idle",
           \A i \in Job : i # j => at'[i] = at[i],
           k = "destroy" =>
               /\ kind[j] = "destroy"
               /\ StandingIn((at'[j] + 1)..DirCount) \subseteq left
    PROVE  SerialInv'
<1>1. \A u \in Unit : prog'[j][u] = "none"
  BY DEF NoProgress, SerialInv, Inv, JobTypes
<1>2. \A i \in Job \ {j} : /\ prog'[i] = prog[i] /\ phase'[i] = phase[i]
                           /\ kind'[i] = kind[i] /\ Idle(i)
                           /\ \A u \in Unit : prog'[i][u] = "none"
  BY OthersIdle DEF SerialInv, Inv, JobTypes
<1>3. phase'[j] = p /\ kind'[j] = k
  BY DEF SerialInv, Inv, JobTypes
<1>4. Alone'
  BY <1>2 DEF Alone, Idle
<1>5. Placed'
  BY <1>1, <1>2, <1>3 DEF Placed, Idle, SerialInv
<1>6. Downwards' /\ Upwards'
  BY <1>1, <1>2 DEF Downwards, Upwards
<1>7. LeftStands'
  BY DEF LeftStands, StandingIn, DirOf, SerialInv, Order
<1>8. DestroyedMeansGone'
  BY <1>2, <1>3 DEF DestroyedMeansGone, StandingIn, DirOf, SerialInv, Order
<1>. QED  BY <1>4, <1>5, <1>6, <1>7, <1>8 DEF SerialInv, Order

LEMMA EndJobSerial ==
    ASSUME SerialInv, NEW j \in Job, ~Idle(j), UNCHANGED <<cloud, state, left>>, Inv', EndJob(j)
    PROVE  SerialInv'
BY ClearedInv DEF EndJob

LEMMA RunAllFailedSerial ==
    ASSUME SerialInv, NEW j \in Job, ~Idle(j), UNCHANGED <<cloud, state, left>>, Inv',
           RunAllFailed(j)
    PROVE  SerialInv'
<1>1. CASE kind[j] = "destroy" /\ ~retried[j]
  <2>1. /\ phase' = [phase EXCEPT ![j] = "drain"]
        /\ prog' = [prog EXCEPT ![j] = NoProgress]
        /\ UNCHANGED <<kind, at>>
    BY <1>1, Zenon DEF RunAllFailed
  <2>2. kind' = [kind EXCEPT ![j] = kind[j]]
    BY <2>1 DEF SerialInv, Inv, JobTypes
  <2>3. StandingIn((at'[j] + 1)..DirCount) \subseteq left
    BY <1>1, <2>1 DEF SerialInv, Order, DestroyedMeansGone
  <2>. QED  BY <1>1, <2>1, <2>2, <2>3, ClearedInv
<1>2. CASE ~(kind[j] = "destroy" /\ ~retried[j])
  <2>1. EndJob(j)
    BY <1>2, Zenon DEF RunAllFailed
  <2>. QED  BY <2>1, EndJobSerial
<1>. QED  BY <1>1, <1>2

(* A destroy goes down a directory once all of the one it leaves is gone. *)
LEMMA NextDirSerial ==
    ASSUME SerialInv, NEW j \in Job, ~Idle(j), UNCHANGED <<cloud, state, left>>, Inv', NextDir(j),
           kind[j] = "destroy" => \A u \in Scope(j) : state[u] = "absent"
    PROVE  SerialInv'
<1>1. CASE InLastDir(j)
  BY <1>1, EndJobSerial DEF NextDir
<1>2. CASE ~InLastDir(j)
  <2>1. /\ at' = [at EXCEPT ![j] = Following(j)]
        /\ phase' = [phase EXCEPT ![j] = "begin"]
        /\ prog' = [prog EXCEPT ![j] = NoProgress]
        /\ kind' = [kind EXCEPT ![j] = kind[j]]
    BY <1>2 DEF NextDir, SerialInv, Inv, JobTypes
  <2>2. ASSUME kind[j] = "destroy"
        PROVE  StandingIn((at'[j] + 1)..DirCount) \subseteq left
    <3>1. at'[j] = at[j] - 1 /\ at[j] \in Nat /\ DirCount \in Nat
      BY <2>1, <2>2, StackAssumption DEF Following, SerialInv, Inv, JobTypes
    <3>2. \A d \in (at'[j] + 1)..DirCount : d = at[j] \/ d \in (at[j] + 1)..DirCount
      BY <3>1
    <3>3. \A u \in Unit : DirOf(u) = at[j] => state[u] = "absent"
      BY <2>2 DEF Scope
    <3>4. StandingIn((at[j] + 1)..DirCount) \subseteq left
      BY <2>2 DEF SerialInv, Order, DestroyedMeansGone
    <3>. QED  BY <3>2, <3>3, <3>4 DEF StandingIn
  <2>3. \A i \in Job : i # j => at'[i] = at[i]
    BY <2>1
  <2>. QED  BY <2>1, <2>2, <2>3, ClearedInv
<1>. QED  BY <1>1, <1>2

-----------------------------------------------------------------------------
(* The units of a run-all *)

LEMMA RefusedSerial ==
    ASSUME SerialInv, NEW j \in Job, NEW u \in Unit, UNCHANGED <<cloud, state, left>>, Inv',
           prog[j][u] = "queued", NEW p \in {"failed", "skipped"}, Settle(j, u, p)
    PROVE  SerialInv'
<1>1. /\ ~Idle(j)
      /\ \A i \in Job : prog'[i] = IF i = j THEN [prog[j] EXCEPT ![u] = p] ELSE prog[i]
      /\ \A v \in Unit : prog'[j][v] = IF v = u THEN p ELSE prog[j][v]
  BY DEF Settle, Idle, SerialInv, Inv, JobTypes, Placed
<1>2. Alone' /\ Placed'
  BY <1>1 DEF SerialInv, Alone, Placed, Idle, Settle, Scope, DirOf
<1>3. Upwards'
  BY <1>1 DEF SerialInv, Order, Upwards, Destroying, MayHaveOutputs, Outputs, Settle
<1>4. Downwards'
  BY <1>1 DEF SerialInv, Order, Downwards, Destroying, Before, Scope, Needs, Outputs, After, DirOf,
     Settle
<1>5. LeftStands' /\ DestroyedMeansGone'
  BY DEF LeftStands, DestroyedMeansGone, StandingIn, DirOf, SerialInv, Order, Settle
<1>. QED  BY <1>2, <1>3, <1>4, <1>5 DEF SerialInv, Order

LEMMA UnitStartsSerial ==
    ASSUME SerialInv, NEW j \in Job, NEW u \in Unit, UNCHANGED cloud, Inv', UnitStarts(j, u)
    PROVE  SerialInv'
<1>1. /\ ~Idle(j) /\ Settle(j, u, "running") /\ prog[j][u] = "queued"
      /\ \A i \in Job : prog'[i] = IF i = j THEN [prog[j] EXCEPT ![u] = "running"] ELSE prog[i]
      /\ \A v \in Unit : prog'[j][v] = IF v = u THEN "running" ELSE prog[j][v]
      /\ UNCHANGED <<state, left>>
  BY DEF UnitStarts, Ready, Settle, Idle, SerialInv, Inv, JobTypes
<1>2. Alone' /\ Placed'
  BY <1>1 DEF SerialInv, Alone, Placed, Idle, Settle, Scope, DirOf
<1>3. Upwards'
  BY <1>1 DEF SerialInv, Order, Upwards, Destroying, MayHaveOutputs, Outputs, Settle, UnitStarts
<1>4. \A v \in Before(j, u) : prog[j][v] = "ok"
  BY DEF UnitStarts, Ready
<1>5. Downwards'
  BY <1>1, <1>4 DEF SerialInv, Order, Downwards, Destroying, Before, Scope, Needs, Outputs, After,
     DirOf, Settle
<1>6. LeftStands' /\ DestroyedMeansGone'
  BY <1>1 DEF LeftStands, DestroyedMeansGone, StandingIn, DirOf, SerialInv, Order, Settle
<1>. QED  BY <1>2, <1>3, <1>5, <1>6 DEF SerialInv, Order

LEMMA UnitSucceedsSerial ==
    ASSUME SerialInv, NEW j \in Job, NEW u \in Unit, UNCHANGED cloud, Inv', UnitSucceeds(j, u)
    PROVE  SerialInv'
<1>1. /\ ~Idle(j) /\ Settle(j, u, "ok") /\ prog[j][u] = "running"
      /\ \A i \in Job : prog'[i] = IF i = j THEN [prog[j] EXCEPT ![u] = "ok"] ELSE prog[i]
      /\ \A v \in Unit : prog'[j][v] = IF v = u THEN "ok" ELSE prog[j][v]
      /\ \A v \in Unit : state'[v] = IF v # u THEN state[v]
                                     ELSE IF Destroying(j) THEN "absent" ELSE "applied"
      /\ left' = left \ {u}
  BY DEF UnitSucceeds, Settle, Idle, SerialInv, Inv, JobTypes, StackTypes, Placed
<1>2. Alone' /\ Placed'
  BY <1>1 DEF SerialInv, Alone, Placed, Idle, Settle, Scope, DirOf
<1>3. \A i \in Job \ {j} : kind'[i] = "idle" /\ \A v \in Unit : prog'[i][v] = "none"
  BY <1>1, OthersIdle DEF Settle
<1>4. Upwards'
  <2>1. ASSUME ~Destroying(j), NEW v \in Unit, MayHaveOutputs(v)
        PROVE  MayHaveOutputs(v)'
    BY <1>1, <2>1, StackAssumption
    DEF MayHaveOutputs, Outputs, SerialInv, Inv, StackTypes, UnitsOver
  <2>. QED  BY <1>1, <1>3, <2>1 DEF Upwards, Destroying, SerialInv, Order, Settle
<1>5. Downwards'
  BY <1>1, <1>3 DEF SerialInv, Order, Downwards, Destroying, Before, Scope, Needs, Outputs, After,
     DirOf, Settle
<1>6. LeftStands'
  BY <1>1 DEF LeftStands, StandingIn, DirOf, SerialInv, Order
<1>7. DestroyedMeansGone'
  <2>1. ASSUME kind[j] = "destroy"
        PROVE  StandingIn((at[j] + 1)..DirCount)' \subseteq left \ {u}
    BY <1>1, <2>1 DEF DestroyedMeansGone, StandingIn, DirOf, Destroying, SerialInv, Order, Settle
  <2>. QED  BY <1>1, <1>3, <2>1 DEF DestroyedMeansGone, Settle
<1>. QED  BY <1>2, <1>4, <1>5, <1>6, <1>7 DEF SerialInv, Order

LEMMA UnitFailsSerial ==
    ASSUME SerialInv, NEW j \in Job, NEW u \in Unit, UNCHANGED cloud, Inv', UnitFails(j, u)
    PROVE  SerialInv'
<1>1. /\ ~Idle(j) /\ Settle(j, u, "failed") /\ prog[j][u] = "running"
      /\ \A i \in Job : prog'[i] = IF i = j THEN [prog[j] EXCEPT ![u] = "failed"] ELSE prog[i]
      /\ \A v \in Unit : prog'[j][v] = IF v = u THEN "failed" ELSE prog[j][v]
      /\ \A v \in Unit : \/ state'[v] = state[v]
                         \/ v = u /\ Breakable(j, u) /\ state'[v] = "partial"
      /\ left' = left
  BY DEF UnitFails, Settle, Idle, SerialInv, Inv, JobTypes, StackTypes, Placed
<1>2. Alone' /\ Placed'
  BY <1>1 DEF SerialInv, Alone, Placed, Idle, Settle, Scope, DirOf
<1>3. \A i \in Job \ {j} : kind'[i] = "idle" /\ \A v \in Unit : prog'[i][v] = "none"
  BY <1>1, OthersIdle DEF Settle
<1>4. \A v \in Unit : state[v] # "absent" => state'[v] # "absent"
  BY <1>1
<1>5. Destroying(j) => \A v \in Unit : state[v] = "absent" => state'[v] = "absent"
  BY <1>1 DEF Breakable
<1>6. Upwards'
  <2>1. ASSUME NEW v \in Unit, MayHaveOutputs(v)
        PROVE  MayHaveOutputs(v)'
    BY <1>4, <2>1, StackAssumption
    DEF MayHaveOutputs, Outputs, SerialInv, Inv, StackTypes, UnitsOver
  <2>. QED  BY <1>1, <1>3, <2>1 DEF Upwards, Destroying, SerialInv, Order, Settle
<1>7. Downwards'
  BY <1>1, <1>3, <1>5 DEF SerialInv, Order, Downwards, Destroying, Before, Scope, Needs, Outputs,
     After, DirOf, Settle
<1>8. LeftStands'
  BY <1>1, <1>4 DEF LeftStands, StandingIn, DirOf, SerialInv, Order
<1>9. DestroyedMeansGone'
  BY <1>1, <1>3, <1>5 DEF DestroyedMeansGone, StandingIn, DirOf, Destroying, SerialInv, Order,
     Settle
<1>. QED  BY <1>2, <1>6, <1>7, <1>8, <1>9 DEF SerialInv, Order

-----------------------------------------------------------------------------
(* The jobs *)

LEMMA InitSerial == Init => SerialInv
<1>. SUFFICES ASSUME Init
              PROVE  SerialInv
  OBVIOUS
<1>1. Inv
  BY InitInv
<1>2. \A j \in Job : Idle(j) /\ kind[j] = "idle" /\ \A u \in Unit : prog[j][u] = "none"
  BY DEF Init, Idle, NoProgress
<1>. QED  BY <1>1, <1>2 DEF Init, Idle, SerialInv, Alone, Placed, Order, Downwards, Upwards,
     LeftStands, DestroyedMeansGone

LEMMA StartSerial ==
    ASSUME Serial, SerialInv, NEW j \in Job, NEW k, NEW d \in Dir, Start(j, k, d),
           UNCHANGED cloud, Inv', left \subseteq left', left' \subseteq StandingIn(Dir),
           k = "destroy" => StandingIn((d + 1)..DirCount) \subseteq left'
    PROVE  SerialInv'
<1>1. \A i \in Job : Idle(i) /\ kind[i] = "idle" /\ \A u \in Unit : prog[i][u] = "none"
  BY DEF Start, SerialInv, Placed, Idle
<1>2. /\ \A i \in Job : \A u \in Unit : prog'[i][u] = "none"
      /\ \A i \in Job \ {j} : kind'[i] = "idle" /\ phase'[i] = "idle"
      /\ kind'[j] = k /\ phase'[j] = "begin" /\ at'[j] = d
  BY <1>1 DEF Start, Idle, SerialInv, Inv, JobTypes
<1>3. Alone' /\ Placed' /\ Downwards' /\ Upwards'
  BY <1>2 DEF Alone, Placed, Downwards, Upwards, Idle
<1>4. LeftStands' /\ DestroyedMeansGone'
  BY <1>2 DEF Start, LeftStands, DestroyedMeansGone, StandingIn, DirOf
<1>. QED  BY <1>3, <1>4 DEF SerialInv, Order

LEMMA DispatchSerial ==
    ASSUME Serial, SerialInv, NEW j \in Job, Dispatch(j)
    PROVE  SerialInv'
<1>1. UNCHANGED cloud /\ Inv' /\ left \subseteq StandingIn(Dir)
  BY DispatchInv DEF Dispatch, SerialInv, Order, LeftStands
<1>2. ASSUME NEW s \in Dir, DispatchDeploy(j, s)
      PROVE  SerialInv'
  BY <1>1, <1>2, StartSerial DEF DispatchDeploy
<1>3. ASSUME NEW s \in Dir, DispatchDestroy(j, s)
      PROVE  SerialInv'
  <2>1. Start(j, "destroy", s) /\ left' = left \cup StandingIn((s + 1)..DirCount)
    BY <1>3 DEF DispatchDestroy
  <2>2. StandingIn((s + 1)..DirCount) \subseteq StandingIn(Dir)
    BY StackAssumption DEF StandingIn
  <2>. QED  BY <1>1, <2>1, <2>2, StartSerial
<1>4. 1 \in Dir
  BY StackAssumption
<1>5. CASE MakeApply(j)
  BY <1>1, <1>4, <1>5, StartSerial DEF MakeApply
<1>6. CASE MakeDestroy(j)
  BY <1>1, <1>4, <1>6, StartSerial DEF MakeDestroy
<1>. QED  BY <1>2, <1>3, <1>5, <1>6 DEF Dispatch

LEMMA UnitStepSerial ==
    ASSUME SerialInv, NEW j \in Job, NEW u \in Unit, UNCHANGED cloud, UnitStep(j, u)
    PROVE  SerialInv'
<1>1. Inv'
  BY UnitStepInv DEF SerialInv
<1>2. CASE UnitLacksOutputs(j, u) \/ LockTimesOut(j, u) \/ UnitSkipped(j, u)
  <2>1. /\ UNCHANGED <<cloud, state, left>> /\ prog[j][u] = "queued"
        /\ Settle(j, u, "failed") \/ Settle(j, u, "skipped")
    BY <1>2 DEF UnitLacksOutputs, LockTimesOut, UnitSkipped, Ready, stackVars
  <2>. QED  BY <1>1, <2>1, RefusedSerial
<1>. QED  BY <1>1, <1>2, UnitStartsSerial, UnitSucceedsSerial, UnitFailsSerial DEF UnitStep

LEMMA JobStepSerial ==
    ASSUME SerialInv, NEW j \in Job, JobStep(j)
    PROVE  SerialInv'
<1>1. UNCHANGED cloud /\ Inv'
  BY JobStepInv DEF JobStep, SerialInv
<1>2. CASE BeginRunAll(j)
  <2>1. ~Idle(j) /\ UNCHANGED <<cloud, state, left>>
    BY <1>1, <1>2 DEF BeginRunAll, Idle, stackVars
  <2>2. CASE Parses(j)
    <3>1. /\ phase' = [phase EXCEPT ![j] = "run"]
          /\ \A i \in Job \ {j} : prog'[i] = prog[i]
          /\ \A u \in Unit : prog'[j][u] = IF u \in Scope(j) THEN "queued" ELSE "none"
          /\ UNCHANGED <<kind, at>>
      BY <1>2, <2>2 DEF BeginRunAll, SerialInv, Inv, JobTypes
    <3>2. \A i \in Job \ {j} : /\ Idle(i) /\ kind[i] = "idle"
                               /\ \A u \in Unit : prog[i][u] = "none"
      BY <2>1, OthersIdle
    <3>3. Alone' /\ Placed'
      BY <2>1, <3>1, <3>2 DEF SerialInv, Alone, Placed, Idle, Scope, DirOf, Inv, JobTypes
    <3>4. Downwards' /\ Upwards'
      BY <2>1, <3>1, <3>2 DEF Downwards, Upwards
    <3>5. LeftStands' /\ DestroyedMeansGone'
      BY <2>1, <3>1 DEF LeftStands, DestroyedMeansGone, StandingIn, DirOf, SerialInv, Order
    <3>. QED  BY <1>1, <3>3, <3>4, <3>5 DEF SerialInv, Order
  <2>3. CASE ~Parses(j)
    BY <1>1, <1>2, <2>1, <2>3, RunAllFailedSerial DEF BeginRunAll
  <2>. QED  BY <2>2, <2>3
<1>3. ASSUME NEW u \in Unit, UnitStep(j, u)
      PROVE  SerialInv'
  BY <1>1, <1>3, UnitStepSerial
<1>4. CASE EndRunAll(j)
  <2>1. ~Idle(j) /\ UNCHANGED <<cloud, state, left>>
    BY <1>1, <1>4 DEF EndRunAll, Idle, stackVars
  <2>2. CASE \E u \in Scope(j) : prog[j][u] # "ok"
    BY <1>1, <1>4, <2>1, <2>2, RunAllFailedSerial DEF EndRunAll
  <2>3. CASE /\ ~(\E u \in Scope(j) : prog[j][u] # "ok")
             /\ kind[j] = "deploy" /\ at[j] \in StepAfter[cloud]
    <3>1. phase' = [phase EXCEPT ![j] = "step"] /\ UNCHANGED <<kind, at, prog>>
      BY <1>4, <2>3 DEF EndRunAll
    <3>2. Alone' /\ Placed'
      BY <2>1, <2>3, <3>1 DEF SerialInv, Alone, Placed, Idle, Scope, DirOf, Inv, JobTypes
    <3>3. Order'
      BY <2>1, <3>1 DEF SerialInv, Order, Downwards, Upwards, LeftStands, DestroyedMeansGone,
         StandingIn, DirOf, Destroying, Before, Scope, Needs, Outputs, After, MayHaveOutputs
    <3>. QED  BY <1>1, <3>2, <3>3 DEF SerialInv
  <2>4. CASE /\ ~(\E u \in Scope(j) : prog[j][u] # "ok")
             /\ ~(kind[j] = "deploy" /\ at[j] \in StepAfter[cloud])
    <3>1. NextDir(j)
      BY <1>4, <2>4 DEF EndRunAll
    <3>2. kind[j] = "destroy" => \A u \in Scope(j) : state[u] = "absent"
      BY <2>4 DEF SerialInv, Order, Downwards, Destroying, Scope
    <3>. QED  BY <1>1, <2>1, <3>1, <3>2, NextDirSerial
  <2>. QED  BY <2>2, <2>3, <2>4
<1>5. CASE StepEnds(j)
  <2>1. ~Idle(j) /\ UNCHANGED <<cloud, state, left>> /\ kind[j] = "deploy"
    BY <1>1, <1>5 DEF StepEnds, Idle, stackVars, SerialInv, Placed
  <2>. QED  BY <1>1, <1>5, <2>1, NextDirSerial, EndJobSerial DEF StepEnds
<1>6. CASE DrainEnds(j)
  <2>1. ~Idle(j) /\ UNCHANGED <<cloud, state, left>> /\ phase[j] = "drain"
    BY <1>1, <1>6 DEF DrainEnds, Idle, stackVars
  <2>2. CASE EndJob(j)
    BY <1>1, <2>1, <2>2, EndJobSerial
  <2>3. CASE ~EndJob(j)
    <3>1. phase' = [phase EXCEPT ![j] = "begin"] /\ UNCHANGED <<kind, at, prog>>
      BY <1>6, <2>3 DEF DrainEnds
    <3>2. Alone' /\ Placed'
      BY <2>1, <3>1 DEF SerialInv, Alone, Placed, Idle, Scope, DirOf, Inv, JobTypes
    <3>3. Order'
      BY <2>1, <3>1 DEF SerialInv, Order, Downwards, Upwards, LeftStands, DestroyedMeansGone,
         StandingIn, DirOf, Destroying, Before, Scope, Needs, Outputs, After, MayHaveOutputs
    <3>. QED  BY <1>1, <3>2, <3>3 DEF SerialInv
  <2>. QED  BY <2>2, <2>3
<1>. QED  BY <1>2, <1>3, <1>4, <1>5, <1>6 DEF JobStep

LEMMA KilledSerial ==
    ASSUME SerialInv, NEW j \in Job, Killed(j)
    PROVE  SerialInv'
<1>1. Inv' /\ ~Idle(j) /\ EndJob(j) /\ UNCHANGED <<cloud, left>>
  BY KilledInv DEF Killed, SerialInv
<1>2. \A i \in Job : /\ phase'[i] = "idle" /\ kind'[i] = "idle"
                    /\ \A u \in Unit : prog'[i][u] = "none"
  BY <1>1, OthersIdle DEF EndJob, NoProgress, SerialInv, Inv, JobTypes, Idle
<1>3. \A u \in Unit : state[u] # "absent" => state'[u] # "absent"
  BY DEF Killed
<1>4. Alone' /\ Placed' /\ Downwards' /\ Upwards' /\ DestroyedMeansGone'
  BY <1>1, <1>2 DEF Alone, Placed, Downwards, Upwards, DestroyedMeansGone, Idle
<1>5. LeftStands'
  BY <1>1, <1>3 DEF LeftStands, StandingIn, DirOf, SerialInv, Order
<1>. QED  BY <1>1, <1>4, <1>5 DEF SerialInv, Order

LEMMA NextSerial == Serial /\ SerialInv /\ [Next]_vars => SerialInv'
<1>. SUFFICES ASSUME Serial, SerialInv, [Next]_vars
              PROVE  SerialInv'
  OBVIOUS
<1>1. CASE Next
  BY <1>1, DispatchSerial, JobStepSerial, KilledSerial DEF Next
<1>2. CASE UNCHANGED vars
  <2>1. Inv'
    BY <1>2, NextInv DEF SerialInv
  <2>2. Alone' /\ Placed'
    BY <1>2 DEF vars, SerialInv, Alone, Placed, Idle, Scope, DirOf
  <2>3. Order'
    BY <1>2 DEF vars, SerialInv, Order, Downwards, Upwards, LeftStands, DestroyedMeansGone,
       StandingIn, DirOf, Destroying, Before, Scope, Needs, Outputs, After, MayHaveOutputs
  <2>. QED  BY <2>1, <2>2, <2>3 DEF SerialInv
<1>. QED  BY <1>1, <1>2

THEOREM AlwaysSerialInv == ASSUME Serial PROVE Spec => []SerialInv
<1>. SUFFICES ASSUME Serial PROVE Spec => []SerialInv
  OBVIOUS
<1>1. SerialInv /\ [Next]_vars => SerialInv'
  BY NextSerial
<1>. QED  BY <1>1, InitSerial, PTL DEF Spec

-----------------------------------------------------------------------------
(* The abstract stack *)

LEMMA TakenDown ==
    ASSUME SerialInv, NEW j \in Job, NEW u \in Unit, Destroying(j), prog[j][u] = "running"
    PROVE  \A v \in StandingIn(Dir) \ left : u \notin Needs(v)
<1>. SUFFICES ASSUME NEW v \in StandingIn(Dir) \ left, u \in Needs(v)
              PROVE  FALSE
  OBVIOUS
<1>1. v \in Unit /\ state[v] # "absent"
  BY DEF StandingIn
<1>2. DirOf(u) \in Nat /\ DirOf(v) \in Nat /\ DirOf(u) <= DirOf(v) /\ DirOf(v) \in 1..DirCount
  BY <1>1, StackAssumption, EdgesLeadDown
  DEF UnitsOver, DirOf, Needs, Outputs, After, SerialInv, Inv, StackTypes
<1>3. v \notin Scope(j)
  BY <1>1 DEF SerialInv, Order, Downwards, Before, Destroying
<1>4. kind[j] = "destroy" /\ DirOf(u) = at[j] /\ DirOf(v) # at[j]
  BY <1>1, <1>3 DEF Scope, Destroying, SerialInv, Placed
<1>5. DirOf(v) \in (at[j] + 1)..DirCount
  BY <1>2, <1>4, StackAssumption
<1>6. v \in left
  BY <1>1, <1>4, <1>5 DEF SerialInv, Order, DestroyedMeansGone, StandingIn
<1>. QED  BY <1>6

LEMMA BuildStep ==
    ASSUME SerialInv, UNCHANGED cloud, NEW B \in SUBSET Unit,
           \A u \in B : MayHaveOutputs(u),
           StandingIn(Dir)' = StandingIn(Dir) \cup B, left' = left \ B
    PROVE  Layers!Next
<1>1. \A u \in B : Outputs(u) \subseteq StandingIn(Dir)
  BY StackAssumption
  DEF MayHaveOutputs, StandingIn, DirOf, UnitsOver, Outputs, SerialInv, Inv, StackTypes
<1>2. Layers!Build(B)
  BY <1>1 DEF Layers!Build, Layers!Outputs, Outputs
<1>. QED  BY <1>2 DEF Layers!Next, Layers!Unit

LEMMA BuildOne ==
    ASSUME SerialInv, UNCHANGED cloud, NEW u \in Unit, MayHaveOutputs(u),
           StandingIn(Dir)' = StandingIn(Dir) \cup {u}, left' = left \ {u}
    PROVE  Layers!Next
<1>. DEFINE B == {u}
<1>1. B \in SUBSET Unit /\ \A v \in B : MayHaveOutputs(v)
  OBVIOUS
<1>2. StandingIn(Dir)' = StandingIn(Dir) \cup B /\ left' = left \ B
  OBVIOUS
<1>. HIDE DEF B
<1>. QED  BY <1>1, <1>2, BuildStep

LEMMA QuietStep ==
    ASSUME UNCHANGED <<cloud, state, left>>
    PROVE  UNCHANGED Layers!vars
BY DEF Layers!vars, StandingIn, DirOf

LEMMA DirsInDir ==
    ASSUME SerialInv, NEW u \in Unit
    PROVE  DirOf(u) \in Dir
BY StackAssumption DEF UnitsOver, DirOf, SerialInv, Inv, StackTypes

LEMMA UnitSucceedsStep ==
    ASSUME SerialInv, NEW j \in Job, NEW u \in Unit, UNCHANGED cloud, UnitSucceeds(j, u)
    PROVE  [Layers!Next]_(Layers!vars)
<1>1. prog[j][u] = "running" /\ left' = left \ {u}
  BY DEF UnitSucceeds
<1>2. CASE Destroying(j)
  <2>1. StandingIn(Dir)' = StandingIn(Dir) \ {u}
    BY <1>2 DEF UnitSucceeds, StandingIn, DirOf, SerialInv, Inv, StackTypes
  <2>2. \A v \in StandingIn(Dir) \ left : u \notin Needs(v)
    BY <1>1, <1>2, TakenDown
  <2>3. CASE u \in StandingIn(Dir)
    <3>1. Layers!TakeDown(u)
      BY <1>1, <2>1, <2>2, <2>3
      DEF Layers!TakeDown, Layers!Needs, Layers!Outputs, Needs, Outputs, After
    <3>. QED  BY <2>3, <3>1 DEF Layers!Next
  <2>4. CASE u \notin StandingIn(Dir)
    <3>1. u \notin left
      BY <2>4 DEF SerialInv, Order, LeftStands
    <3>2. left' = left /\ StandingIn(Dir)' = StandingIn(Dir)
      BY <1>1, <2>1, <2>4, <3>1
    <3>. QED  BY <3>2 DEF Layers!vars
  <2>. QED  BY <2>3, <2>4
<1>3. CASE ~Destroying(j)
  <2>1. MayHaveOutputs(u)
    BY <1>1, <1>3 DEF SerialInv, Order, Upwards
  <2>2. StandingIn(Dir)' = StandingIn(Dir) \cup {u}
    <3>1. \A v \in Unit : state'[v] = IF v = u THEN "applied" ELSE state[v]
      BY <1>3 DEF UnitSucceeds, SerialInv, Inv, StackTypes
    <3>. QED  BY <3>1, DirsInDir DEF StandingIn, DirOf
  <2>. QED  BY <1>1, <2>1, <2>2, BuildOne
<1>. QED  BY <1>2, <1>3

LEMMA UnitFailsStep ==
    ASSUME SerialInv, NEW j \in Job, NEW u \in Unit, UNCHANGED cloud, UnitFails(j, u)
    PROVE  [Layers!Next]_(Layers!vars)
<1>1. CASE UNCHANGED state
  BY <1>1, QuietStep DEF UnitFails
<1>2. CASE Breakable(j, u) /\ state' = [state EXCEPT ![u] = "partial"]
  <2>1. \A v \in Unit : state'[v] = IF v = u THEN "partial" ELSE state[v]
    BY <1>2 DEF SerialInv, Inv, StackTypes
  <2>2. left' = left /\ prog[j][u] = "running"
    BY DEF UnitFails
  <2>3. CASE Destroying(j)
    <3>1. StandingIn(Dir)' = StandingIn(Dir)
      BY <1>2, <2>1, <2>3 DEF Breakable, StandingIn, DirOf
    <3>. QED  BY <2>2, <3>1 DEF Layers!vars
  <2>4. CASE ~Destroying(j)
    <3>1. MayHaveOutputs(u)
      BY <2>2, <2>4 DEF SerialInv, Order, Upwards
    <3>2. StandingIn(Dir)' = StandingIn(Dir) \cup {u}
      BY <2>1, DirsInDir DEF StandingIn, DirOf
    <3>3. u \notin left
      BY <1>2, <2>4 DEF Breakable, SerialInv, Order, LeftStands, StandingIn
    <3>4. left' = left \ {u}
      BY <2>2, <3>3
    <3>. QED  BY <3>1, <3>2, <3>4, BuildOne
  <2>. QED  BY <2>3, <2>4
<1>. QED  BY <1>1, <1>2 DEF UnitFails

LEMMA KilledStep ==
    ASSUME SerialInv, NEW j \in Job, Killed(j)
    PROVE  [Layers!Next]_(Layers!vars)
<1>1. PICK broken \in SUBSET {u \in Running(j) : Breakable(j, u)} :
          state' = [u \in Unit |-> IF u \in broken THEN "partial" ELSE state[u]]
  BY DEF Killed
<1>2. UNCHANGED <<cloud, left>>
  BY DEF Killed
<1>3. broken \subseteq Unit /\ \A u \in broken : prog[j][u] = "running" /\ Breakable(j, u)
  BY <1>1 DEF Running
<1>4. StandingIn(Dir)' = StandingIn(Dir) \cup broken
  BY <1>1, <1>2, <1>3, DirsInDir DEF StandingIn, DirOf
<1>5. CASE Destroying(j)
  <2>1. broken \subseteq StandingIn(Dir)
    BY <1>3, <1>5, DirsInDir DEF Breakable, StandingIn
  <2>2. StandingIn(Dir)' = StandingIn(Dir)
    BY <1>4, <2>1
  <2>. QED  BY <1>2, <2>2 DEF Layers!vars
<1>6. CASE ~Destroying(j)
  <2>1. \A u \in broken : MayHaveOutputs(u)
    BY <1>3, <1>6 DEF SerialInv, Order, Upwards
  <2>2. left \ broken = left
    BY <1>3, <1>6 DEF Breakable, SerialInv, Order, LeftStands, StandingIn
  <2>. QED  BY <1>2, <1>3, <1>4, <2>1, <2>2, BuildStep
<1>. QED  BY <1>5, <1>6

LEMMA DispatchStep ==
    ASSUME SerialInv, NEW j \in Job, Dispatch(j)
    PROVE  [Layers!Next]_(Layers!vars)
<1>1. UNCHANGED <<cloud, state>>
  BY DEF Dispatch, DispatchDeploy, DispatchDestroy, MakeApply, MakeDestroy, Start
<1>2. ASSUME NEW s \in Dir, DispatchDestroy(j, s)
      PROVE  Layers!Next
  <2>. DEFINE W == StandingIn((s + 1)..DirCount)
  <2>1. left' = left \cup W
    BY <1>2 DEF DispatchDestroy
  <2>2. W \subseteq StandingIn(Dir)
    BY StackAssumption DEF StandingIn
  <2>3. ASSUME NEW v \in StandingIn(Dir), NEW w \in W, w \in Needs(v)
        PROVE  v \in W
    <3>1. /\ v \in Unit /\ w \in Unit /\ DirOf(v) \in 1..DirCount /\ state[v] # "absent"
          /\ DirOf(w) \in (s + 1)..DirCount
      BY <2>3 DEF StandingIn
    <3>2. DirOf(w) <= DirOf(v)
      BY <2>3, <3>1, EdgesLeadDown DEF DirOf, Needs, Outputs, After, SerialInv, Inv, StackTypes
    <3>3. DirOf(v) \in (s + 1)..DirCount
      BY <3>1, <3>2, StackAssumption
    <3>. QED  BY <3>1, <3>3 DEF StandingIn
  <2>4. StandingIn(Dir)' = StandingIn(Dir)
    BY <1>1 DEF StandingIn, DirOf
  <2>. HIDE DEF W
  <2>5. Layers!Announce(W)
    BY <1>1, <2>1, <2>3, <2>4
    DEF Layers!Announce, Layers!Needs, Layers!Outputs, Needs, Outputs, After
  <2>. QED  BY <2>2, <2>5 DEF Layers!Next
<1>3. ASSUME NEW s \in Dir, DispatchDeploy(j, s)
      PROVE  UNCHANGED Layers!vars
  BY <1>1, <1>3, QuietStep DEF DispatchDeploy
<1>4. CASE MakeApply(j) \/ MakeDestroy(j)
  BY <1>1, <1>4, QuietStep DEF MakeApply, MakeDestroy
<1>. QED  BY <1>2, <1>3, <1>4 DEF Dispatch

LEMMA JobStepStep ==
    ASSUME SerialInv, NEW j \in Job, JobStep(j)
    PROVE  [Layers!Next]_(Layers!vars)
<1>1. UNCHANGED cloud
  BY DEF JobStep
<1>2. CASE BeginRunAll(j) \/ EndRunAll(j) \/ StepEnds(j) \/ DrainEnds(j)
  BY <1>1, <1>2, QuietStep DEF BeginRunAll, EndRunAll, StepEnds, DrainEnds, stackVars
<1>3. ASSUME NEW u \in Unit, UnitStep(j, u)
      PROVE  [Layers!Next]_(Layers!vars)
  <2>1. CASE UnitStarts(j, u) \/ UnitLacksOutputs(j, u) \/ LockTimesOut(j, u) \/ UnitSkipped(j, u)
    BY <1>1, <2>1, QuietStep
    DEF UnitStarts, UnitLacksOutputs, LockTimesOut, UnitSkipped, stackVars
  <2>. QED  BY <1>1, <1>3, <2>1, UnitSucceedsStep, UnitFailsStep DEF UnitStep
<1>. QED  BY <1>2, <1>3 DEF JobStep

(* Jobs that do not overlap implement LayeredStack, whatever fails, is killed *)
(* or retried and whichever start_from the operator picks: "unwind in the     *)
(* order you wound" (dbx-destroy.yml) holds step by step.                     *)
THEOREM ImplementsLayeredStack == ASSUME Serial PROVE Spec => LayeredSpec
<1>. SUFFICES ASSUME Serial PROVE Spec => LayeredSpec
  OBVIOUS
<1>1. Init => Layers!Init
  BY DEF Init, Layers!Init, StandingIn
<1>2. SerialInv /\ [Next]_vars => [Layers!Next]_(Layers!vars)
  <2>. SUFFICES ASSUME SerialInv, [Next]_vars
                PROVE  [Layers!Next]_(Layers!vars)
    OBVIOUS
  <2>1. CASE Next
    BY <2>1, DispatchStep, JobStepStep, KilledStep DEF Next
  <2>2. CASE UNCHANGED vars
    BY <2>2, QuietStep DEF vars
  <2>. QED  BY <2>1, <2>2
<1>. QED  BY <1>1, <1>2, AlwaysSerialInv, PTL DEF Spec, LayeredSpec, Layers!Spec

(* A destroy reaches a directory only when all above it is gone or announced. *)
THEOREM DestroyedMeansGoneHolds == ASSUME Serial PROVE Spec => []DestroyedMeansGone
<1>. SUFFICES ASSUME Serial PROVE Spec => []DestroyedMeansGone
  OBVIOUS
<1>1. SerialInv => DestroyedMeansGone
  BY DEF SerialInv, Order
<1>. QED  BY <1>1, AlwaysSerialInv, PTL

(* A unit that stands unannounced has all it takes outputs from under it: the *)
(* abstract stack says so of itself, and RunAll inherits it.                  *)
THEOREM NothingFloatsHolds == ASSUME Serial PROVE Spec => []NothingFloats
<1>. SUFFICES ASSUME Serial PROVE Spec => []NothingFloats
  OBVIOUS
<1>1. Layers!Init => Layers!NothingFloats
  BY DEF Layers!Init, Layers!NothingFloats
<1>2. Layers!NothingFloats /\ [Layers!Next]_(Layers!vars) => Layers!NothingFloats'
  <2>. SUFFICES ASSUME Layers!NothingFloats, [Layers!Next]_(Layers!vars)
                PROVE  Layers!NothingFloats'
    OBVIOUS
  <2>1. ASSUME NEW B \in SUBSET Layers!Unit, Layers!Build(B)
        PROVE  Layers!NothingFloats'
    BY <2>1 DEF Layers!Build, Layers!NothingFloats, Layers!Outputs
  <2>2. ASSUME NEW u \in StandingIn(Dir), Layers!TakeDown(u)
        PROVE  Layers!NothingFloats'
    BY <2>2 DEF Layers!TakeDown, Layers!NothingFloats, Layers!Needs, Layers!Outputs
  <2>3. ASSUME NEW W \in SUBSET StandingIn(Dir), Layers!Announce(W)
        PROVE  Layers!NothingFloats'
    BY <2>3 DEF Layers!Announce, Layers!NothingFloats, Layers!Outputs
  <2>4. CASE UNCHANGED Layers!vars
    BY <2>4 DEF Layers!vars, Layers!NothingFloats, Layers!Outputs
  <2>. QED  BY <2>1, <2>2, <2>3, <2>4 DEF Layers!Next
<1>3. SerialInv /\ Layers!NothingFloats => NothingFloats
  BY DirsInDir DEF Layers!NothingFloats, Layers!Outputs, NothingFloats, MayHaveOutputs, Outputs,
     StandingIn
<1>4. Spec => LayeredSpec
  BY ImplementsLayeredStack
<1>. QED  BY <1>1, <1>2, <1>3, <1>4, AlwaysSerialInv, PTL DEF LayeredSpec, Layers!Spec

-----------------------------------------------------------------------------
(* What a careful deploy leaves below it *)

(* What a deploy has finished is applied; the private step follows a whole    *)
(* directory.                                                                 *)
Built ==
    \A j \in Job : kind[j] \in {"deploy", "make-apply"} =>
        \A u \in Unit :
            /\ prog[j][u] = "ok" => state[u] = "applied"
            /\ phase[j] = "step" /\ u \in Scope(j) => prog[j][u] = "ok"

WholeBelow ==
    \A j \in Job : kind[j] = "deploy" =>
        \A u \in Unit : DirOf(u) < at[j] => state[u] = "applied"

CarefulInv == SerialInv /\ Built /\ WholeBelow

LEMMA ClearedCareful ==
    ASSUME CarefulInv, NEW j \in Job, ~Idle(j), UNCHANGED <<cloud, state>>,
           prog' = [prog EXCEPT ![j] = NoProgress],
           phase'[j] # "step",
           \A i \in Job : i # j => kind'[i] = kind[i],
           kind'[j] = "deploy" => \A u \in Unit : DirOf(u) < at'[j] => state[u] = "applied"
    PROVE  Built' /\ WholeBelow'
<1>1. \A u \in Unit : prog'[j][u] = "none"
  BY DEF NoProgress, CarefulInv, SerialInv, Inv, JobTypes
<1>2. \A i \in Job \ {j} : kind'[i] = "idle"
  BY OthersIdle DEF CarefulInv
<1>. QED  BY <1>1, <1>2 DEF Built, WholeBelow, DirOf

LEMMA EndJobCareful ==
    ASSUME CarefulInv, NEW j \in Job, ~Idle(j), UNCHANGED <<cloud, state>>, EndJob(j)
    PROVE  Built' /\ WholeBelow'
<1>1. kind'[j] = "idle" /\ phase'[j] = "idle"
  BY DEF EndJob, CarefulInv, SerialInv, Inv, JobTypes
<1>2. \A i \in Job : i # j => kind'[i] = kind[i]
  BY DEF EndJob
<1>. QED  BY <1>1, <1>2, ClearedCareful DEF EndJob

LEMMA RunAllFailedCareful ==
    ASSUME CarefulInv, NEW j \in Job, ~Idle(j), UNCHANGED <<cloud, state>>, RunAllFailed(j)
    PROVE  Built' /\ WholeBelow'
<1>1. CASE kind[j] = "destroy" /\ ~retried[j]
  <2>1. /\ phase' = [phase EXCEPT ![j] = "drain"]
        /\ prog' = [prog EXCEPT ![j] = NoProgress]
        /\ UNCHANGED <<kind, at>>
    BY <1>1, Zenon DEF RunAllFailed
  <2>2. phase'[j] # "step"
    BY <2>1 DEF CarefulInv, SerialInv, Inv, JobTypes
  <2>. QED  BY <1>1, <2>1, <2>2, ClearedCareful
<1>2. CASE ~(kind[j] = "destroy" /\ ~retried[j])
  <2>1. EndJob(j)
    BY <1>2, Zenon DEF RunAllFailed
  <2>. QED  BY <2>1, EndJobCareful
<1>. QED  BY <1>1, <1>2

LEMMA NextDirCareful ==
    ASSUME CarefulInv, NEW j \in Job, ~Idle(j), UNCHANGED <<cloud, state>>, NextDir(j),
           kind[j] = "deploy" => \A u \in Scope(j) : state[u] = "applied"
    PROVE  Built' /\ WholeBelow'
<1>1. CASE InLastDir(j)
  BY <1>1, EndJobCareful DEF NextDir
<1>2. CASE ~InLastDir(j)
  <2>1. /\ at' = [at EXCEPT ![j] = Following(j)]
        /\ phase' = [phase EXCEPT ![j] = "begin"]
        /\ prog' = [prog EXCEPT ![j] = NoProgress]
        /\ UNCHANGED kind
    BY <1>2 DEF NextDir
  <2>2. phase'[j] # "step" /\ at'[j] = Following(j)
    BY <2>1 DEF CarefulInv, SerialInv, Inv, JobTypes
  <2>3. ASSUME kind[j] = "deploy", NEW u \in Unit, DirOf(u) < at'[j]
        PROVE  state[u] = "applied"
    <3>1. /\ at'[j] = at[j] + 1 /\ at[j] \in Nat
      BY <2>2, <2>3, StackAssumption DEF Following, CarefulInv, SerialInv, Inv, JobTypes
    <3>2. DirOf(u) \in Nat
      BY DirsInDir, StackAssumption DEF CarefulInv
    <3>3. DirOf(u) < at[j] \/ DirOf(u) = at[j]
      BY <2>3, <3>1, <3>2
    <3>. QED  BY <2>3, <3>3 DEF Scope, CarefulInv, WholeBelow
  <2>. QED  BY <2>1, <2>2, <2>3, ClearedCareful
<1>. QED  BY <1>1, <1>2

LEMMA DispatchCareful ==
    ASSUME Serial, Careful, CarefulInv, NEW j \in Job, Dispatch(j)
    PROVE  Built' /\ WholeBelow'
<1>1. /\ UNCHANGED <<cloud, state, prog>>
      /\ \A i \in Job : Idle(i)
      /\ phase' = [phase EXCEPT ![j] = "begin"]
      /\ \A i \in Job : i # j => kind'[i] = kind[i]
  <2>1. \E k \in Entries, d \in Dir : Start(j, k, d)
    <3>1. 1 \in Dir
      BY StackAssumption DEF Dir
    <3>. QED  BY <3>1 DEF Dispatch, DispatchDeploy, DispatchDestroy, MakeApply, MakeDestroy, Entries
  <2>. QED  BY <2>1 DEF Start, Dispatch
<1>2. \A i \in Job : kind[i] = "idle" /\ \A u \in Unit : prog'[i][u] = "none"
  BY <1>1 DEF CarefulInv, SerialInv, Placed, Idle
<1>3. phase'[j] = "begin" /\ \A i \in Job \ {j} : kind'[i] = "idle"
  BY <1>1, <1>2 DEF CarefulInv, SerialInv, Inv, JobTypes
<1>4. Built'
  BY <1>1, <1>2, <1>3 DEF Built
<1>5. kind'[j] = "deploy" => \A u \in Unit : DirOf(u) < at'[j] => state[u] = "applied"
  <2>1. ASSUME NEW s \in Dir, DispatchDeploy(j, s)
        PROVE  \A u \in Unit : DirOf(u) < at'[j] => state[u] = "applied"
    BY <2>1 DEF DispatchDeploy, Start, CarefulInv, SerialInv, Inv, JobTypes
  <2>2. ASSUME NEW s \in Dir, DispatchDestroy(j, s)
        PROVE  kind'[j] # "deploy"
    BY <2>2 DEF DispatchDestroy, Start, CarefulInv, SerialInv, Inv, JobTypes
  <2>3. CASE MakeApply(j) \/ MakeDestroy(j)
    BY <2>3 DEF MakeApply, MakeDestroy, Start, CarefulInv, SerialInv, Inv, JobTypes
  <2>. QED  BY <2>1, <2>2, <2>3 DEF Dispatch
<1>6. WholeBelow'
  BY <1>1, <1>3, <1>5 DEF WholeBelow, DirOf
<1>. QED  BY <1>4, <1>6

LEMMA UnitStepCareful ==
    ASSUME CarefulInv, NEW j \in Job, NEW u \in Unit, UNCHANGED cloud, UnitStep(j, u)
    PROVE  Built' /\ WholeBelow'
<1>1. PICK p \in Progress :
        /\ Settle(j, u, p)
        /\ p = "ok" => UnitSucceeds(j, u)
        /\ \A v \in Unit : v # u => state'[v] = state[v]
        /\ prog[j][u] \in {"queued", "running"}
  BY DEF UnitStep, UnitStarts, UnitLacksOutputs, LockTimesOut, UnitSucceeds, UnitFails,
     UnitSkipped, Ready, stackVars, Progress, CarefulInv, SerialInv, Inv, StackTypes
<1>2. /\ ~Idle(j) /\ u \in Scope(j) /\ phase[j] \in {"run", "step"}
      /\ \A v \in Unit : prog'[j][v] = IF v = u THEN p ELSE prog[j][v]
      /\ UNCHANGED <<kind, at, phase>>
  BY <1>1 DEF Settle, Idle, CarefulInv, SerialInv, Placed, Inv, JobTypes
<1>3. \A i \in Job \ {j} : kind'[i] = "idle"
  BY <1>2, OthersIdle DEF CarefulInv
<1>4. kind[j] \in {"deploy", "make-apply"} /\ p = "ok" => state'[u] = "applied"
  BY <1>1 DEF UnitSucceeds, Destroying, CarefulInv, SerialInv, Inv, StackTypes
<1>5. kind[j] \in {"deploy", "make-apply"} => phase[j] # "step"
  BY <1>1, <1>2 DEF CarefulInv, Built
<1>6. Built'
  BY <1>1, <1>2, <1>3, <1>4, <1>5 DEF Built, CarefulInv
<1>7. kind[j] = "deploy" => DirOf(u) = at[j]
  BY <1>2 DEF Scope
<1>8. WholeBelow'
  <2>. SUFFICES ASSUME kind[j] = "deploy", NEW v \in Unit, DirOf(v) < at[j]
                PROVE  state'[v] = "applied"
    BY <1>2, <1>3 DEF WholeBelow, DirOf
  <2>1. at[j] \in Nat
    BY StackAssumption DEF CarefulInv, SerialInv, Inv, JobTypes
  <2>2. v # u
    BY <1>7, <2>1
  <2>. QED  BY <1>1, <2>2 DEF CarefulInv, WholeBelow
<1>. QED  BY <1>6, <1>8

LEMMA JobStepCareful ==
    ASSUME CarefulInv, NEW j \in Job, JobStep(j)
    PROVE  Built' /\ WholeBelow'
<1>1. UNCHANGED cloud
  BY DEF JobStep
<1>2. CASE BeginRunAll(j)
  <2>1. ~Idle(j) /\ UNCHANGED <<cloud, state>>
    BY <1>1, <1>2 DEF BeginRunAll, Idle, stackVars
  <2>2. CASE Parses(j)
    <3>1. /\ phase'[j] = "run"
          /\ \A u \in Unit : prog'[j][u] \in {"queued", "none"}
          /\ UNCHANGED <<kind, at>>
      BY <1>2, <2>2 DEF BeginRunAll, CarefulInv, SerialInv, Inv, JobTypes
    <3>2. \A i \in Job \ {j} : kind'[i] = "idle"
      BY <2>1, <3>1, OthersIdle DEF CarefulInv
    <3>. QED  BY <2>1, <3>1, <3>2 DEF Built, WholeBelow, DirOf, CarefulInv
  <2>3. CASE ~Parses(j)
    BY <1>2, <2>1, <2>3, RunAllFailedCareful DEF BeginRunAll
  <2>. QED  BY <2>2, <2>3
<1>3. ASSUME NEW u \in Unit, UnitStep(j, u)
      PROVE  Built' /\ WholeBelow'
  BY <1>1, <1>3, UnitStepCareful
<1>4. CASE EndRunAll(j)
  <2>1. ~Idle(j) /\ UNCHANGED <<cloud, state>>
    BY <1>1, <1>4 DEF EndRunAll, Idle, stackVars
  <2>2. CASE \E u \in Scope(j) : prog[j][u] # "ok"
    BY <1>4, <2>1, <2>2, RunAllFailedCareful DEF EndRunAll
  <2>3. CASE /\ ~(\E u \in Scope(j) : prog[j][u] # "ok")
             /\ kind[j] = "deploy" /\ at[j] \in StepAfter[cloud]
    <3>1. phase' = [phase EXCEPT ![j] = "step"] /\ UNCHANGED <<kind, at, prog>>
      BY <1>4, <2>3 DEF EndRunAll
    <3>2. \A i \in Job \ {j} : kind'[i] = "idle"
      BY <2>1, <3>1, OthersIdle DEF CarefulInv
    <3>. QED  BY <2>1, <2>3, <3>1, <3>2
         DEF Built, WholeBelow, DirOf, Scope, CarefulInv, SerialInv, Inv, JobTypes
  <2>4. CASE /\ ~(\E u \in Scope(j) : prog[j][u] # "ok")
             /\ ~(kind[j] = "deploy" /\ at[j] \in StepAfter[cloud])
    <3>1. NextDir(j)
      BY <1>4, <2>4 DEF EndRunAll
    <3>2. kind[j] = "deploy" => \A u \in Scope(j) : state[u] = "applied"
      BY <2>4 DEF CarefulInv, Built, Scope
    <3>. QED  BY <2>1, <3>1, <3>2, NextDirCareful
  <2>. QED  BY <2>2, <2>3, <2>4
<1>5. CASE StepEnds(j)
  <2>1. ~Idle(j) /\ UNCHANGED <<cloud, state>>
    BY <1>1, <1>5 DEF StepEnds, Idle, stackVars
  <2>2. kind[j] = "deploy" => \A u \in Scope(j) : state[u] = "applied"
    BY <1>5 DEF StepEnds, CarefulInv, Built, Scope
  <2>. QED  BY <1>5, <2>1, <2>2, NextDirCareful, EndJobCareful DEF StepEnds
<1>6. CASE DrainEnds(j)
  <2>1. ~Idle(j) /\ UNCHANGED <<cloud, state>>
    BY <1>1, <1>6 DEF DrainEnds, Idle, stackVars
  <2>2. CASE EndJob(j)
    BY <2>1, <2>2, EndJobCareful
  <2>3. CASE ~EndJob(j)
    <3>1. phase' = [phase EXCEPT ![j] = "begin"] /\ UNCHANGED <<kind, at, prog>>
      BY <1>6, <2>3 DEF DrainEnds
    <3>2. phase'[j] = "begin" /\ \A i \in Job \ {j} : kind'[i] = "idle"
      BY <2>1, <3>1, OthersIdle DEF CarefulInv, SerialInv, Inv, JobTypes
    <3>. QED  BY <2>1, <3>1, <3>2 DEF Built, WholeBelow, DirOf, CarefulInv
  <2>. QED  BY <2>2, <2>3
<1>. QED  BY <1>2, <1>3, <1>4, <1>5, <1>6 DEF JobStep

LEMMA KilledCareful ==
    ASSUME CarefulInv, NEW j \in Job, Killed(j)
    PROVE  Built' /\ WholeBelow'
<1>1. ~Idle(j) /\ EndJob(j)
  BY DEF Killed
<1>2. \A i \in Job : kind'[i] = "idle"
  BY <1>1, OthersIdle DEF EndJob, CarefulInv, SerialInv, Inv, JobTypes
<1>. QED  BY <1>2 DEF Built, WholeBelow

THEOREM AlwaysCarefulInv == ASSUME Serial, Careful PROVE Spec => []CarefulInv
<1>. SUFFICES ASSUME Serial, Careful PROVE Spec => []CarefulInv
  OBVIOUS
<1>1. Init => CarefulInv
  BY InitSerial DEF Init, CarefulInv, Built, WholeBelow
<1>2. CarefulInv /\ [Next]_vars => CarefulInv'
  <2>. SUFFICES ASSUME CarefulInv, [Next]_vars
                PROVE  Built' /\ WholeBelow'
    BY NextSerial DEF CarefulInv
  <2>1. CASE Next
    BY <2>1, DispatchCareful, JobStepCareful, KilledCareful DEF Next
  <2>2. CASE UNCHANGED vars
    BY <2>2 DEF vars, CarefulInv, Built, WholeBelow, DirOf, Scope
  <2>. QED  BY <2>1, <2>2
<1>. QED  BY <1>1, <1>2, PTL DEF Spec

(* The loop's order and run-all's together honour the ordering-only edges of  *)
(* any stack whose edges lead down, and a deploy finds every output.          *)
LEMMA ReadyFindsAll ==
    ASSUME CarefulInv, NEW j \in Job, kind[j] = "deploy", NEW u \in Unit, Ready(j, u),
           NEW d \in Needs(u)
    PROVE  state[d] = "applied"
<1>1. d \in Unit /\ DirOf(d) <= DirOf(u)
  BY StackAssumption, EdgesLeadDown
  DEF UnitsOver, DirOf, Needs, Outputs, After, CarefulInv, SerialInv, Inv, StackTypes
<1>2. DirOf(u) = at[j]
  BY DEF Ready, Scope, CarefulInv, SerialInv, Placed
<1>3. at[j] \in Nat /\ DirOf(d) \in Nat
  BY <1>1, DirsInDir, StackAssumption DEF CarefulInv, SerialInv, Inv, JobTypes
<1>4. CASE DirOf(d) = at[j]
  <2>1. d \in Before(j, u)
    BY <1>1, <1>4 DEF Before, Scope, Destroying
  <2>. QED  BY <1>1, <2>1 DEF Ready, CarefulInv, Built
<1>5. CASE DirOf(d) # at[j]
  <2>1. DirOf(d) < at[j]
    BY <1>1, <1>2, <1>3, <1>5
  <2>. QED  BY <1>1, <2>1 DEF CarefulInv, WholeBelow
<1>. QED  BY <1>4, <1>5

(* A deploy's Terraform only ever runs on units that stand on applied ones. *)
Grounded ==
    \A j \in Job : kind[j] = "deploy" =>
        \A u \in Unit :
            prog[j][u] \in {"running", "ok"} => \A d \in Needs(u) : state[d] = "applied"

LEMMA UnitStepGrounded ==
    ASSUME CarefulInv, Grounded, NEW j \in Job, NEW u \in Unit, UNCHANGED cloud, UnitStep(j, u)
    PROVE  Grounded'
<1>1. PICK p \in Progress :
        /\ Settle(j, u, p)
        /\ p = "running" => Ready(j, u)
        /\ p = "ok" => prog[j][u] = "running"
        /\ prog[j][u] \in {"queued", "running"}
  BY DEF UnitStep, UnitStarts, UnitLacksOutputs, LockTimesOut, UnitSucceeds, UnitFails,
     UnitSkipped, Ready, Progress
<1>2. /\ ~Idle(j)
      /\ \A v \in Unit : prog'[j][v] = IF v = u THEN p ELSE prog[j][v]
      /\ UNCHANGED kind
  BY <1>1 DEF Settle, Idle, CarefulInv, SerialInv, Placed, Inv, JobTypes
<1>3. kind[j] = "deploy" => \A d \in Unit : state[d] = "applied" => state'[d] = "applied"
  BY DEF UnitStep, UnitStarts, UnitLacksOutputs, LockTimesOut, UnitSucceeds, UnitFails, UnitSkipped,
     Breakable, Destroying, stackVars, CarefulInv, SerialInv, Inv, StackTypes
<1>4. \A i \in Job \ {j} : kind'[i] = "idle"
  BY <1>2, OthersIdle DEF CarefulInv
<1>5. \A v \in Unit : Needs(v) \subseteq Unit /\ Needs(v)' = Needs(v)
  BY StackAssumption
  DEF UnitsOver, Needs, Outputs, After, CarefulInv, SerialInv, Inv, StackTypes
<1>. SUFFICES ASSUME kind[j] = "deploy", NEW v \in Unit, prog'[j][v] \in {"running", "ok"},
                     NEW d \in Needs(v)
              PROVE  state'[d] = "applied"
  BY <1>2, <1>4, <1>5 DEF Grounded
<1>6. CASE v = u /\ p = "running"
  <2>1. state[d] = "applied"
    BY <1>1, <1>6, ReadyFindsAll
  <2>. QED  BY <1>3, <1>5, <2>1
<1>7. CASE ~(v = u /\ p = "running")
  <2>1. prog[j][v] \in {"running", "ok"}
    BY <1>1, <1>2, <1>7
  <2>2. state[d] = "applied"
    BY <2>1 DEF Grounded
  <2>. QED  BY <1>3, <1>5, <2>2
<1>. QED  BY <1>6, <1>7

(* Every other step of a job leaves the state alone and begins no unit. *)
LEMMA OtherStepGrounded ==
    ASSUME CarefulInv, Grounded, NEW j \in Job, UNCHANGED cloud,
           BeginRunAll(j) \/ EndRunAll(j) \/ StepEnds(j) \/ DrainEnds(j) \/ Killed(j)
    PROVE  Grounded'
<1>1. ~Idle(j)
  BY DEF BeginRunAll, EndRunAll, StepEnds, DrainEnds, Killed, Idle
<1>2. \A i \in Job \ {j} : kind[i] = "idle"
  BY <1>1, OthersIdle DEF CarefulInv, SerialInv, Placed, Idle
<1>3. EndJob(j) => kind' = [i \in Job |-> "idle"]
  BY <1>2 DEF EndJob, CarefulInv, SerialInv, Inv, JobTypes
<1>4. CASE EndJob(j)
  BY <1>3, <1>4 DEF Grounded
<1>5. CASE ~EndJob(j)
  <2>1. UNCHANGED state /\ kind' = kind
    <3>1. RunAllFailed(j) => kind' = kind
      BY <1>5 DEF RunAllFailed
    <3>2. NextDir(j) => kind' = kind
      BY <1>5 DEF NextDir
    <3>. QED  BY <1>5, <3>1, <3>2 DEF BeginRunAll, EndRunAll, StepEnds, DrainEnds, Killed, stackVars
  <2>2. prog' = prog \/ \A u \in Unit : prog'[j][u] \in {"none", "queued"}
    <3>1. RunAllFailed(j) => \A u \in Unit : prog'[j][u] = "none"
      BY <1>5 DEF RunAllFailed, NoProgress, CarefulInv, SerialInv, Inv, JobTypes
    <3>2. NextDir(j) => \A u \in Unit : prog'[j][u] = "none"
      BY <1>5 DEF NextDir, NoProgress, CarefulInv, SerialInv, Inv, JobTypes
    <3>3. BeginRunAll(j) => \A u \in Unit : prog'[j][u] \in {"none", "queued"}
      BY <3>1 DEF BeginRunAll, CarefulInv, SerialInv, Inv, JobTypes
    <3>. QED  BY <1>5, <3>1, <3>2, <3>3 DEF EndRunAll, StepEnds, DrainEnds, Killed
  <2>3. \A v \in Unit : Needs(v)' = Needs(v)
    BY DEF Needs, Outputs, After
  <2>. QED  BY <1>2, <2>1, <2>2, <2>3 DEF Grounded
<1>. QED  BY <1>4, <1>5

(* A deploy started as documented has all below it applied, at every moment,  *)
(* and runs no unit, of this directory either, on one that is not.            *)
THEOREM DeployStopsAtFailureHolds ==
    ASSUME Serial, Careful PROVE Spec => []DeployStopsAtFailure
<1>. SUFFICES ASSUME Serial, Careful PROVE Spec => []DeployStopsAtFailure
  OBVIOUS
<1>1. Init => Grounded
  BY DEF Init, Grounded
<1>2. CarefulInv /\ Grounded /\ [Next]_vars => Grounded'
  <2>. SUFFICES ASSUME CarefulInv, Grounded, [Next]_vars
                PROVE  Grounded'
    OBVIOUS
  <2>1. ASSUME NEW j \in Job, Dispatch(j)
        PROVE  Grounded'
    <3>1. UNCHANGED <<cloud, state, prog>> /\ \A i \in Job : Idle(i)
      BY <2>1 DEF Dispatch, DispatchDeploy, DispatchDestroy, MakeApply, MakeDestroy, Start
    <3>2. \A i \in Job : \A u \in Unit : prog'[i][u] = "none"
      BY <3>1 DEF CarefulInv, SerialInv, Placed, Idle
    <3>. QED  BY <3>1, <3>2 DEF Grounded
  <2>2. ASSUME NEW j \in Job, JobStep(j)
        PROVE  Grounded'
    BY <2>2, UnitStepGrounded, OtherStepGrounded DEF JobStep
  <2>3. ASSUME NEW j \in Job, Killed(j)
        PROVE  Grounded'
    BY <2>3, OtherStepGrounded DEF Killed
  <2>4. CASE UNCHANGED vars
    BY <2>4 DEF vars, Grounded, Needs, Outputs, After
  <2>. QED  BY <2>1, <2>2, <2>3, <2>4 DEF Next
<1>3. CarefulInv /\ Grounded => DeployStopsAtFailure
  BY DEF CarefulInv, WholeBelow, Grounded, DeployStopsAtFailure
<1>. QED  BY <1>1, <1>2, <1>3, AlwaysCarefulInv, PTL DEF Spec

(* A unit a deploy is about to start finds all it is ordered after applied.   *)
THEOREM LoopHonoursOrderHolds == ASSUME Serial, Careful PROVE Spec => []LoopHonoursOrder
<1>. SUFFICES ASSUME Serial, Careful PROVE Spec => []LoopHonoursOrder
  OBVIOUS
<1>1. CarefulInv => LoopHonoursOrder
  BY ReadyFindsAll DEF LoopHonoursOrder, Needs
<1>. QED  BY <1>1, AlwaysCarefulInv, PTL

-----------------------------------------------------------------------------
(* What a deploy finds when it asks *)

(* Jobs are of the kinds somebody starts. *)
KindsOffered == \A j \in Job : kind[j] \in Entry \cup {"idle"}

LEMMA KindsStay ==
    ASSUME SerialInv, KindsOffered, [Next]_vars
    PROVE  KindsOffered'
<1>1. ASSUME NEW j \in Job, Dispatch(j)
      PROVE  KindsOffered'
  <2>1. \E k \in Entry : kind' = [kind EXCEPT ![j] = k]
    BY <1>1 DEF Dispatch, DispatchDeploy, DispatchDestroy, MakeApply, MakeDestroy, Start
  <2>. QED  BY <2>1 DEF KindsOffered, SerialInv, Inv, JobTypes
<1>2. ASSUME NEW j \in Job, JobStep(j) \/ Killed(j)
      PROVE  KindsOffered'
  <2>1. kind' = kind \/ kind' = [kind EXCEPT ![j] = "idle"]
    <3>1. RunAllFailed(j) => kind' = kind \/ EndJob(j)
      BY DEF RunAllFailed
    <3>2. NextDir(j) => kind' = kind \/ EndJob(j)
      BY DEF NextDir
    <3>3. BeginRunAll(j) => kind' = kind \/ EndJob(j)
      BY <3>1 DEF BeginRunAll
    <3>4. EndRunAll(j) => kind' = kind \/ EndJob(j)
      BY <3>1, <3>2 DEF EndRunAll
    <3>5. \A u \in Unit : UnitStep(j, u) => kind' = kind
      BY DEF UnitStep, UnitStarts, UnitLacksOutputs, LockTimesOut, UnitSucceeds, UnitFails,
         UnitSkipped, Settle
    <3>6. kind' = kind \/ EndJob(j)
      BY <1>2, <3>2, <3>3, <3>4, <3>5 DEF JobStep, StepEnds, DrainEnds, Killed
    <3>. QED  BY <3>6 DEF EndJob
  <2>. QED  BY <2>1 DEF KindsOffered, SerialInv, Inv, JobTypes
<1>3. CASE UNCHANGED vars
  BY <1>3 DEF vars, KindsOffered
<1>. QED  BY <1>1, <1>2, <1>3 DEF Next

(* Without make, and with secrets in directories below their readers, a       *)
(* careful deploy of any stack never fails for a secret or an output that is  *)
(* not there, whatever failed deploys and destroys have left behind.          *)
THEOREM NoMissingPrerequisiteHolds ==
    ASSUME Serial, Careful, "make-apply" \notin Entry, SecretsBelow
    PROVE  Spec => []NoMissingPrerequisite
<1>. SUFFICES ASSUME Serial, Careful, "make-apply" \notin Entry, SecretsBelow
              PROVE  Spec => []NoMissingPrerequisite
  OBVIOUS
<1>1. CarefulInv /\ KindsOffered => NoMissingPrerequisite
  <2>. SUFFICES ASSUME CarefulInv, KindsOffered, NEW j \in Job,
                       kind[j] \in {"deploy", "make-apply"}
                PROVE  /\ phase[j] = "begin" => Parses(j)
                       /\ \A u \in Unit : Ready(j, u) => SureOfOutputs(u)
    BY DEF NoMissingPrerequisite
  <2>1. kind[j] = "deploy"
    BY DEF KindsOffered
  <2>2. ASSUME NEW u \in Scope(j), NEW s \in Secrets(u)
        PROVE  state[s] # "absent"
    <3>1. u \in Unit /\ DirOf(u) = at[j]
      BY <2>1 DEF Scope
    <3>2. s \in Unit /\ DirOf(s) < DirOf(u)
      BY <2>2, <3>1, StackAssumption
      DEF SecretsBelow, UnitsOver, DirOf, Secrets, CarefulInv, SerialInv, Inv, StackTypes
    <3>3. state[s] = "applied"
      BY <2>1, <3>1, <3>2 DEF CarefulInv, WholeBelow
    <3>. QED  BY <3>3
  <2>3. ASSUME NEW u \in Unit, Ready(j, u), NEW d \in Outputs(u)
        PROVE  state[d] = "applied"
    BY <2>1, <2>3, ReadyFindsAll DEF Needs
  <2>. QED  BY <2>2, <2>3 DEF Parses, SureOfOutputs
<1>2. Init => KindsOffered
  BY DEF Init, KindsOffered
<1>. QED  BY <1>1, <1>2, KindsStay, AlwaysSerialInv, AlwaysCarefulInv, PTL DEF Spec

=============================================================================
