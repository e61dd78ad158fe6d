------------------------------- MODULE RunAll -------------------------------
(***************************************************************************)
(* The deploy and destroy workflows over one cloud's Terragrunt stack.     *)
(*                                                                         *)
(* A stack is a set of units (one terragrunt.hcl, one Terraform state each)*)
(* laid out in numbered top-level directories: foundation = 1, network,    *)
(* security, storage, integration, data_platform = 6.  A job walks the     *)
(* directories, upwards to deploy and downwards to destroy, and calls      *)
(* `terragrunt run-all` in each.  run-all parses every unit of its scope   *)
(* first (run_cmd reads secrets while parsing), then runs the units, each  *)
(* under its own state lock, in the order of the dependency edges that     *)
(* stay inside the scope.  Edges that leave the scope are not run: a       *)
(* `dependency` block needs the other unit's outputs in remote state, a    *)
(* `dependencies` block asks for nothing at all.                           *)
(***************************************************************************)
EXTENDS Naturals, FiniteSets

CONSTANTS
    Stack,      \* cloud by cloud, what each unit's terragrunt.hcl says
    DirCount,   \* how many top-level directories the loop walks
    StepAfter,  \* by cloud, the directories a private deploy follows with a script
    Entry,      \* the ways a job is started, a subset of Entries
    Job,        \* workflow runs and make invocations
    Serial,     \* TRUE: a job is only started when no other is under way
    Parallel,   \* bound: how many units a run-all has Terraform running on at once
    StaleLocks, \* bound: how many state locks killed jobs may leave behind
    Careful     \* TRUE: start_from is used as the workflows document it

Entries == {"deploy", "destroy", "make-apply", "make-destroy"}

Free == "free"      \* nobody holds the unit's state lock
Stale == "stale"    \* the holder was killed and never released it

Dir == 1..DirCount

(* The directory of a unit; the units whose outputs its `dependency` blocks   *)
(* read; those its `dependencies` paths only order it after; those whose      *)
(* secret it reads when it is parsed.                                         *)
UnitsOver(names) ==
    [dir : Dir, outputs : SUBSET names, after : SUBSET names, secrets : SUBSET names]

ASSUME StackAssumption ==
    /\ DirCount \in Nat \ {0}
    /\ \A c \in DOMAIN Stack : Stack[c] \in [DOMAIN Stack[c] -> UnitsOver(DOMAIN Stack[c])]
    /\ StepAfter \in [DOMAIN Stack -> SUBSET Dir]
    /\ Entry \subseteq Entries
    /\ Parallel \in Nat \ {0}
    /\ StaleLocks \in Nat
    /\ Serial \in BOOLEAN
    /\ Careful \in BOOLEAN

(* No edge leads up: what a unit needs is deployed with it or before it. *)
ASSUME EdgesLeadDown ==
    \A c \in DOMAIN Stack : \A u \in DOMAIN Stack[c] :
        \A v \in Stack[c][u].outputs \cup Stack[c][u].after : Stack[c][v].dir <= Stack[c][u].dir

(* What a file reads while it is parsed is deployed in an earlier directory. *)
SecretsBelow ==
    \A c \in DOMAIN Stack : \A u \in DOMAIN Stack[c] :
        \A s \in Stack[c][u].secrets : Stack[c][s].dir < Stack[c][u].dir

ASSUME JobAssumption == Free \notin Job /\ Stale \notin Job

VARIABLES
    cloud,      \* the cloud the workflows are dispatched for
    state,      \* [Unit -> {"absent", "partial", "applied"}]: what its Terraform state holds
    lock,       \* [Unit -> Job, Free or Stale]: the DynamoDB lock on that state
    left,       \* the units some destroy has warned it leaves standing
    kind,       \* [Job -> Entries or "idle"]
    at,         \* [Job -> Dir]: the directory the loop is in
    phase,      \* [Job -> Phases]: where the job is inside the iteration
    prog,       \* [Job -> [Unit -> Progress]]: the units of the current run-all
    retried     \* [Job -> BOOLEAN]: this directory's one retry is spent

stackVars == <<state, lock, left>>
vars == <<cloud, state, lock, left, kind, at, phase, prog, retried>>

Phases == {"idle", "begin", "run", "step", "drain"}
Progress == {"none", "queued", "running", "ok", "failed", "skipped"}

Unit == DOMAIN Stack[cloud]
DirOf(u) == Stack[cloud][u].dir
Outputs(u) == Stack[cloud][u].outputs
After(u) == Stack[cloud][u].after
Secrets(u) == Stack[cloud][u].secrets

(* Mistake: the ordering-only paths are forgotten. *)
NeedsOutputsOnly(u) == Outputs(u)

(* Every unit u depends on. *)
Needs(u) == Outputs(u) \cup After(u)

NoProgress == [u \in Unit |-> "none"]

-----------------------------------------------------------------------------
(* State functions *)

Idle(j) == phase[j] = "idle"
Destroying(j) == kind[j] \in {"destroy", "make-destroy"}

(* A workflow loop runs one directory at a time, make the whole cloud. *)
Scope(j) ==
    IF kind[j] \in {"make-apply", "make-destroy"}
    THEN Unit
    ELSE {u \in Unit : DirOf(u) = at[j]}

(* Mistake: a destroy runs the units in the order of a deploy. *)
BeforeAlwaysUpwards(j, u) == {v \in Scope(j) : v \in Needs(u)}

(* The units of the scope that run-all must finish before it starts u. *)
Before(j, u) ==
    {v \in Scope(j) : IF Destroying(j) THEN u \in Needs(v) ELSE v \in Needs(u)}

(* run_cmd finds every secret the scope reads. *)
Parses(j) == \A u \in Scope(j) : \A s \in Secrets(u) : state[s] # "absent"

(* A `dependency` block needs the other unit's outputs in remote state.  A   *)
(* unit whose apply or destroy broke off may or may not have written them.   *)
MayHaveOutputs(u) == \A d \in Outputs(u) : state[d] # "absent"
SureOfOutputs(u) == \A d \in Outputs(u) : state[d] = "applied"

Running(j) == {u \in Unit : prog[j][u] = "running"}

StandingIn(D) == {u \in Unit : DirOf(u) \in D /\ state[u] # "absent"}

-----------------------------------------------------------------------------
Init ==
    /\ cloud \in DOMAIN Stack
    /\ state = [u \in Unit |-> "absent"]
    /\ lock = [u \in Unit |-> Free]
    /\ left = {}
    /\ kind = [j \in Job |-> "idle"]
    /\ at = [j \in Job |-> 1]
    /\ phase = [j \in Job |-> "idle"]
    /\ prog = [j \in Job |-> NoProgress]
    /\ retried = [j \in Job |-> FALSE]

-----------------------------------------------------------------------------
(* Starting a job *)

Start(j, k, d) ==
    /\ k \in Entry
    /\ Idle(j)
    /\ Serial => \A i \in Job : Idle(i)
    /\ kind' = [kind EXCEPT ![j] = k]
    /\ at' = [at EXCEPT ![j] = d]
    /\ phase' = [phase EXCEPT ![j] = "begin"]
    /\ retried' = [retried EXCEPT ![j] = FALSE]
    /\ UNCHANGED <<state, lock, prog>>

(* deploy skips the directories below start_from: they "must already be applied". *)
DispatchDeploy(j, s) ==
    /\ Careful => \A u \in Unit : DirOf(u) < s => state[u] = "applied"
    /\ Start(j, "deploy", s)
    /\ UNCHANGED left

(* Mistake: the layers above start_from are skipped without a word. *)
DispatchDestroySilently(j, s) == Start(j, "destroy", s) /\ UNCHANGED left

(* destroy begins at start_from and prints LEFT STANDING for what is above. *)
DispatchDestroy(j, s) ==
    /\ Careful => StandingIn((s + 1)..DirCount) = {}
    /\ Start(j, "destroy", s)
    /\ left' = left \cup StandingIn((s + 1)..DirCount)

MakeApply(j) == Start(j, "make-apply", 1) /\ UNCHANGED left

MakeDestroy(j) == Start(j, "make-destroy", 1) /\ UNCHANGED left

-----------------------------------------------------------------------------
(* How an iteration of the loop ends *)

EndJob(j) ==
    /\ kind' = [kind EXCEPT ![j] = "idle"]
    /\ phase' = [phase EXCEPT ![j] = "idle"]
    /\ prog' = [prog EXCEPT ![j] = NoProgress]
    /\ UNCHANGED <<at, retried>>

(* set -e ends a deploy; a destroy drains and runs the directory once more. *)
RunAllFailed(j) ==
    IF kind[j] = "destroy" /\ ~retried[j]
    THEN /\ phase' = [phase EXCEPT ![j] = "drain"]
         /\ prog' = [prog EXCEPT ![j] = NoProgress]
         /\ UNCHANGED <<kind, at, retried>>
    ELSE EndJob(j)

InLastDir(j) ==
    \/ kind[j] \in {"make-apply", "make-destroy"}
    \/ kind[j] = "deploy" /\ at[j] = DirCount
    \/ kind[j] = "destroy" /\ at[j] = 1

Following(j) == IF kind[j] = "destroy" THEN at[j] - 1 ELSE at[j] + 1

(* Mistake: the loop runs one directory too far. *)
NextDirOverrun(j) ==
    /\ at' = [at EXCEPT ![j] = Following(j)]
    /\ phase' = [phase EXCEPT ![j] = "begin"]
    /\ prog' = [prog EXCEPT ![j] = NoProgress]
    /\ retried' = [retried EXCEPT ![j] = FALSE]
    /\ UNCHANGED kind

(* The next directory of the loop, or the end of the job after the last. *)
NextDir(j) ==
    IF InLastDir(j)
    THEN EndJob(j)
    ELSE /\ at' = [at EXCEPT ![j] = Following(j)]
         /\ phase' = [phase EXCEPT ![j] = "begin"]
         /\ prog' = [prog EXCEPT ![j] = NoProgress]
         /\ retried' = [retried EXCEPT ![j] = FALSE]
         /\ UNCHANGED kind

-----------------------------------------------------------------------------
(* terragrunt run-all *)

BeginRunAll(j) ==
    /\ phase[j] = "begin"
    /\ IF Parses(j)
       THEN /\ phase' = [phase EXCEPT ![j] = "run"]
            /\ prog' = [prog EXCEPT ![j] =
                           [u \in Unit |-> IF u \in Scope(j) THEN "queued" ELSE "none"]]
            /\ UNCHANGED <<kind, at, retried>>
       ELSE RunAllFailed(j)
    /\ UNCHANGED stackVars

Ready(j, u) ==
    /\ phase[j] = "run"
    /\ prog[j][u] = "queued"
    /\ \A v \in Before(j, u) : prog[j][v] = "ok"

Settle(j, u, p) ==
    /\ prog' = [prog EXCEPT ![j][u] = p]
    /\ UNCHANGED <<kind, at, phase, retried>>

(* Mistake: -lock=false. *)
UnitStartsUnlocked(j, u) ==
    /\ Ready(j, u)
    /\ MayHaveOutputs(u)
    /\ lock' = [lock EXCEPT ![u] = j]
    /\ Settle(j, u, "running")
    /\ UNCHANGED <<state, left>>

(* The unit takes its state lock and Terraform starts on it. *)
UnitStarts(j, u) ==
    /\ Ready(j, u)
    /\ MayHaveOutputs(u)
    /\ Cardinality(Running(j)) < Parallel
    /\ lock[u] = Free
    /\ lock' = [lock EXCEPT ![u] = j]
    /\ Settle(j, u, "running")
    /\ UNCHANGED <<state, left>>

(* A `dependency` block finds no outputs: the unit fails before Terraform runs. *)
UnitLacksOutputs(j, u) ==
    /\ Ready(j, u)
    /\ ~SureOfOutputs(u)
    /\ Settle(j, u, "failed")
    /\ UNCHANGED stackVars

(* -lock-timeout=20m runs out while somebody else holds the lock. *)
LockTimesOut(j, u) ==
    /\ Ready(j, u)
    /\ MayHaveOutputs(u)
    /\ lock[u] # Free
    /\ Settle(j, u, "failed")
    /\ UNCHANGED stackVars

UnitSucceeds(j, u) ==
    /\ prog[j][u] = "running"
    /\ state' = [state EXCEPT ![u] = IF Destroying(j) THEN "absent" ELSE "applied"]
    /\ left' = left \ {u}
    /\ lock' = [lock EXCEPT ![u] = Free]
    /\ Settle(j, u, "ok")

(* Terraform failing half-way leaves a unit that was whole, or not there, partial. *)
Breakable(j, u) == state[u] = IF Destroying(j) THEN "applied" ELSE "absent"

(* Mistake: the lock of a failed unit is not released. *)
UnitFailsLocked(j, u) ==
    /\ prog[j][u] = "running"
    /\ \/ UNCHANGED state
       \/ Breakable(j, u) /\ state' = [state EXCEPT ![u] = "partial"]
    /\ Settle(j, u, "failed")
    /\ UNCHANGED <<lock, left>>

UnitFails(j, u) ==
    /\ prog[j][u] = "running"
    /\ \/ UNCHANGED state
       \/ Breakable(j, u) /\ state' = [state EXCEPT ![u] = "partial"]
    /\ lock' = [lock EXCEPT ![u] = Free]
    /\ Settle(j, u, "failed")
    /\ UNCHANGED left

(* A unit that run-all was holding back for one that failed fails with it. *)
UnitSkipped(j, u) ==
    /\ phase[j] = "run"
    /\ prog[j][u] = "queued"
    /\ \E v \in Before(j, u) : prog[j][v] \in {"failed", "skipped"}
    /\ Settle(j, u, "skipped")
    /\ UNCHANGED stackVars

(* Mistake: the loop without set -e. *)
EndRunAllRegardless(j) ==
    /\ phase[j] = "run"
    /\ \A u \in Scope(j) : prog[j][u] \in {"ok", "failed", "skipped"}
    /\ NextDir(j)
    /\ UNCHANGED stackVars

EndRunAll(j) ==
    /\ phase[j] = "run"
    /\ \A u \in Scope(j) : prog[j][u] \in {"ok", "failed", "skipped"}
    /\ IF \E u \in Scope(j) : prog[j][u] # "ok"
       THEN RunAllFailed(j)
       ELSE IF kind[j] = "deploy" /\ at[j] \in StepAfter[cloud]
       THEN /\ phase' = [phase EXCEPT ![j] = "step"]
            /\ UNCHANGED <<kind, at, prog, retried>>
       ELSE NextDir(j)
    /\ UNCHANGED stackVars

-----------------------------------------------------------------------------
(* The scripts between two run-alls *)

(* Private mode: the image build or the schema task the directory is followed by. *)
StepEnds(j) ==
    /\ phase[j] = "step"
    /\ NextDir(j) \/ EndJob(j)
    /\ UNCHANGED stackVars

(* Mistake: the drain in a loop, until the directory goes. *)
DrainEndsInALoop(j) ==
    /\ phase[j] = "drain"
    /\ phase' = [phase EXCEPT ![j] = "begin"]
    /\ UNCHANGED <<kind, at, prog, retried>>
    /\ UNCHANGED stackVars

(* drain-endpoint-service.sh, then the directory again. *)
DrainEnds(j) ==
    /\ phase[j] = "drain"
    /\ \/ /\ phase' = [phase EXCEPT ![j] = "begin"]
          /\ retried' = [retried EXCEPT ![j] = TRUE]
          /\ UNCHANGED <<kind, at, prog>>
       \/ EndJob(j)
    /\ UNCHANGED stackVars

(* The runner is cancelled or lost: Terraform may or may not release its locks. *)
Killed(j) ==
    /\ ~Idle(j)
    /\ \E broken \in SUBSET {u \in Running(j) : Breakable(j, u)}, stuck \in SUBSET Running(j) :
         /\ Cardinality(stuck \cup {u \in Unit : lock[u] = Stale}) <= StaleLocks
         /\ state' = [u \in Unit |-> IF u \in broken THEN "partial" ELSE state[u]]
         /\ lock' = [u \in Unit |-> IF u \in stuck THEN Stale
                                    ELSE IF u \in Running(j) THEN Free ELSE lock[u]]
    /\ EndJob(j)
    /\ UNCHANGED <<cloud, left>>

-----------------------------------------------------------------------------
Dispatch(j) ==
    /\ \/ \E s \in Dir : DispatchDeploy(j, s) \/ DispatchDestroy(j, s)
       \/ MakeApply(j)
       \/ MakeDestroy(j)
    /\ UNCHANGED cloud

UnitStep(j, u) ==
    \/ UnitStarts(j, u)
    \/ UnitLacksOutputs(j, u)
    \/ LockTimesOut(j, u)
    \/ UnitSucceeds(j, u)
    \/ UnitFails(j, u)
    \/ UnitSkipped(j, u)

JobStep(j) ==
    /\ \/ BeginRunAll(j)
       \/ \E u \in Unit : UnitStep(j, u)
       \/ EndRunAll(j)
       \/ StepEnds(j)
       \/ DrainEnds(j)
    /\ UNCHANGED cloud

Next == \E j \in Job : Dispatch(j) \/ JobStep(j) \/ Killed(j)

Spec == Init /\ [][Next]_vars

(* A job that can move does; nobody has to start one. *)
FairSpec == Spec /\ \A j \in Job : WF_vars(JobStep(j))

-----------------------------------------------------------------------------
(* Properties *)

TypeOK ==
    /\ cloud \in DOMAIN Stack
    /\ state \in [Unit -> {"absent", "partial", "applied"}]
    /\ lock \in [Unit -> Job \cup {Free, Stale}]
    /\ left \subseteq Unit
    /\ kind \in [Job -> Entries \cup {"idle"}]
    /\ at \in [Job -> Dir]
    /\ phase \in [Job -> Phases]
    /\ prog \in [Job -> [Unit -> Progress]]
    /\ retried \in [Job -> BOOLEAN]

(* The directory-at-a-time loop of dbx-deploy.yml exists so that a secret is  *)
(* there before a layer reads it at parse time and an output is there before  *)
(* a layer asks for it: no deploy ever fails for either, from any stack the   *)
(* deploys and destroys before it, failed ones included, have left behind.    *)
NoMissingPrerequisite ==
    \A j \in Job :
        kind[j] \in {"deploy", "make-apply"} =>
            /\ phase[j] = "begin" => Parses(j)
            /\ \A u \in Unit : Ready(j, u) => SureOfOutputs(u)

(* The loop order also honours the edges that only ask for an order: when a   *)
(* deploy reaches a grants unit, the catalogs, the remote schemas and the     *)
(* private path it names are all applied.                                     *)
LoopHonoursOrder ==
    \A j \in Job, u \in Unit :
        kind[j] = "deploy" /\ Ready(j, u) => \A d \in After(u) : state[d] = "applied"

(* "Unwind in the order you wound": a unit that stands has everything it      *)
(* takes outputs from standing under it, unless a destroy has printed LEFT    *)
(* STANDING for it.  Holds whichever start_from the operator picks.           *)
NothingFloats ==
    \A u \in Unit :
        state[u] # "absent" /\ u \notin left => MayHaveOutputs(u)

(* A destroy only comes down to a directory when every unit above it is gone  *)
(* or has been warned about: a failed layer is never stepped over.            *)
DestroyedMeansGone ==
    \A j \in Job : kind[j] = "destroy" => StandingIn((at[j] + 1)..DirCount) \subseteq left

(* Two jobs never have Terraform running on the same unit, however they       *)
(* overlap and however many of them are killed: the state lock is all there   *)
(* is, the workflows have no concurrency group.                               *)
LockExclusion ==
    \A u \in Unit : \A i, j \in Job :
        prog[i][u] = "running" /\ prog[j][u] = "running" => i = j

(* A lock that names a job is one Terraform of that job is holding: jobs that *)
(* end, in whatever way, free theirs, and -lock-timeout waits for nobody who  *)
(* is gone but the killed, whose locks are stale.                             *)
NoOrphanLock == \A u \in Unit : lock[u] \in Job => prog[lock[u]][u] = "running"

(* A deploy whose operator starts it where everything below is applied (the   *)
(* start_from of the workflow's input, Careful here) builds on nothing that   *)
(* failed: a unit whose Terraform this deploy runs or has run, in this        *)
(* directory, stands on applied units only, those of the same run-all         *)
(* included; and no directory is entered before those below are whole.        *)
DeployStopsAtFailure ==
    \A j \in Job :
        kind[j] = "deploy" /\ Careful =>
            \A u \in Unit :
                /\ DirOf(u) < at[j] => state[u] = "applied"
                /\ prog[j][u] \in {"running", "ok"} => \A d \in Needs(u) : state[d] = "applied"

(* "Run the layer again.  Terraform picks up exactly where it stopped"        *)
(* (dbx-destroy.yml:311): no unit of the retried directory is refused because *)
(* the first attempt has destroyed what it takes its outputs from.            *)
RetryPicksUp ==
    \A j \in Job, u \in Unit :
        kind[j] = "destroy" /\ retried[j] /\ Ready(j, u) => MayHaveOutputs(u)

(* Jobs that do not overlap keep the promise of LayeredStack, step by step:   *)
(* run-alls, failures, kills, retries and any start_from come down to         *)
(* building on what stands, taking down from the top and announcing the rest. *)
Layers == INSTANCE LayeredStack WITH standing <- StandingIn(Dir)
LayeredSpec == Layers!Spec

(* How far a job is: the directories ahead of it, its retry, its place in the *)
(* iteration, the units still queued and those Terraform is running on.       *)
DirsAhead(j) == IF kind[j] = "destroy" THEN at[j] - 1 ELSE DirCount - at[j]
Ahead == [begin |-> 2, run |-> 1, step |-> 0, drain |-> 0]
Queued(j) == {u \in Unit : prog[j][u] = "queued"}

SameIteration(j) == UNCHANGED <<kind[j], at[j]>>
SameAttempt(j) == SameIteration(j) /\ UNCHANGED retried[j]

Closer(j) ==
    \/ Idle(j)'
    \/ UNCHANGED kind[j] /\ DirsAhead(j)' < DirsAhead(j)
    \/ SameIteration(j) /\ ~retried[j] /\ retried[j]'
    \/ SameAttempt(j) /\ Ahead[phase[j]'] < Ahead[phase[j]]
    \/ /\ SameAttempt(j) /\ UNCHANGED phase[j]
       /\ \/ Queued(j)' \subseteq Queued(j) /\ Queued(j)' # Queued(j)
          \/ /\ Queued(j)' = Queued(j)
             /\ Running(j)' \subseteq Running(j) /\ Running(j)' # Running(j)

(* A job under way only ever moves towards its end, and no step of another    *)
(* job, a kill of one included, sets it back.  A directory is left once, and  *)
(* the retry "buys one attempt, not a loop" (dbx-destroy.yml:314).            *)
JobsOnlyMoveOn ==
    [][\A j \in Job :
        ~Idle(j) => UNCHANGED <<kind[j], at[j], phase[j], prog[j], retried[j]>> \/ Closer(j)]_vars

(* Every workflow run ends, whatever fails in it: a stale lock, an absent     *)
(* output or a failed unit never leaves run-all waiting.                      *)
JobTerminates == \A j \in Job : ~Idle(j) ~> Idle(j)

=============================================================================
