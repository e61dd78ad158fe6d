---------------------------- MODULE SnowflakeDemo ----------------------------
(***************************************************************************)
(* The demo schema over Terraform's Snowflake stage, and its removal.      *)
(*                                                                         *)
(* Terraform owns the database and the stage; the demo schema, and the     *)
(* external table that reads the stage, are created by the pipeline and by *)
(* people, and a stage with such a table cannot be dropped.  A schema that *)
(* is dropped under a retention period stays in Time Travel with all that  *)
(* was in it, a ghost that pins the stage as well.  drop_demo.py takes the *)
(* live schema down, peels the ghosts off newest first, and only then does *)
(* the AWS destroy let Terraform at the stage.  Every call is a step:      *)
(* others work in the database between any two of them.                    *)
(***************************************************************************)
EXTENDS Naturals, Sequences

CONSTANTS
    MAX_PEELS,  \* the ghosts one run of the script peels at most
    MaxActs,    \* bound: what people and the pipeline do to the demo schema
    MaxFaults   \* bound: runners and connections lost, and refusals of USE DATABASE

ASSUME DemoAssumption ==
    /\ MAX_PEELS \in Nat \ {0}
    /\ MaxActs \in Nat
    /\ MaxFaults \in Nat

VARIABLES
    database,   \* BOOLEAN: "sales_aws" exists
    stage,      \* BOOLEAN: the stage the external table reads exists
    demo,       \* the live demo schema, or Nothing
    ghosts,     \* whether each dropped demo schema had the external table, newest first
    pc,         \* the statement the destroy is at
    peeled,     \* the ghosts this run of the script has restored
    entered,    \* BOOLEAN: this run's USE DATABASE went through
    disturbed,  \* BOOLEAN: somebody worked on the schema since the script began
    acts,       \* what others have done so far
    faults      \* runners and connections lost, and refusals, so far

account == <<database, stage, demo, ghosts>>
script == <<pc, peeled, entered>>
vars == <<account, script, disturbed, acts, faults>>

(* The script's statements, and Terraform's two after it. *)
Steps == {"idle", "use", "show", "clear", "zero", "drop", "undrop", "peel clear",
          "peel zero", "peel drop", "assert", "drop stage", "drop database"}

Nothing == [live |-> FALSE, external |-> FALSE, retained |-> FALSE]
Schema(ext) == [live |-> TRUE, external |-> ext, retained |-> TRUE]

(* What makes Snowflake refuse to drop the stage: 093694. *)
Pinned == demo.external \/ \E g \in DOMAIN ghosts : ghosts[g]

Init ==
    /\ database = TRUE /\ stage = TRUE
    /\ demo = Nothing /\ ghosts = <<>>
    /\ pc = "idle" /\ peeled = 0 /\ entered = FALSE /\ disturbed = FALSE
    /\ acts = 0 /\ faults = 0

-----------------------------------------------------------------------------
(* The pipeline and people in Snowsight *)

Act ==
    /\ database
    /\ acts < MaxActs
    /\ acts' = acts + 1
    /\ disturbed' = (pc # "idle")
    /\ UNCHANGED <<database, stage, script, faults>>

(* deploy_notebook.py, masking_demo.sql: CREATE SCHEMA IF NOT EXISTS, no external table. *)
DeployNotebook ==
    /\ Act
    /\ ~demo.live
    /\ demo' = Schema(FALSE)
    /\ UNCHANGED ghosts

(* read_gold_zone.sql lays the external table over the stage. *)
ReadGoldZone ==
    /\ Act
    /\ stage
    /\ demo' = IF demo.live THEN [demo EXCEPT !.external = TRUE] ELSE Schema(TRUE)
    /\ UNCHANGED ghosts

(* DROP SCHEMA ... CASCADE: into Time Travel, unless the retention is zero. *)
DropCascade ==
    /\ demo' = Nothing
    /\ ghosts' = IF demo.retained THEN <<demo.external>> \o ghosts ELSE ghosts

(* The cleanup masking_demo.sql suggests: what a teardown by hand does. *)
CleanUp == Act /\ demo.live /\ DropCascade

(* A deploy applies the unit again. *)
Redeploy ==
    /\ pc = "idle"
    /\ ~stage
    /\ acts < MaxActs
    /\ database' = TRUE /\ stage' = TRUE
    /\ acts' = acts + 1
    /\ UNCHANGED <<demo, ghosts, script, disturbed, faults>>

(* The oldest ghost is out of its retention period. *)
Purge ==
    /\ ghosts # <<>>
    /\ ghosts' = SubSeq(ghosts, 1, Len(ghosts) - 1)
    /\ UNCHANGED <<database, stage, demo, script, disturbed, acts, faults>>

-----------------------------------------------------------------------------
(* drop_demo.py *)

GoTo(p) == pc' = p /\ UNCHANGED <<peeled, entered, disturbed, acts, faults>>

(* An exception or sys.exit: the step fails, and the destroy with it. *)
Fails == GoTo("idle")

StartDestroy ==
    /\ pc = "idle"
    /\ pc' = "use" /\ peeled' = 0 /\ entered' = FALSE /\ disturbed' = FALSE
    /\ UNCHANGED <<account, acts, faults>>

(* Whatever USE DATABASE raises is read as "is not there ... nothing to drop": *)
(* the database is gone, or the role may not use it, or the connection broke.  *)
(* The script ends green, and the job goes on to Terraform.                    *)
UseDatabase ==
    /\ pc = "use"
    /\ \/ /\ database
          /\ pc' = "show" /\ entered' = TRUE
          /\ UNCHANGED faults
       \/ /\ ~database
          /\ pc' = "drop stage"
          /\ UNCHANGED <<entered, faults>>
       \/ /\ database /\ faults < MaxFaults
          /\ pc' = "drop stage" /\ faults' = faults + 1
          /\ UNCHANGED entered
    /\ UNCHANGED <<account, peeled, disturbed, acts>>

ShowSchemas ==
    /\ pc = "show"
    /\ GoTo(IF demo.live THEN "clear" ELSE "undrop")
    /\ UNCHANGED account

After(p) == CASE p = "clear" -> "zero"
              [] p = "peel clear" -> "peel zero"
              [] p = "zero" -> "drop"
              [] p = "peel zero" -> "peel drop"
              [] OTHER -> "undrop"

(* drop_externals lists live tables only: of a schema that is gone, none. *)
DropExternals ==
    /\ pc \in {"clear", "peel clear"}
    /\ demo' = [demo EXCEPT !.external = FALSE]
    /\ GoTo(After(pc))
    /\ UNCHANGED <<database, stage, ghosts>>

(* Mistake: the ALTER SCHEMA is forgotten, the CASCADE leaves a ghost again. *)
ZeroRetentionForgotten ==
    /\ pc \in {"zero", "peel zero"}
    /\ IF demo.live THEN GoTo(After(pc)) ELSE Fails
    /\ UNCHANGED account

ZeroRetention ==
    /\ pc \in {"zero", "peel zero"}
    /\ IF demo.live
       THEN demo' = [demo EXCEPT !.retained = FALSE] /\ GoTo(After(pc))
       ELSE UNCHANGED demo /\ Fails
    /\ UNCHANGED <<database, stage, ghosts>>

DropSchema ==
    /\ pc \in {"drop", "peel drop"}
    /\ IF demo.live
       THEN DropCascade /\ GoTo(After(pc))
       ELSE UNCHANGED <<demo, ghosts>> /\ Fails
    /\ UNCHANGED <<database, stage>>

(* UNDROP SCHEMA brings the newest ghost back with the retention it had. *)
Restore ==
    /\ demo' = Schema(Head(ghosts))
    /\ ghosts' = Tail(ghosts)
    /\ UNCHANGED <<database, stage>>

(* Mistake: one pass is taken to be enough. *)
UndropOnce ==
    /\ pc = "undrop"
    /\ \/ /\ demo.live \/ peeled > 0
          /\ GoTo(IF demo.live THEN "idle" ELSE "drop stage")
          /\ UNCHANGED account
       \/ /\ ~demo.live /\ peeled = 0 /\ ghosts = <<>>
          /\ GoTo("assert")
          /\ UNCHANGED account
       \/ /\ ~demo.live /\ peeled = 0 /\ ghosts # <<>>
          /\ Restore
          /\ pc' = "peel clear" /\ peeled' = 1
          /\ UNCHANGED <<entered, disturbed, acts, faults>>

(* Mistake: `while True` in place of MAX_PEELS. *)
UndropWithoutEnd ==
    /\ pc = "undrop"
    /\ \/ /\ demo.live
          /\ Fails
          /\ UNCHANGED account
       \/ /\ ~demo.live /\ ghosts = <<>>
          /\ GoTo("assert")
          /\ UNCHANGED account
       \/ /\ ~demo.live /\ ghosts # <<>>
          /\ Restore
          /\ pc' = "peel clear" /\ peeled' = peeled + 1
          /\ UNCHANGED <<entered, disturbed, acts, faults>>

(* The loop's test.  A live schema of that name is neither "did not exist"   *)
(* nor "purged": undrop_demo raises.                                          *)
Undrop ==
    /\ pc = "undrop"
    /\ \/ /\ peeled = MAX_PEELS \/ demo.live
          /\ Fails
          /\ UNCHANGED account
       \/ /\ peeled < MAX_PEELS /\ ~demo.live /\ ghosts = <<>>
          /\ GoTo("assert")
          /\ UNCHANGED account
       \/ /\ peeled < MAX_PEELS /\ ~demo.live /\ ghosts # <<>>
          /\ Restore
          /\ pc' = "peel clear" /\ peeled' = peeled + 1
          /\ UNCHANGED <<entered, disturbed, acts, faults>>

(* One more UNDROP must fail; one that succeeds has restored the schema. *)
Assert ==
    /\ pc = "assert"
    /\ IF demo.live \/ ghosts # <<>> THEN Fails ELSE GoTo("drop stage")
    /\ IF ~demo.live /\ ghosts # <<>> THEN Restore ELSE UNCHANGED account

(* The runner is lost before a statement, or the connection at any but USE:   *)
(* nothing catches that, and the job ends red.                                *)
ConnectionLost ==
    /\ pc # "idle"
    /\ faults < MaxFaults
    /\ pc' = "idle" /\ faults' = faults + 1
    /\ UNCHANGED <<account, peeled, entered, disturbed, acts>>

-----------------------------------------------------------------------------
(* Terraform, in the same job: the stage, then the database with all in it *)

DropStage ==
    /\ pc = "drop stage"
    /\ IF stage /\ Pinned
       THEN Fails /\ UNCHANGED account
       ELSE /\ GoTo("drop database")
            /\ stage' = FALSE
            /\ UNCHANGED <<database, demo, ghosts>>

DropDatabase ==
    /\ pc = "drop database"
    /\ GoTo("idle")
    /\ database' = FALSE /\ demo' = Nothing /\ ghosts' = <<>>
    /\ UNCHANGED stage

-----------------------------------------------------------------------------
ScriptStep ==
    \/ UseDatabase \/ ShowSchemas
    \/ DropExternals \/ ZeroRetention \/ DropSchema
    \/ Undrop \/ Assert

DestroyStep == ScriptStep \/ DropStage \/ DropDatabase

Next ==
    \/ DeployNotebook \/ ReadGoldZone \/ CleanUp
    \/ Redeploy \/ Purge
    \/ StartDestroy
    \/ DestroyStep
    \/ ConnectionLost

Spec == Init /\ [][Next]_vars

(* A destroy goes on, and one that failed is dispatched again. *)
FairSpec == Spec /\ WF_vars(DestroyStep) /\ WF_vars(database /\ StartDestroy)

-----------------------------------------------------------------------------
(* Properties *)

TypeOK ==
    /\ database \in BOOLEAN /\ stage \in BOOLEAN
    /\ entered \in BOOLEAN /\ disturbed \in BOOLEAN
    /\ demo \in {Nothing} \cup [live : {TRUE}, external : BOOLEAN, retained : BOOLEAN]
    /\ ghosts \in Seq(BOOLEAN)
    /\ pc \in Steps
    /\ peeled \in 0..MAX_PEELS
    /\ acts \in 0..MaxActs
    /\ faults \in 0..MaxFaults

(* "Terraform can drop the stages" (drop_demo.py:162): whatever ghosts were   *)
(* there and wherever earlier runs broke off, a script that got into the      *)
(* database, or found it gone, leaves the stage pinned by nothing but what    *)
(* somebody did while it ran.  A script that USE DATABASE refused to let in   *)
(* ends green too, and promises nothing: Terraform may find the stage pinned. *)
GreenMeansFree ==
    pc = "drop stage" /\ (entered \/ ~database) /\ ~disturbed => ~Pinned

(* "So this run does not add a ghost of its own to the pile" (:131): no run   *)
(* of the script, finished or broken off anywhere, lengthens the pile unless  *)
(* somebody brings the schema back beside it.                                 *)
NoGhostOfItsOwn ==
    [][ScriptStep /\ ~disturbed => Len(ghosts') <= Len(ghosts)]_vars

(* The statements from a place to the end, if nothing more is peeled; one    *)
(* more ghost takes the four of a pass.                                       *)
ToTheEnd ==
    [p \in Steps |-> CASE p = "idle" -> 0
                      [] p = "drop database" -> 1
                      [] p = "drop stage" -> 2
                      [] p = "assert" -> 3
                      [] p = "undrop" -> 4
                      [] p \in {"drop", "peel drop"} -> 5
                      [] p \in {"zero", "peel zero"} -> 6
                      [] p \in {"clear", "peel clear"} -> 7
                      [] p = "show" -> 8
                      [] p = "use" -> 9]

StatementsLeft == ToTheEnd[pc] + 4 * (MAX_PEELS - peeled)

(* One run ends, green or red: `peeled < MAX_PEELS` (:143) bounds it, however *)
(* fast people and the pipeline put new ghosts on the pile beside it.         *)
EveryRunEnds ==
    [][DestroyStep => 0 <= StatementsLeft' /\ StatementsLeft' < StatementsLeft]_vars

(* "Re-running a failed destroy is safe" (:36), and it gets there: however    *)
(* many ghosts there are, more than one run peels too, once people leave the  *)
(* schema alone the repeated destroy takes the stage and the database down.   *)
EventuallyDown == <>[](~database /\ ~stage)

=============================================================================
