------------------------- MODULE SnowflakeDemoProofs -------------------------
(***************************************************************************)
(* Theorems about SnowflakeDemo for every bound: however many ghosts there *)
(* are and however few a run may peel, a run that got in and came through  *)
(* has freed the stage, none adds to the pile, and every run ends. *)
(***************************************************************************)
EXTENDS SnowflakeDemo, SequenceTheorems, TLAPS

Types ==
    /\ demo \in [live : BOOLEAN, external : BOOLEAN, retained : BOOLEAN]
    /\ ghosts \in Seq(BOOLEAN)

(* Only a live schema holds an external table. *)
NoneWithoutSchema == ~demo.live => ~demo.external

(* A dropped database took the live schema and its ghosts with it. *)
GoneWithDatabase == ~database => ~demo.live /\ ghosts = <<>>

(* A script is let in by USE DATABASE alone; undisturbed, one that got in     *)
(* hands over a database without a ghost.                                     *)
HandedOver ==
    /\ pc = "use" => ~entered
    /\ pc = "drop stage" /\ entered /\ ~disturbed => ~demo.live /\ ghosts = <<>>

IInv == Types /\ NoneWithoutSchema /\ GoneWithDatabase /\ HandedOver

-----------------------------------------------------------------------------
LEMMA PurgedType ==
    ASSUME Types, Purge
    PROVE  Types'
<1>1. ghosts \in Seq(BOOLEAN) /\ Len(ghosts) \in Nat
  BY DEF Types
<1>2. SubSeq(ghosts, 1, Len(ghosts) - 1) \in Seq(BOOLEAN)
  <2>1. \A i \in 1..(Len(ghosts) - 1) : ghosts[i] \in BOOLEAN
    BY <1>1, ElementOfSeq
  <2>. QED  BY <1>1, <2>1, SubSeqProperties
<1>. QED  BY <1>2 DEF Types, Purge

LEMMA DropCascadeType ==
    ASSUME Types, DropCascade
    PROVE  Types' /\ ~demo'.live /\ ~demo'.external
<1>1. /\ Nothing \in [live : BOOLEAN, external : BOOLEAN, retained : BOOLEAN]
      /\ ~Nothing.live /\ ~Nothing.external
  BY DEF Nothing
<1>2. demo.external \in BOOLEAN
  BY Zenon DEF Types
<1>3. <<demo.external>> \o ghosts \in Seq(BOOLEAN)
  <2>1. <<demo.external>> \in Seq(BOOLEAN)
    BY <1>2
  <2>. QED  BY <2>1, ConcatProperties DEF Types
<1>. QED  BY <1>1, <1>3 DEF Types, DropCascade

LEMMA RestoreType ==
    ASSUME Types, ghosts # <<>>, Restore
    PROVE  Types' /\ demo'.live
<1>1. Head(ghosts) \in BOOLEAN /\ Tail(ghosts) \in Seq(BOOLEAN)
  BY HeadTailProperties DEF Types
<1>2. /\ Schema(Head(ghosts)) \in [live : BOOLEAN, external : BOOLEAN, retained : BOOLEAN]
      /\ Schema(Head(ghosts)).live
  BY <1>1 DEF Schema
<1>. QED  BY <1>1, <1>2 DEF Types, Restore

(* What the pipeline, people and Time Travel do. *)
LEMMA OthersInv ==
    ASSUME IInv, DeployNotebook \/ ReadGoldZone \/ CleanUp \/ Redeploy \/ Purge
    PROVE  IInv'
<1>1. CASE DeployNotebook
  BY <1>1 DEF Schema, DeployNotebook, Act, script, IInv, Types, NoneWithoutSchema,
     GoneWithDatabase, HandedOver
<1>2. CASE ReadGoldZone
  <2>1. Types' /\ demo'.live
    BY <1>2 DEF ReadGoldZone, Schema, IInv, Types
  <2>. QED  BY <1>2, <2>1 DEF ReadGoldZone, Act, script, IInv, NoneWithoutSchema,
            GoneWithDatabase, HandedOver
<1>3. CASE CleanUp
  <2>1. Types' /\ ~demo'.live /\ ~demo'.external
    BY <1>3, DropCascadeType DEF CleanUp, IInv
  <2>. QED  BY <1>3, <2>1 DEF CleanUp, Act, script, IInv, NoneWithoutSchema,
            GoneWithDatabase, HandedOver
<1>4. CASE Redeploy
  BY <1>4 DEF Redeploy, script, IInv, Types, NoneWithoutSchema, GoneWithDatabase, HandedOver
<1>5. CASE Purge
  BY <1>5, PurgedType DEF Purge, script, IInv, Types, NoneWithoutSchema, GoneWithDatabase, HandedOver
<1>. QED  BY <1>1, <1>2, <1>3, <1>4, <1>5

(* What a run of the script and Terraform after it do. *)
LEMMA DestroyInv ==
    ASSUME IInv, StartDestroy \/ DestroyStep \/ ConnectionLost
    PROVE  IInv'
<1>. USE DEF GoTo, Fails, account
<1>1. CASE StartDestroy \/ ConnectionLost
  BY <1>1 DEF StartDestroy, ConnectionLost, IInv, Types, NoneWithoutSchema,
     GoneWithDatabase, HandedOver
<1>2. CASE UseDatabase
  <2>1. UNCHANGED account /\ pc' # "use"
    BY <1>2 DEF UseDatabase
  <2>2. Types' /\ NoneWithoutSchema' /\ GoneWithDatabase'
    BY <2>1, Zenon DEF IInv, Types, NoneWithoutSchema, GoneWithDatabase
  <2>3. pc' = "drop stage" => ~entered'
    BY <1>2, Zenon DEF UseDatabase, IInv, HandedOver
  <2>. QED  BY <2>1, <2>2, <2>3, Zenon DEF IInv, HandedOver
<1>3. CASE ShowSchemas
  BY <1>3 DEF ShowSchemas, IInv, Types, NoneWithoutSchema, GoneWithDatabase, HandedOver
<1>4. CASE DropExternals
  BY <1>4 DEF DropExternals, After, IInv, Types, NoneWithoutSchema, GoneWithDatabase, HandedOver
<1>5. CASE ZeroRetention
  BY <1>5 DEF ZeroRetention, After, IInv, Types, NoneWithoutSchema, GoneWithDatabase, HandedOver
<1>6. CASE DropSchema
  <2>1. CASE demo.live
    <3>1. Types' /\ ~demo'.live /\ ~demo'.external
      BY <1>6, <2>1, DropCascadeType DEF DropSchema, IInv
    <3>. QED  BY <1>6, <2>1, <3>1 DEF DropSchema, After, IInv, NoneWithoutSchema,
              GoneWithDatabase, HandedOver
  <2>2. CASE ~demo.live
    BY <1>6, <2>2 DEF DropSchema, IInv, Types, NoneWithoutSchema, GoneWithDatabase, HandedOver
  <2>. QED  BY <2>1, <2>2
<1>7. CASE Undrop
  <2>1. CASE UNCHANGED account
    BY <1>7, <2>1 DEF Undrop, IInv, Types, NoneWithoutSchema, GoneWithDatabase, HandedOver
  <2>2. CASE Restore /\ ghosts # <<>> /\ pc' = "peel clear"
    <3>1. Types' /\ demo'.live
      BY <2>2, RestoreType DEF IInv
    <3>. QED  BY <2>2, <3>1 DEF Restore, IInv, NoneWithoutSchema, GoneWithDatabase, HandedOver
  <2>. QED  BY <1>7, <2>1, <2>2 DEF Undrop
<1>8. CASE Assert
  <2>1. CASE ~demo.live /\ ghosts # <<>>
    <3>1. Types' /\ demo'.live
      BY <1>8, <2>1, RestoreType DEF Assert, IInv
    <3>. QED  BY <1>8, <2>1, <3>1 DEF Assert, Restore, IInv, NoneWithoutSchema,
              GoneWithDatabase, HandedOver
  <2>2. CASE ~(~demo.live /\ ghosts # <<>>)
    BY <1>8, <2>2 DEF Assert, IInv, Types, NoneWithoutSchema, GoneWithDatabase, HandedOver
  <2>. QED  BY <2>1, <2>2
<1>9. CASE DropStage \/ DropDatabase
  <2>1. CASE DropStage
    BY <1>9, <2>1 DEF DropStage, IInv, Types, NoneWithoutSchema, GoneWithDatabase, HandedOver
  <2>2. CASE DropDatabase
    <3>1. /\ Nothing \in [live : BOOLEAN, external : BOOLEAN, retained : BOOLEAN]
          /\ ~Nothing.live /\ ~Nothing.external
      BY DEF Nothing
    <3>2. Types' /\ ~demo'.live /\ ~demo'.external
      BY <2>2, <3>1, EmptySeq DEF DropDatabase, Types
    <3>. QED  BY <2>2, <3>2 DEF DropDatabase, IInv, NoneWithoutSchema, GoneWithDatabase, HandedOver
  <2>. QED  BY <1>9, <2>1, <2>2
<1>. QED  BY <1>1, <1>2, <1>3, <1>4, <1>5, <1>6, <1>7, <1>8, <1>9 DEF DestroyStep, ScriptStep

LEMMA AlwaysIInv == Spec => []IInv
<1>1. Init => IInv
  BY DEF Nothing, Init, IInv, Types, NoneWithoutSchema, GoneWithDatabase, HandedOver
<1>2. IInv /\ [Next]_vars => IInv'
  <2>1. CASE Next
    BY <2>1, OthersInv, DestroyInv DEF Next
  <2>2. CASE UNCHANGED vars
    BY <2>2 DEF vars, account, script, IInv, Types, NoneWithoutSchema, GoneWithDatabase, HandedOver
  <2>. QED  BY <2>1, <2>2
<1>. QED  BY <1>1, <1>2, PTL DEF Spec

(* "Terraform can drop the stages": see GreenMeansFree. *)
THEOREM GreenMeansFreeHolds == Spec => []GreenMeansFree
<1>1. IInv => GreenMeansFree
  <2>1. ghosts = <<>> => DOMAIN ghosts = {}
    OBVIOUS
  <2>. QED  BY <2>1 DEF IInv, NoneWithoutSchema, GoneWithDatabase, HandedOver, GreenMeansFree, Pinned
<1>. QED  BY <1>1, AlwaysIInv, PTL

-----------------------------------------------------------------------------
(* Undisturbed, a schema about to be dropped goes for good. *)
Unretained == ~disturbed /\ pc \in {"drop", "peel drop"} => ~demo.retained

LEMMA NextUnretained == Types /\ Unretained /\ [Next]_vars => Unretained'
<1>. SUFFICES ASSUME Types, Unretained, [Next]_vars
              PROVE  Unretained'
  OBVIOUS
<1>. USE DEF Unretained, GoTo, Fails, account
<1>1. CASE DeployNotebook \/ ReadGoldZone \/ CleanUp
  <2>1. disturbed' = (pc # "idle") /\ pc' = pc
    BY <1>1 DEF DeployNotebook, ReadGoldZone, CleanUp, Act, script
  <2>. QED  BY <2>1
<1>2. CASE Redeploy \/ Purge \/ StartDestroy \/ ConnectionLost
  BY <1>2 DEF Redeploy, Purge, StartDestroy, ConnectionLost, script
<1>3. CASE DropStage \/ DropDatabase
  BY <1>3 DEF DropStage, DropDatabase
<1>4. CASE UseDatabase \/ ShowSchemas \/ Undrop \/ Assert
  <2>1. pc' \notin {"drop", "peel drop"}
    BY <1>4 DEF UseDatabase, ShowSchemas, Undrop, Assert
  <2>. QED  BY <2>1
<1>5. CASE DropExternals \/ DropSchema
  <2>1. pc' \notin {"drop", "peel drop"}
    BY <1>5 DEF DropExternals, DropSchema, After
  <2>. QED  BY <2>1
<1>6. CASE ZeroRetention
  <2>1. CASE demo.live
    BY <1>6, <2>1 DEF ZeroRetention, Types
  <2>2. CASE ~demo.live
    BY <1>6, <2>2 DEF ZeroRetention
  <2>. QED  BY <2>1, <2>2
<1>7. CASE UNCHANGED vars
  BY <1>7 DEF vars, script
<1>. QED  BY <1>1, <1>2, <1>3, <1>4, <1>5, <1>6, <1>7 DEF Next, DestroyStep, ScriptStep

LEMMA RestoreShortens ==
    ASSUME Types, ghosts # <<>>, Restore
    PROVE  Len(ghosts') <= Len(ghosts)
<1>1. /\ ghosts \in Seq(BOOLEAN) /\ Len(ghosts) \in Nat
      /\ Len(Tail(ghosts)) = Len(ghosts) - 1
  BY HeadTailProperties DEF Types
<1>. QED  BY <1>1 DEF Restore

(* A run of the script only ever takes ghosts off the pile, wherever it is    *)
(* broken off and however often it is started again.                          *)
THEOREM NoGhostOfItsOwnHolds == Spec => NoGhostOfItsOwn
<1>1. Init => Unretained
  BY DEF Init, Unretained
<1>2. Types /\ Unretained /\ ScriptStep /\ ~disturbed => Len(ghosts') <= Len(ghosts)
  <2>. SUFFICES ASSUME Types, Unretained, ScriptStep, ~disturbed
                PROVE  Len(ghosts') <= Len(ghosts)
    OBVIOUS
  <2>0. Len(ghosts) \in Nat
    BY DEF Types
  <2>1. CASE UseDatabase \/ ShowSchemas \/ DropExternals \/ ZeroRetention
    <3>1. ghosts' = ghosts
      BY <2>1, Zenon DEF UseDatabase, ShowSchemas, DropExternals, ZeroRetention, account
    <3>. QED  BY <2>0, <3>1
  <2>2. CASE DropSchema
    <3>1. ~demo.retained
      BY <2>2 DEF DropSchema, Unretained
    <3>2. ghosts' = ghosts
      BY <2>2, <3>1, Zenon DEF DropSchema, DropCascade
    <3>. QED  BY <2>0, <3>2
  <2>3. CASE Undrop \/ Assert
    <3>1. ghosts' = ghosts \/ (ghosts # <<>> /\ Restore)
      BY <2>3, Zenon DEF Undrop, Assert, account
    <3>. QED  BY <2>0, <3>1, RestoreShortens
  <2>. QED  BY <2>1, <2>2, <2>3 DEF ScriptStep
<1>3. IInv => Types
  BY DEF IInv
<1>. QED  BY <1>1, <1>2, <1>3, AlwaysIInv, NextUnretained, PTL DEF Spec, NoGhostOfItsOwn

-----------------------------------------------------------------------------
(* Counters, places and the two shapes of the demo schema: gone, or live. *)

LiveSchema == [live : {TRUE}, external : BOOLEAN, retained : BOOLEAN]

Flags ==
    /\ database \in BOOLEAN /\ stage \in BOOLEAN
    /\ entered \in BOOLEAN /\ disturbed \in BOOLEAN

Placed == pc \in Steps

Counters ==
    /\ peeled \in 0..MAX_PEELS
    /\ acts \in 0..MaxActs
    /\ faults \in 0..MaxFaults

Shapes == demo \in {Nothing} \cup LiveSchema /\ ghosts \in Seq(BOOLEAN)

LEMMA TypesInParts == TypeOK <=> Flags /\ Placed /\ Counters /\ Shapes
BY Zenon DEF TypeOK, Placed, Flags, Counters, Shapes, LiveSchema

LEMMA ShapesOfDemo ==
    /\ Nothing \in {Nothing} \cup LiveSchema
    /\ \A ext \in BOOLEAN : Schema(ext) \in LiveSchema
    /\ [Nothing EXCEPT !.external = FALSE] = Nothing
    /\ ~Nothing.live
    /\ Shapes => Types
<1>1. /\ Nothing \in {Nothing} \cup LiveSchema
      /\ \A ext \in BOOLEAN : Schema(ext) \in LiveSchema
      /\ ~Nothing.live
  BY DEF Nothing, Schema, LiveSchema
<1>2. [Nothing EXCEPT !.external = FALSE] = Nothing
  <2>1. /\ Nothing \in [live : {FALSE}, external : {FALSE}, retained : {FALSE}]
        /\ [Nothing EXCEPT !.external = FALSE]
             \in [live : {FALSE}, external : {FALSE}, retained : {FALSE}]
    BY DEF Nothing
  <2>. QED  BY <2>1
<1>3. LiveSchema \subseteq [live : BOOLEAN, external : BOOLEAN, retained : BOOLEAN]
  BY DEF LiveSchema
<1>4. Nothing \in [live : BOOLEAN, external : BOOLEAN, retained : BOOLEAN]
  BY DEF Nothing
<1>. QED  BY <1>1, <1>2, <1>3, <1>4 DEF Shapes, Types

LEMMA NextFlags == Flags /\ [Next]_vars => Flags'
<1>. SUFFICES ASSUME Flags, [Next]_vars
              PROVE  Flags'
  OBVIOUS
<1>. USE DEF Flags, account, script, GoTo, Fails
<1>1. CASE DeployNotebook \/ ReadGoldZone \/ CleanUp
  BY <1>1, Zenon DEF DeployNotebook, ReadGoldZone, CleanUp, Act
<1>2. CASE Redeploy \/ Purge \/ StartDestroy \/ ConnectionLost
  BY <1>2, Zenon DEF Redeploy, Purge, StartDestroy, ConnectionLost
<1>3. CASE ScriptStep
  BY <1>3, Zenon DEF ScriptStep, UseDatabase, ShowSchemas, DropExternals, ZeroRetention,
     DropSchema, Undrop, Restore, Assert
<1>4. CASE DropStage \/ DropDatabase
  BY <1>4, Zenon DEF DropStage, DropDatabase
<1>5. CASE UNCHANGED vars
  BY <1>5, Zenon DEF vars
<1>. QED  BY <1>1, <1>2, <1>3, <1>4, <1>5, Zenon DEF Next, DestroyStep

LEMMA NextPlaced == Placed /\ [Next]_vars => Placed'
<1>. SUFFICES ASSUME Placed, [Next]_vars
              PROVE  Placed'
  OBVIOUS
<1>. USE DEF Placed, script, GoTo, Fails
<1>1. CASE DeployNotebook \/ ReadGoldZone \/ CleanUp \/ Redeploy \/ Purge \/ UNCHANGED vars
  BY <1>1 DEF DeployNotebook, ReadGoldZone, CleanUp, Act, Redeploy, Purge, vars
<1>2. CASE StartDestroy \/ ConnectionLost
  BY <1>2 DEF StartDestroy, ConnectionLost, Steps
<1>3. CASE UseDatabase \/ ShowSchemas \/ DropExternals \/ ZeroRetention \/ DropSchema
  BY <1>3 DEF UseDatabase, ShowSchemas, DropExternals, ZeroRetention, DropSchema, After, Steps
<1>4. CASE Undrop \/ Assert \/ DropStage \/ DropDatabase
  BY <1>4 DEF Undrop, Assert, DropStage, DropDatabase, Steps
<1>. QED  BY <1>1, <1>2, <1>3, <1>4 DEF Next, DestroyStep, ScriptStep

LEMMA NextCounters == Counters /\ [Next]_vars => Counters'
<1>. SUFFICES ASSUME Counters, [Next]_vars
              PROVE  Counters'
  OBVIOUS
<1>. USE DemoAssumption DEF Counters, script, GoTo, Fails
<1>1. CASE DeployNotebook \/ ReadGoldZone \/ CleanUp \/ Redeploy
  <2>1. acts < MaxActs /\ acts' = acts + 1 /\ UNCHANGED <<peeled, faults>>
    BY <1>1 DEF DeployNotebook, ReadGoldZone, CleanUp, Redeploy, Act
  <2>. QED  BY <2>1
<1>2. CASE ConnectionLost
  BY <1>2 DEF ConnectionLost
<1>3. CASE StartDestroy
  BY <1>3 DEF StartDestroy
<1>6. CASE UseDatabase
  <2>1. /\ UNCHANGED <<peeled, acts>>
        /\ faults' = faults \/ (faults < MaxFaults /\ faults' = faults + 1)
    BY <1>6 DEF UseDatabase
  <2>. QED  BY <2>1
<1>4. CASE Undrop
  <2>1. /\ UNCHANGED <<acts, faults>>
        /\ peeled' = peeled \/ (peeled < MAX_PEELS /\ peeled' = peeled + 1)
    BY <1>4 DEF Undrop
  <2>. QED  BY <2>1
<1>5. CASE \/ Purge \/ UNCHANGED vars
           \/ ShowSchemas \/ DropExternals \/ ZeroRetention \/ DropSchema
           \/ Assert \/ DropStage \/ DropDatabase
  <2>1. UNCHANGED <<peeled, acts, faults>>
    BY <1>5, Zenon DEF Purge, vars, ShowSchemas, DropExternals, ZeroRetention,
       DropSchema, Assert, DropStage, DropDatabase
  <2>. QED  BY <2>1
<1>. QED  BY <1>1, <1>2, <1>3, <1>4, <1>5, <1>6 DEF Next, DestroyStep, ScriptStep

LEMMA NextShapes == Shapes /\ [Next]_vars => Shapes'
<1>. SUFFICES ASSUME Shapes, [Next]_vars
              PROVE  Shapes'
  OBVIOUS
<1>. USE DEF Shapes
<1>1. demo.live => demo \in LiveSchema
  BY ShapesOfDemo
<1>2. CASE DeployNotebook
  BY <1>2, ShapesOfDemo DEF DeployNotebook
<1>3. CASE ReadGoldZone
  <2>1. CASE demo.live
    BY <1>1, <1>3, <2>1 DEF ReadGoldZone, LiveSchema
  <2>2. CASE ~demo.live
    BY <1>3, <2>2, ShapesOfDemo DEF ReadGoldZone
  <2>. QED  BY <2>1, <2>2
<1>4. DropCascade => Shapes'
  BY ShapesOfDemo, DropCascadeType DEF DropCascade, Types
<1>5. ghosts # <<>> /\ Restore => Shapes'
  BY ShapesOfDemo, HeadTailProperties DEF Restore, Types
<1>6. UNCHANGED <<demo, ghosts>> => Shapes'
  OBVIOUS
<1>7. CASE Purge
  BY <1>7, ShapesOfDemo, PurgedType DEF Purge, Types
<1>8. CASE CleanUp \/ Redeploy \/ StartDestroy \/ ConnectionLost \/ UNCHANGED vars
  BY <1>4, <1>6, <1>8 DEF CleanUp, Redeploy, StartDestroy, ConnectionLost, vars, account
<1>9. CASE DropExternals
  <2>1. CASE demo = Nothing
    BY <1>9, <2>1, ShapesOfDemo DEF DropExternals
  <2>2. CASE demo \in LiveSchema
    BY <1>9, <2>2 DEF DropExternals, LiveSchema
  <2>. QED  BY <2>1, <2>2
<1>10. CASE ZeroRetention
  <2>1. CASE demo.live
    BY <1>1, <1>10, <2>1 DEF ZeroRetention, LiveSchema
  <2>2. CASE ~demo.live
    BY <1>6, <1>10, <2>2 DEF ZeroRetention
  <2>. QED  BY <2>1, <2>2
<1>11. CASE UseDatabase \/ ShowSchemas \/ DropSchema \/ Undrop \/ Assert \/ DropStage
  BY <1>4, <1>5, <1>6, <1>11, Zenon
     DEF UseDatabase, ShowSchemas, DropSchema, Undrop, Assert, DropStage, account
<1>12. CASE DropDatabase
  BY <1>12, ShapesOfDemo, EmptySeq DEF DropDatabase
<1>. QED  BY <1>2, <1>3, <1>7, <1>8, <1>9, <1>10, <1>11, <1>12 DEF Next, DestroyStep, ScriptStep

(* The types, for every bound: a schema is gone or live, never half of each, *)
(* and no run restores more ghosts than MAX_PEELS lets it.                    *)
THEOREM TypeCorrect == Spec => []TypeOK
<1>1. Init => Flags
  BY DEF Init, Flags
<1>2. Init => Placed
  BY DEF Init, Placed, Steps
<1>3. Init => Counters
  BY DemoAssumption DEF Init, Counters
<1>4. Init => Shapes
  BY EmptySeq DEF Init, Shapes
<1>. QED  BY <1>1, <1>2, <1>3, <1>4, NextFlags, NextPlaced, NextCounters, NextShapes, TypesInParts, PTL DEF Spec

LEMMA Places ==
    /\ ToTheEnd["idle"] = 0
    /\ ToTheEnd["drop database"] = 1
    /\ ToTheEnd["drop stage"] = 2
    /\ ToTheEnd["assert"] = 3
    /\ ToTheEnd["undrop"] = 4
    /\ ToTheEnd["drop"] = 5 /\ ToTheEnd["peel drop"] = 5
    /\ ToTheEnd["zero"] = 6 /\ ToTheEnd["peel zero"] = 6
    /\ ToTheEnd["clear"] = 7 /\ ToTheEnd["peel clear"] = 7
    /\ ToTheEnd["show"] = 8
    /\ ToTheEnd["use"] = 9
BY DEF ToTheEnd, Steps

(* A step of the destroy moves it down the list, or peels one ghost more. *)
LEMMA DestroyMovesOn ==
    ASSUME DestroyStep
    PROVE  /\ ToTheEnd[pc] \in Nat /\ ToTheEnd[pc'] \in Nat
           /\ \/ peeled' = peeled /\ ToTheEnd[pc'] < ToTheEnd[pc]
              \/ /\ peeled' = peeled + 1 /\ peeled < MAX_PEELS
                 /\ ToTheEnd[pc] = 4 /\ ToTheEnd[pc'] = 7
<1>. USE DEF GoTo, Fails
<1>1. CASE UseDatabase
  <2>1. ToTheEnd[pc] = 9 /\ peeled' = peeled
    BY <1>1, Places DEF UseDatabase
  <2>2. ToTheEnd[pc'] = 8 \/ ToTheEnd[pc'] = 2
    BY <1>1, Places DEF UseDatabase
  <2>. QED  BY <2>1, <2>2
<1>2. CASE ShowSchemas
  <2>1. ToTheEnd[pc] = 8 /\ peeled' = peeled
    BY <1>2, Places DEF ShowSchemas
  <2>2. ToTheEnd[pc'] = 7 \/ ToTheEnd[pc'] = 4
    BY <1>2, Places DEF ShowSchemas
  <2>. QED  BY <2>1, <2>2
<1>3. CASE DropExternals
  <2>1. ToTheEnd[pc] = 7 /\ peeled' = peeled
    BY <1>3, Places DEF DropExternals, After
  <2>2. ToTheEnd[pc'] = 6
    BY <1>3, Places DEF DropExternals, After
  <2>. QED  BY <2>1, <2>2
<1>4. CASE ZeroRetention
  <2>1. ToTheEnd[pc] = 6 /\ peeled' = peeled
    BY <1>4, Places DEF ZeroRetention, After
  <2>2. ToTheEnd[pc'] = 5 \/ ToTheEnd[pc'] = 0
    BY <1>4, Places DEF ZeroRetention, After
  <2>. QED  BY <2>1, <2>2
<1>5. CASE DropSchema
  <2>1. ToTheEnd[pc] = 5 /\ peeled' = peeled
    BY <1>5, Places DEF DropSchema, After
  <2>2. ToTheEnd[pc'] = 4 \/ ToTheEnd[pc'] = 0
    BY <1>5, Places DEF DropSchema, After
  <2>. QED  BY <2>1, <2>2
<1>6. CASE Undrop
  <2>1. ToTheEnd[pc] = 4
    BY <1>6, Places DEF Undrop
  <2>2. \/ peeled' = peeled /\ (ToTheEnd[pc'] = 3 \/ ToTheEnd[pc'] = 0)
        \/ peeled' = peeled + 1 /\ peeled < MAX_PEELS /\ ToTheEnd[pc'] = 7
    BY <1>6, Places DEF Undrop
  <2>. QED  BY <2>1, <2>2
<1>7. CASE Assert
  <2>1. ToTheEnd[pc] = 3 /\ peeled' = peeled
    BY <1>7, Places DEF Assert
  <2>2. ToTheEnd[pc'] = 2 \/ ToTheEnd[pc'] = 0
    BY <1>7, Places DEF Assert
  <2>. QED  BY <2>1, <2>2
<1>8. CASE DropStage
  <2>1. ToTheEnd[pc] = 2 /\ peeled' = peeled
    BY <1>8, Places DEF DropStage
  <2>2. ToTheEnd[pc'] = 1 \/ ToTheEnd[pc'] = 0
    BY <1>8, Places DEF DropStage
  <2>. QED  BY <2>1, <2>2
<1>9. CASE DropDatabase
  <2>1. ToTheEnd[pc] = 1 /\ peeled' = peeled
    BY <1>9, Places DEF DropDatabase
  <2>2. ToTheEnd[pc'] = 0
    BY <1>9, Places DEF DropDatabase
  <2>. QED  BY <2>1, <2>2
<1>. QED  BY <1>1, <1>2, <1>3, <1>4, <1>5, <1>6, <1>7, <1>8, <1>9 DEF DestroyStep, ScriptStep

(* A statement of the script, or of Terraform after it, is one fewer to go,  *)
(* whatever ghosts others make between any two: see EveryRunEnds.             *)
THEOREM EveryRunEndsHolds == Spec => EveryRunEnds
<1>1. TypeOK /\ DestroyStep => 0 <= StatementsLeft' /\ StatementsLeft' < StatementsLeft
  <2>. SUFFICES ASSUME TypeOK, DestroyStep
                PROVE  0 <= StatementsLeft' /\ StatementsLeft' < StatementsLeft
    OBVIOUS
  <2>1. MAX_PEELS \in Nat /\ peeled \in Nat /\ peeled <= MAX_PEELS
    BY DemoAssumption, TypesInParts DEF Counters
  <2>2. StatementsLeft' = ToTheEnd[pc'] + 4 * (MAX_PEELS - peeled')
    BY DEF StatementsLeft
  <2>. QED  BY <2>1, <2>2, DestroyMovesOn DEF StatementsLeft
<1>. QED  BY <1>1, TypeCorrect, PTL DEF Spec, EveryRunEnds
=============================================================================
