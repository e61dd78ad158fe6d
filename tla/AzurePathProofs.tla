--------------------------- MODULE AzurePathProofs ---------------------------
(***************************************************************************)
(* Theorems about AzurePath, for both modes, either module and any number  *)
(* of deploys.  First, under any switching between the modes: whatever     *)
(* fails wherever, nothing of the path outlives what it stands on, and a   *)
(* green destroy leaves nothing.  Then, for a stack kept in one mode:      *)
(* nothing blocks a deploy or a destroy of it, and a green deploy works.   *)
(* Last, under any switching again: the path implements LayeredStack.      *)
(***************************************************************************)
EXTENDS AzurePath, TLAPS

(* Neither property is inductive.  A server may go because nothing of the   *)
(* path is left on it, which a destroy in the storage layer knows only from*)
(* having come down: every layer above the one it is in is gone.           *)
CameDown == kind = "destroy" => \A l \in Layer : l > at => ~Stands(l)

(* A database that is not there holds nothing. *)
Bare == db = "none" => ~schemas /\ ~rows

HasMode ==
    /\ mode \in {"public", "private"}
    /\ state \in [Layer \ {integration} -> Condition]

(* A green destroy left nothing, and nobody has deployed since. *)
DestroyedIsGone == outcome = "destroyed" => kind = "idle" /\ Gone

Inv == HasMode /\ NothingDangles /\ Bare /\ CameDown /\ DestroyedIsGone

USE DEF Inv, HasMode, NothingDangles, Bare, CameDown, DestroyedIsGone,
        Stands, PathGone, Gone, Condition, Reads, HasOutputs,
        Layer, network, storage, integration, data_platform,
        stackVars, dbVars, pathVars, jobVars

-----------------------------------------------------------------------------
LEMMA InitInv == Init => Inv
BY DEF Init

(* A deploy only puts up what its prerequisites already hold up. *)
LEMMA DeployKeepsInv ==
    ASSUME Inv, DeployStep
    PROVE  Inv'
<1>1. CASE ApplyNetwork
  <2>1. CASE Private
    <3>1. /\ hub' = TRUE /\ state' = [state EXCEPT ![network] = "applied"]
          /\ UNCHANGED <<kind, mode, at, outcome, dbVars, pathVars, grants>>
      BY <1>1, <2>1 DEF ApplyNetwork, GoTo
    <3>. QED  BY <1>1, <3>1 DEF ApplyNetwork, In
  <2>2. CASE ~Private /\ PathGone
    <3>1. /\ state' = [state EXCEPT ![network] = "applied"]
          /\ UNCHANGED <<dbVars, pathVars, grants>>
          /\ hub' = FALSE /\ at = network /\ kind = "deploy"
      BY <1>1, <2>2 DEF ApplyNetwork, In, Private
    <3>2. UNCHANGED <<kind, mode, outcome>>
      BY <1>1, <2>2, <3>1 DEF ApplyNetwork, NextLayer
    <3>3. HasMode' /\ state'[network] = "applied"
          /\ state'[storage] = state[storage] /\ state'[data_platform] = state[data_platform]
      BY <3>1, <3>2
    <3>4. UNCHANGED <<db, schemas, owned, rows, tunnel, gateway, service, inband, rule, conn, grants>>
      BY <3>1
    <3>5. NothingDangles' /\ Bare'
      BY <2>2, <3>1, <3>3, <3>4
    <3>6. CameDown' /\ DestroyedIsGone'
      BY <3>1, <3>2
    <3>. QED  BY <3>3, <3>5, <3>6
  <2>3. CASE ~Private /\ ~PathGone
    BY <1>1, <2>3 DEF ApplyNetwork, In, LayerFails, EndJob
  <2>. QED  BY <2>1, <2>2, <2>3
<1>2. CASE BuildImage
  BY <1>2 DEF BuildImage, In, NextLayer, EndJob
<1>3. CASE ApplyServer
  BY <1>3 DEF ApplyServer, In
<1>4. CASE ApplySchemas
  BY <1>4 DEF ApplySchemas, In, Private, NextLayer, LayerFails, EndJob
<1>5. CASE ApplyTunnel
  BY <1>5 DEF ApplyTunnel, Applying, In, Private, LayerFails, EndJob
<1>6. CASE ApplyGateway
  BY <1>6 DEF ApplyGateway, Applying, In, Private
<1>7. CASE GatewaySteady
  BY <1>7 DEF GatewaySteady, Applying, In, Private, LayerFails, EndJob
<1>8. CASE ApplyService
  BY <1>8 DEF ApplyService, Applying, In, Private
<1>9. CASE ApplyInband
  BY <1>9 DEF ApplyInband, Applying, In, Private
<1>10. CASE ApplyRule
  BY <1>10 DEF ApplyRule, Applying, In, Private
<1>11. CASE IntegrationApplied
  BY <1>11 DEF IntegrationApplied, Applying, In, Private, GoTo
<1>12. CASE CreateSchemas
  BY <1>12 DEF CreateSchemas, In, GatewayCarries, NextLayer, EndJob
<1>13. CASE ApplyGrants
  BY <1>13 DEF ApplyGrants, In, GatewayCarries, Reachable, NextLayer,
     LayerFails, EndJob
<1>14. CASE ApplyCatalog
  BY <1>14 DEF ApplyCatalog, In, LayerFails, EndJob
<1>. QED
  BY <1>1, <1>2, <1>3, <1>4, <1>5, <1>6, <1>7, <1>8, <1>9, <1>10, <1>11,
     <1>12, <1>13, <1>14
  DEF DeployStep

(* A destroy takes a layer down under layers that are gone. *)
LEMMA DestroyKeepsInv ==
    ASSUME Inv, DestroyStep
    PROVE  Inv'
<1>1. CASE UnseedNothing
  BY <1>1 DEF UnseedNothing, Unseeding, GoTo
<1>2. CASE UnseedFromRunner
  BY <1>2 DEF UnseedFromRunner, Unseeding, GoTo
<1>3. CASE UnseedSkipped
  BY <1>3 DEF UnseedSkipped, Unseeding, GoTo
<1>4. CASE UnseedThroughGateway
  BY <1>4 DEF UnseedThroughGateway, Unseeding, EndJob, GoTo
<1>5. CASE DestroyGrants
  BY <1>5 DEF DestroyGrants, In, NextLayer, EndJob
<1>6. CASE DestroySchemas
  <2>1. ~grants /\ PathGone
    BY <1>6 DEF DestroySchemas, In
  <2>2. CASE db = "public" /\ ~rows
    BY <1>6, <2>1, <2>2 DEF DestroySchemas
  <2>3. CASE ~(db = "public" /\ ~rows)
    BY <1>6, <2>3 DEF DestroySchemas, LayerFails, EndJob
  <2>. QED  BY <2>2, <2>3
<1>7. CASE DestroyServer
  BY <1>7 DEF DestroyServer, In, NextLayer, EndJob
<1>8. CASE DestroyNetwork
  BY <1>8 DEF DestroyNetwork, In, NextLayer, LayerFails, EndJob
<1>9. CASE DrainRejects
  BY <1>9 DEF DrainRejects, GoTo
<1>10. CASE DrainEnds
  BY <1>10 DEF DrainEnds
<1>11. CASE DestroyCatalog
  BY <1>11 DEF DestroyCatalog, In, NextLayer, EndJob
<1>12. CASE Refused
  BY <1>12 DEF Refused, LayerFails, EndJob
<1>. QED
  BY <1>1, <1>2, <1>3, <1>4, <1>5, <1>6, <1>7, <1>8, <1>9, <1>10, <1>11, <1>12
  DEF DestroyStep, Unseed, DestroyStorage

(* Terraform unwinds the path from the rule down to the tunnel. *)
LEMMA UnwindKeepsInv ==
    ASSUME Inv, UnwindStep
    PROVE  Inv'
<1>1. CASE RemoveRule
  BY <1>1 DEF RemoveRule, Unwinding, In, Private
<1>2. CASE InbandDrain
  BY <1>2 DEF InbandDrain, Unwinding, In, Private
<1>3. CASE RemoveGateway
  BY <1>3 DEF RemoveGateway, Unwinding, In, Private
<1>4. CASE RemoveService
  BY <1>4 DEF RemoveService, Unwinding, In, Private, LayerFails, EndJob
<1>5. CASE RemoveTunnel
  BY <1>5 DEF RemoveTunnel, Unwinding, In, Private
<1>6. CASE PathRemoved
  BY <1>6 DEF PathRemoved, Unwinding, In, Private, NextLayer, EndJob
<1>. QED
  BY <1>1, <1>2, <1>3, <1>4, <1>5, <1>6
  DEF UnwindStep

(* Dispatches, transient failures, seeds, and what AWS and Databricks do. *)
LEMMA OtherKeepsInv ==
    ASSUME Inv,
           \/ \E m \in Modes, s \in Layer : DispatchDeploy(m, s)
           \/ \E s \in Layer : DispatchDestroy(s)
           \/ Transient \/ BreaksOff \/ Seed \/ EndpointUp \/ Reconnect \/ RejectionLands
           \/ UNCHANGED vars
    PROVE  Inv'
<1>1. ASSUME NEW m \in Modes, NEW s \in Layer, DispatchDeploy(m, s)
      PROVE  Inv'
  BY <1>1, PathAssumption DEF DispatchDeploy
<1>2. ASSUME NEW s \in Layer, DispatchDestroy(s)
      PROVE  Inv'
  <2>1. ASSUME NEW l \in Layer, l > s
        PROVE  ~Stands(l)
    <3>1. l \in (s + 1)..data_platform
      BY <2>1
    <3>. QED  BY <1>2, <3>1 DEF DispatchDestroy
  <2>2. CameDown'
    BY <1>2, <2>1 DEF DispatchDestroy
  <2>3. HasMode' /\ NothingDangles' /\ Bare' /\ DestroyedIsGone'
    BY <1>2 DEF DispatchDestroy
  <2>. QED  BY <2>2, <2>3
<1>3. CASE Transient
  BY <1>3 DEF Transient, LayerFails, EndJob
<1>4. CASE Seed
  BY <1>4 DEF Seed
<1>5. CASE EndpointUp
  BY <1>5 DEF EndpointUp
<1>6. CASE Reconnect
  BY <1>6 DEF Reconnect
<1>7. CASE RejectionLands
  BY <1>7 DEF RejectionLands
<1>8. CASE UNCHANGED vars
  BY <1>8 DEF vars
<1>9. CASE BreaksOff
  <2>1. /\ at # integration /\ state[at] # "bare"
        /\ state' = [state EXCEPT ![at] = "bare"]
        /\ UNCHANGED <<hub, db, schemas, owned, rows, tunnel, gateway, service, inband, rule, conn, grants>>
    BY <1>9 DEF BreaksOff
  <2>2. at' = at /\ kind' \in {kind, "idle"} /\ outcome' \in {outcome, "transient"}
    BY <1>9 DEF BreaksOff, LayerFails, EndJob
  <2>3. kind \in {"deploy", "destroy"}
    BY <1>9 DEF BreaksOff
  <2>4. HasMode'
    BY <1>9, <2>1 DEF BreaksOff, LayerFails, EndJob
  <2>5. \A l \in Layer \ {integration, at} : state'[l] = state[l]
    BY <2>1
  <2>6. at \in Layer \ {integration} => state'[at] = "bare"
    BY <2>1
  <2>7. CASE kind = "deploy"
    <3>1. state[at] = "absent" /\ (at = data_platform => state[storage] = "applied")
      BY <1>9, <2>7 DEF BreaksOff
    <3>2. NothingDangles'
      BY <2>1, <2>5, <2>6, <3>1
    <3>. QED  BY <2>1, <2>2, <2>3, <2>4, <2>7, <3>2
  <2>8. CASE kind = "destroy"
    <3>1. state[at] = "applied" /\ (at = data_platform => ~grants)
      BY <1>9, <2>8 DEF BreaksOff
    <3>2. \A l \in Layer : l > at => ~Stands(l)
      BY <2>8
    <3>3. NothingDangles'
      BY <2>1, <2>5, <2>6, <3>1, <3>2
    <3>4. CameDown'
      BY <2>1, <2>2, <2>5, <3>2
    <3>. QED  BY <2>1, <2>2, <2>3, <2>4, <2>8, <3>3, <3>4
  <2>. QED  BY <2>3, <2>7, <2>8
<1>. QED
  BY <1>1, <1>2, <1>3, <1>4, <1>5, <1>6, <1>7, <1>8, <1>9

LEMMA StepInv == Inv /\ [Next]_vars => Inv'
BY DeployKeepsInv, DestroyKeepsInv, UnwindKeepsInv, OtherKeepsInv
DEF Next, JobStep

HIDE DEF Inv, NothingDangles

LEMMA InvHolds == Spec => []Inv
BY InitInv, StepInv, PTL DEF Spec

-----------------------------------------------------------------------------
(* No part of the private path ever outlives what it stands on: the tunnel  *)
(* its two networks, the gateway and the service the tunnel, the rule the  *)
(* service and a steady gateway, the grants the schemas.                   *)
THEOREM NothingEverDangles == Spec => []NothingDangles
<1>1. Inv => NothingDangles
  BY DEF Inv
<1>. QED  BY <1>1, InvHolds, PTL

(* As long as nobody deploys again, a destroy that went through has left no *)
(* resource, no connection and no row.                                     *)
THEOREM GreenDestroysAreComplete == Spec => []GreenDestroyLeavesNothing
<1>1. Inv => GreenDestroyLeavesNothing
  BY DEF Inv, NothingDangles, GreenDestroyLeavesNothing
<1>. QED  BY <1>1, InvHolds, PTL
-----------------------------------------------------------------------------
(* Once the drain has seen no connection and no rule, none comes back while   *)
(* the destroy runs the layer again: only a deploy puts the rule back, and    *)
(* only a rule brings a rejected connection up.                               *)
Cut == settled => ~rule /\ conn \in {"none", "rejected"} /\ kind # "deploy"

(* A job under way has not ended yet. *)
Undecided == kind # "idle" => outcome = "none"

DrainInv == Cut /\ Undecided /\ SettledRetryWins

USE DEF DrainInv, Cut, Undecided, SettledRetryWins

LEMMA DeployKeepsDrainInv ==
    ASSUME DrainInv, DeployStep
    PROVE  DrainInv'
<1>. USE DEF In, Private, NextLayer, LayerFails, EndJob, GoTo, Applying
<1>1. CASE ApplyNetwork
  BY <1>1 DEF ApplyNetwork
<1>2. CASE BuildImage
  BY <1>2 DEF BuildImage
<1>3. CASE ApplyServer
  BY <1>3 DEF ApplyServer
<1>4. CASE ApplySchemas
  BY <1>4 DEF ApplySchemas
<1>5. CASE ApplyTunnel
  BY <1>5 DEF ApplyTunnel
<1>6. CASE ApplyGateway
  BY <1>6 DEF ApplyGateway
<1>7. CASE GatewaySteady
  BY <1>7 DEF GatewaySteady
<1>8. CASE ApplyService
  BY <1>8 DEF ApplyService
<1>9. CASE ApplyInband
  BY <1>9 DEF ApplyInband
<1>10. CASE ApplyRule
  BY <1>10 DEF ApplyRule
<1>11. CASE IntegrationApplied
  BY <1>11 DEF IntegrationApplied
<1>12. CASE CreateSchemas
  BY <1>12 DEF CreateSchemas
<1>13. CASE ApplyGrants
  BY <1>13 DEF ApplyGrants
<1>14. CASE ApplyCatalog
  BY <1>14 DEF ApplyCatalog
<1>. QED
  BY <1>1, <1>2, <1>3, <1>4, <1>5, <1>6, <1>7, <1>8, <1>9, <1>10, <1>11,
     <1>12, <1>13, <1>14
  DEF DeployStep

LEMMA DestroyKeepsDrainInv ==
    ASSUME DrainInv, DestroyStep \/ UnwindStep
    PROVE  DrainInv'
<1>. USE DEF In, NextLayer, LayerFails, EndJob, GoTo, Unseeding, Unwinding
<1>1. CASE Unseed
  BY <1>1 DEF Unseed, UnseedNothing, UnseedFromRunner, UnseedSkipped, UnseedThroughGateway
<1>2. CASE DestroyGrants \/ DestroyCatalog \/ Refused
  BY <1>2 DEF DestroyGrants, DestroyCatalog, Refused
<1>3. CASE DestroyStorage
  BY <1>3 DEF DestroyStorage, DestroySchemas, DestroyServer
<1>4. CASE DestroyNetwork
  BY <1>4 DEF DestroyNetwork
<1>5. CASE DrainRejects
  BY <1>5 DEF DrainRejects
<1>6. CASE DrainEnds
  BY <1>6 DEF DrainEnds
<1>7. CASE RemoveRule \/ InbandDrain \/ RemoveGateway \/ RemoveTunnel
  BY <1>7 DEF RemoveRule, InbandDrain, RemoveGateway, RemoveTunnel
<1>8. CASE RemoveService
  <2>1. kind # "idle" /\ outcome = "none"
    BY <1>8 DEF RemoveService
  <2>2. CASE Live \/ conn = "pending"
    <3>1. ~settled
      BY <2>2 DEF Live
    <3>2. UNCHANGED <<rule, settled>>
      BY <1>8 DEF RemoveService
    <3>3. outcome' = outcome \/ kind' = "idle"
      BY <1>8, <2>2 DEF RemoveService
    <3>. QED  BY <2>1, <3>1, <3>2, <3>3
  <2>3. CASE ~(Live \/ conn = "pending")
    <3>1. conn' = "none" /\ UNCHANGED <<rule, kind, settled, outcome>>
      BY <1>8, <2>3, Zenon DEF RemoveService
    <3>. QED  BY <3>1
  <2>. QED  BY <2>2, <2>3
<1>9. CASE PathRemoved
  BY <1>9 DEF PathRemoved
<1>. QED
  BY <1>1, <1>2, <1>3, <1>4, <1>5, <1>6, <1>7, <1>8, <1>9 DEF DestroyStep, UnwindStep

LEMMA StepDrainInv == DrainInv /\ [Next]_vars => DrainInv'
<1>. SUFFICES ASSUME DrainInv, [Next]_vars
              PROVE  DrainInv'
  OBVIOUS
<1>1. CASE JobStep
  BY <1>1, DeployKeepsDrainInv, DestroyKeepsDrainInv DEF JobStep
<1>2. ASSUME NEW m \in Modes, NEW s \in Layer, DispatchDeploy(m, s)
      PROVE  DrainInv'
  BY <1>2 DEF DispatchDeploy
<1>3. ASSUME NEW s \in Layer, DispatchDestroy(s)
      PROVE  DrainInv'
  BY <1>3 DEF DispatchDestroy
<1>4. CASE Transient \/ BreaksOff
  BY <1>4 DEF Transient, BreaksOff, LayerFails, EndJob
<1>5. CASE Seed \/ EndpointUp \/ Reconnect \/ RejectionLands
  BY <1>5 DEF Seed, EndpointUp, Reconnect, RejectionLands
<1>6. CASE UNCHANGED vars
  BY <1>6 DEF vars
<1>. QED  BY <1>1, <1>2, <1>3, <1>4, <1>5, <1>6 DEF Next

HIDE DEF DrainInv

(* "is clear - the service can be deleted now" is true of every history of    *)
(* deploys, switches and failures: a retry after it is not refused again.     *)
THEOREM SettledRetryAlwaysWins == Spec => []SettledRetryWins
<1>1. Init => DrainInv
  BY DEF Init, DrainInv
<1>2. DrainInv => SettledRetryWins
  BY DEF DrainInv
<1>. QED  BY <1>1, <1>2, StepDrainInv, PTL DEF Spec

-----------------------------------------------------------------------------
(* Type correctness: the job stays inside the layers, the deploys inside      *)
(* their bound.                                                               *)

JobTypeOK ==
    /\ retried \in BOOLEAN /\ settled \in BOOLEAN
    /\ done \subseteq Layer
    /\ kind \in {"idle", "deploy", "destroy"}
    /\ mode \in {"public", "private"}
    /\ at \in Layer
    /\ pc \in {"apply", "step", "unseed", "destroy", "drain", "poll", "end"}
    /\ start_from \in Layer
    /\ outcome \in Outcomes
    /\ deploys \in 0..MaxDeploys

StackTypeOK ==
    /\ hub \in BOOLEAN /\ image \in BOOLEAN
    /\ schemas \in BOOLEAN /\ owned \in BOOLEAN /\ rows \in BOOLEAN
    /\ tunnel \in BOOLEAN /\ service \in BOOLEAN /\ inband \in BOOLEAN
    /\ rule \in BOOLEAN /\ grants \in BOOLEAN
    /\ state \in [Layer \ {integration} -> Condition]
    /\ db \in {"none", "public", "private"}
    /\ gateway \in {"none", "starting", "steady"}
    /\ conn \in Connection

LEMMA TypeOKInParts == TypeOK <=> JobTypeOK /\ StackTypeOK
BY DEF TypeOK, JobTypeOK, StackTypeOK

(* The ways a step leaves the job. *)
JobMove ==
    \/ \E o \in Outcomes : EndJob(o) \/ LayerFails(o)
    \/ \E p \in {"step", "destroy", "poll"} : GoTo(p)
    \/ NextLayer
    \/ UNCHANGED jobVars

LEMMA JobMoves ==
    ASSUME JobTypeOK, JobMove
    PROVE  JobTypeOK'
<1>. USE DEF JobTypeOK, Outcomes
<1>1. ASSUME NEW o \in Outcomes, EndJob(o)
      PROVE  JobTypeOK'
  BY <1>1 DEF EndJob
<1>2. ASSUME NEW o \in Outcomes, LayerFails(o)
      PROVE  JobTypeOK'
  BY <1>1, <1>2 DEF LayerFails, EndJob
<1>3. ASSUME NEW p \in {"step", "destroy", "poll"}, GoTo(p)
      PROVE  JobTypeOK'
  BY <1>3 DEF GoTo
<1>4. CASE NextLayer
  <2>1. CASE kind = "deploy" /\ at < data_platform
    <3>0. kind # "destroy" /\ at # data_platform
      BY <2>1
    <3>1. /\ at' = at + 1 /\ pc' = "apply" /\ done' = done \cup {at}
          /\ UNCHANGED <<kind, mode, retried, settled, start_from, outcome, deploys>>
      BY <1>4, <3>0, Zenon DEF NextLayer
    <3>2. at' \in Layer /\ done' \subseteq Layer
      BY <2>1, <3>1
    <3>. QED  BY <3>1, <3>2
  <2>2. CASE kind = "deploy" /\ at = data_platform
    <3>0. kind # "destroy" /\ ~(at < data_platform)
      BY <2>2
    <3>1. /\ done' = done \cup {at} /\ kind' = "idle" /\ pc' = "end" /\ outcome' = "deployed"
          /\ UNCHANGED <<mode, at, retried, settled, start_from, deploys>>
      BY <1>4, <3>0, Zenon DEF NextLayer
    <3>2. done' \subseteq Layer
      BY <2>2, <3>1
    <3>. QED  BY <3>1, <3>2
  <2>3. CASE kind = "destroy" /\ at > network
    <3>1. at' \in Layer /\ retried' = FALSE /\ settled' = FALSE /\ pc' = "destroy"
      BY <1>4, <2>3 DEF NextLayer
    <3>2. UNCHANGED <<done, kind, mode, start_from, outcome, deploys>>
      BY <1>4, <2>3 DEF NextLayer
    <3>. QED  BY <3>1, <3>2
  <2>4. CASE kind = "destroy" /\ at = network
    BY <1>1, <1>4, <2>4 DEF NextLayer
  <2>. QED  BY <1>4, <2>1, <2>2, <2>3, <2>4 DEF NextLayer
<1>5. CASE UNCHANGED jobVars
  BY <1>5
<1>. QED  BY <1>1, <1>2, <1>3, <1>4, <1>5 DEF JobMove

HIDE DEF TypeOK

(* What each step of a deploy or a destroy does to the job. *)
LEMMA DeployMovesJob ==
    ASSUME DeployStep
    PROVE  JobMove
<1>1. CASE ApplyNetwork
  BY <1>1, Zenon DEF ApplyNetwork, JobMove, Outcomes
<1>2. CASE BuildImage
  BY <1>2, Zenon DEF BuildImage, JobMove, Outcomes
<1>3. CASE ApplyServer
  BY <1>3, Zenon DEF ApplyServer, JobMove, Outcomes
<1>4. CASE ApplySchemas
  BY <1>4, Zenon DEF ApplySchemas, JobMove, Outcomes
<1>5. CASE ApplyTunnel
  BY <1>5, Zenon DEF ApplyTunnel, JobMove, Outcomes
<1>6. CASE ApplyGateway
  BY <1>6, Zenon DEF ApplyGateway, JobMove, Outcomes
<1>7. CASE GatewaySteady
  BY <1>7, Zenon DEF GatewaySteady, JobMove, Outcomes
<1>8. CASE ApplyService
  BY <1>8, Zenon DEF ApplyService, JobMove, Outcomes
<1>9. CASE ApplyInband
  BY <1>9, Zenon DEF ApplyInband, JobMove, Outcomes
<1>10. CASE ApplyRule
  BY <1>10, Zenon DEF ApplyRule, JobMove, Outcomes
<1>11. CASE IntegrationApplied
  BY <1>11, Zenon DEF IntegrationApplied, JobMove, Outcomes
<1>12. CASE CreateSchemas
  BY <1>12, Zenon DEF CreateSchemas, JobMove, Outcomes
<1>13. CASE ApplyGrants
  BY <1>13, Zenon DEF ApplyGrants, JobMove, Outcomes
<1>14. CASE ApplyCatalog
  BY <1>14, Zenon DEF ApplyCatalog, JobMove, Outcomes
<1>. QED
  BY <1>1, <1>2, <1>3, <1>4, <1>5, <1>6, <1>7, <1>8, <1>9, <1>10, <1>11, <1>12, <1>13, <1>14
  DEF DeployStep

LEMMA DestroyMovesJob ==
    ASSUME DestroyStep \/ UnwindStep, ~DrainEnds
    PROVE  JobMove
<1>1. CASE UnseedNothing
  BY <1>1, Zenon DEF UnseedNothing, JobMove, Outcomes
<1>2. CASE UnseedFromRunner
  BY <1>2, Zenon DEF UnseedFromRunner, JobMove, Outcomes
<1>3. CASE UnseedSkipped
  BY <1>3, Zenon DEF UnseedSkipped, JobMove, Outcomes
<1>4. CASE UnseedThroughGateway
  BY <1>4, Zenon DEF UnseedThroughGateway, JobMove, Outcomes
<1>5. CASE DestroyGrants
  BY <1>5, Zenon DEF DestroyGrants, JobMove, Outcomes
<1>6. CASE DestroySchemas
  BY <1>6, Zenon DEF DestroySchemas, JobMove, Outcomes
<1>7. CASE DestroyServer
  BY <1>7, Zenon DEF DestroyServer, JobMove, Outcomes
<1>8. CASE DestroyNetwork
  BY <1>8, Zenon DEF DestroyNetwork, JobMove, Outcomes
<1>9. CASE DrainRejects
  BY <1>9, Zenon DEF DrainRejects, JobMove, Outcomes
<1>10. CASE RemoveRule
  BY <1>10, Zenon DEF RemoveRule, JobMove, Outcomes
<1>11. CASE InbandDrain
  BY <1>11, Zenon DEF InbandDrain, JobMove, Outcomes
<1>12. CASE RemoveGateway
  BY <1>12, Zenon DEF RemoveGateway, JobMove, Outcomes
<1>13. CASE RemoveService
  BY <1>13, Zenon DEF RemoveService, JobMove, Outcomes
<1>14. CASE RemoveTunnel
  BY <1>14, Zenon DEF RemoveTunnel, JobMove, Outcomes
<1>15. CASE PathRemoved
  BY <1>15, Zenon DEF PathRemoved, JobMove, Outcomes
<1>16. CASE DestroyCatalog
  BY <1>16, Zenon DEF DestroyCatalog, JobMove, Outcomes
<1>17. CASE Refused
  BY <1>17, Zenon DEF Refused, JobMove, Outcomes
<1>. QED
  BY <1>1, <1>2, <1>3, <1>4, <1>5, <1>6, <1>7, <1>8, <1>9, <1>10, <1>11, <1>12, <1>13, <1>14, <1>15,
     <1>16, <1>17
  DEF DestroyStep, Unseed, DestroyStorage, UnwindStep

(* What it does to the stack. *)
LEMMA DeployTypes ==
    ASSUME JobTypeOK, StackTypeOK, DeployStep
    PROVE  StackTypeOK'
<1>. USE DEF JobTypeOK, StackTypeOK, Connection, Condition
<1>1. CASE ApplyNetwork
  <2>1. hub' \in BOOLEAN /\ image' \in BOOLEAN
    BY <1>1, Zenon DEF ApplyNetwork, Private
  <2>2. UNCHANGED <<db, schemas, owned, rows, tunnel, gateway, service, inband, rule, conn, grants>>
    BY <1>1, Zenon DEF ApplyNetwork, dbVars, pathVars
  <2>3. state' = state \/ state' = [state EXCEPT ![network] = "applied"]
    BY <1>1, Zenon DEF ApplyNetwork
  <2>. QED  BY <2>1, <2>2, <2>3
<1>2. CASE BuildImage
  BY <1>2 DEF BuildImage
<1>3. CASE ApplyServer
  BY <1>3 DEF ApplyServer
<1>4. CASE ApplySchemas
  <2>1. schemas' \in BOOLEAN /\ owned' \in BOOLEAN
    BY <1>4, Zenon DEF ApplySchemas
  <2>2. UNCHANGED <<hub, image, db, rows, tunnel, gateway, service, inband, rule, conn, grants, state>>
    BY <1>4, Zenon DEF ApplySchemas, dbVars, pathVars
  <2>. QED  BY <2>1, <2>2
<1>5. CASE ApplyTunnel
  <2>1. tunnel' \in BOOLEAN
    BY <1>5, Zenon DEF ApplyTunnel
  <2>2. UNCHANGED <<hub, image, db, schemas, owned, rows, gateway, service, inband, rule, conn, grants, state>>
    BY <1>5, Zenon DEF ApplyTunnel, dbVars, pathVars
  <2>. QED  BY <2>1, <2>2
<1>6. CASE ApplyGateway
  BY <1>6 DEF ApplyGateway
<1>7. CASE GatewaySteady
  <2>1. gateway' \in {"none", "starting", "steady"}
    BY <1>7, Zenon DEF GatewaySteady
  <2>2. UNCHANGED <<hub, image, db, schemas, owned, rows, tunnel, service, inband, rule, conn, grants, state>>
    BY <1>7, Zenon DEF GatewaySteady, dbVars, pathVars
  <2>. QED  BY <2>1, <2>2
<1>8. CASE ApplyService
  BY <1>8 DEF ApplyService
<1>9. CASE ApplyInband
  BY <1>9 DEF ApplyInband
<1>10. CASE ApplyRule
  BY <1>10 DEF ApplyRule
<1>11. CASE IntegrationApplied
  BY <1>11 DEF IntegrationApplied
<1>12. CASE CreateSchemas
  <2>1. schemas' \in BOOLEAN
    BY <1>12, Zenon DEF CreateSchemas
  <2>2. UNCHANGED <<hub, image, db, owned, rows, tunnel, gateway, service, inband, rule, conn, grants, state>>
    BY <1>12, Zenon DEF CreateSchemas, dbVars, pathVars
  <2>. QED  BY <2>1, <2>2
<1>13. CASE ApplyGrants
  <2>1. grants' \in BOOLEAN
    BY <1>13, Zenon DEF ApplyGrants
  <2>2. UNCHANGED <<hub, image, db, schemas, owned, rows, tunnel, gateway, service, inband, rule, conn, state>>
    BY <1>13, Zenon DEF ApplyGrants, dbVars, pathVars
  <2>. QED  BY <2>1, <2>2
<1>14. CASE ApplyCatalog
  <2>1. state' = state \/ state' = [state EXCEPT ![data_platform] = "applied"]
    BY <1>14, Zenon DEF ApplyCatalog
  <2>2. UNCHANGED <<hub, image, db, schemas, owned, rows, tunnel, gateway, service, inband, rule, conn, grants>>
    BY <1>14, Zenon DEF ApplyCatalog, dbVars, pathVars
  <2>. QED  BY <2>1, <2>2
<1>. QED
  BY <1>1, <1>2, <1>3, <1>4, <1>5, <1>6, <1>7, <1>8, <1>9, <1>10, <1>11, <1>12, <1>13, <1>14
  DEF DeployStep

LEMMA DestroyTypes ==
    ASSUME JobTypeOK, StackTypeOK, DestroyStep \/ UnwindStep
    PROVE  StackTypeOK'
<1>. USE DEF JobTypeOK, StackTypeOK, Connection, Condition
<1>1. CASE UnseedNothing
  BY <1>1 DEF UnseedNothing
<1>2. CASE UnseedFromRunner
  <2>1. rows' \in BOOLEAN
    BY <1>2, Zenon DEF UnseedFromRunner
  <2>2. UNCHANGED <<hub, image, db, schemas, owned, tunnel, gateway, service, inband, rule, conn, grants, state>>
    BY <1>2, Zenon DEF UnseedFromRunner, dbVars, pathVars
  <2>. QED  BY <2>1, <2>2
<1>3. CASE UnseedSkipped
  BY <1>3 DEF UnseedSkipped
<1>4. CASE UnseedThroughGateway
  <2>1. rows' \in BOOLEAN
    BY <1>4, Zenon DEF UnseedThroughGateway
  <2>2. UNCHANGED <<hub, image, db, schemas, owned, tunnel, gateway, service, inband, rule, conn, grants, state>>
    BY <1>4, Zenon DEF UnseedThroughGateway, dbVars, pathVars
  <2>. QED  BY <2>1, <2>2
<1>5. CASE DestroyGrants
  <2>1. grants' \in BOOLEAN
    BY <1>5, Zenon DEF DestroyGrants
  <2>2. UNCHANGED <<hub, image, db, schemas, owned, rows, tunnel, gateway, service, inband, rule, conn, state>>
    BY <1>5, Zenon DEF DestroyGrants, dbVars, pathVars
  <2>. QED  BY <2>1, <2>2
<1>6. CASE DestroySchemas
  <2>1. schemas' \in BOOLEAN /\ owned' \in BOOLEAN
    BY <1>6, Zenon DEF DestroySchemas
  <2>2. UNCHANGED <<hub, image, db, rows, tunnel, gateway, service, inband, rule, conn, grants, state>>
    BY <1>6, Zenon DEF DestroySchemas, dbVars, pathVars
  <2>. QED  BY <2>1, <2>2
<1>7. CASE DestroyServer
  BY <1>7 DEF DestroyServer
<1>8. CASE DestroyNetwork
  <2>1. hub' \in BOOLEAN /\ image' \in BOOLEAN
    BY <1>8, Zenon DEF DestroyNetwork
  <2>2. UNCHANGED <<db, schemas, owned, rows, tunnel, gateway, service, inband, rule, conn, grants>>
    BY <1>8, Zenon DEF DestroyNetwork, dbVars, pathVars
  <2>3. state' = state \/ state' = [state EXCEPT ![network] = "absent"]
    BY <1>8, Zenon DEF DestroyNetwork
  <2>. QED  BY <2>1, <2>2, <2>3
<1>9. CASE DrainRejects
  <2>1. conn' = "rejecting" \/ conn' = conn
    BY <1>9, Zenon DEF DrainRejects
  <2>2. UNCHANGED <<hub, image, db, schemas, owned, rows, tunnel, gateway, service, inband, rule, grants, state>>
    BY <1>9, Zenon DEF DrainRejects, dbVars, pathVars
  <2>. QED  BY <2>1, <2>2
<1>10. CASE DrainEnds
  BY <1>10 DEF DrainEnds
<1>11. CASE RemoveRule
  <2>1. rule' \in BOOLEAN
    BY <1>11, Zenon DEF RemoveRule
  <2>2. UNCHANGED <<hub, image, db, schemas, owned, rows, tunnel, gateway, service, inband, conn, grants, state>>
    BY <1>11, Zenon DEF RemoveRule, dbVars, pathVars
  <2>. QED  BY <2>1, <2>2
<1>12. CASE InbandDrain
  <2>1. inband' \in BOOLEAN /\ (conn' = "rejecting" \/ conn' = conn)
    BY <1>12, Zenon DEF InbandDrain
  <2>2. UNCHANGED <<hub, image, db, schemas, owned, rows, tunnel, gateway, service, rule, grants, state>>
    BY <1>12, Zenon DEF InbandDrain, dbVars, pathVars
  <2>. QED  BY <2>1, <2>2
<1>13. CASE RemoveGateway
  <2>1. gateway' = "none"
    BY <1>13 DEF RemoveGateway
  <2>2. UNCHANGED <<hub, image, db, schemas, owned, rows, tunnel, service, inband, rule, conn, grants, state>>
    BY <1>13, Zenon DEF RemoveGateway, dbVars, pathVars
  <2>. QED  BY <2>1, <2>2
<1>14. CASE RemoveService
  <2>1. service' \in BOOLEAN /\ conn' \in Connection
    BY <1>14, Zenon DEF RemoveService
  <2>2. UNCHANGED <<hub, image, db, schemas, owned, rows, tunnel, gateway, inband, rule, grants, state>>
    BY <1>14, Zenon DEF RemoveService, dbVars, pathVars
  <2>. QED  BY <2>1, <2>2
<1>15. CASE RemoveTunnel
  BY <1>15 DEF RemoveTunnel
<1>16. CASE PathRemoved
  BY <1>16 DEF PathRemoved
<1>17. CASE DestroyCatalog
  BY <1>17 DEF DestroyCatalog
<1>18. CASE Refused
  BY <1>18 DEF Refused
<1>. QED
  BY <1>1, <1>2, <1>3, <1>4, <1>5, <1>6, <1>7, <1>8, <1>9, <1>10, <1>11, <1>12, <1>13, <1>14, <1>15,
     <1>16, <1>17, <1>18
  DEF DestroyStep, Unseed, DestroyStorage, UnwindStep

LEMMA DispatchTypes ==
    ASSUME JobTypeOK, StackTypeOK,
           \/ \E m \in Modes, s \in Layer : DispatchDeploy(m, s)
           \/ \E s \in Layer : DispatchDestroy(s)
    PROVE  JobTypeOK' /\ StackTypeOK'
<1>1. ASSUME NEW m \in Modes, NEW s \in Layer, DispatchDeploy(m, s)
      PROVE  JobTypeOK'
  <2>1. deploys' \in 0..MaxDeploys /\ done' \subseteq Layer /\ mode' \in {"public", "private"}
    BY <1>1, PathAssumption DEF DispatchDeploy, JobTypeOK
  <2>2. /\ retried' = FALSE /\ settled' = FALSE /\ kind' = "deploy" /\ at' = s
        /\ pc' = "apply" /\ start_from' = s /\ outcome' = "none"
    BY <1>1, Zenon DEF DispatchDeploy
  <2>. QED  BY <2>1, <2>2 DEF JobTypeOK, Outcomes
<1>2. ASSUME NEW s \in Layer, DispatchDestroy(s)
      PROVE  JobTypeOK'
  <2>1. /\ retried' = FALSE /\ settled' = FALSE /\ kind' = "destroy" /\ at' = s
        /\ pc' = "unseed" /\ outcome' = "none" /\ done' = {}
        /\ UNCHANGED <<mode, start_from, deploys>>
    BY <1>2, Zenon DEF DispatchDestroy
  <2>. QED  BY <2>1 DEF JobTypeOK, Outcomes
<1>3. UNCHANGED stackVars
  BY Zenon DEF DispatchDeploy, DispatchDestroy
<1>. QED  BY <1>1, <1>2, <1>3 DEF StackTypeOK

(* The path's variables and the job's stay in their types. *)
THEOREM PathTypeCorrect == Spec => []TypeOK
<1>1. Init => JobTypeOK /\ StackTypeOK
  <2>. SUFFICES ASSUME Init PROVE JobTypeOK /\ StackTypeOK
    OBVIOUS
  <2>1. JobTypeOK
    <3>1. /\ deploys \in 0..MaxDeploys /\ at \in Layer /\ start_from \in Layer /\ done \subseteq Layer
      BY PathAssumption DEF Init
    <3>2. /\ retried = FALSE /\ settled = FALSE /\ kind = "idle" /\ mode = "public"
          /\ pc = "end" /\ outcome = "none"
      BY Zenon DEF Init
    <3>. QED  BY <3>1, <3>2 DEF JobTypeOK, Outcomes
  <2>2. StackTypeOK
    BY DEF Init, StackTypeOK, Connection
  <2>. QED  BY <2>1, <2>2
<1>2. JobTypeOK /\ StackTypeOK /\ [Next]_vars => JobTypeOK' /\ StackTypeOK'
  <2>. SUFFICES ASSUME JobTypeOK, StackTypeOK, [Next]_vars
                PROVE  JobTypeOK' /\ StackTypeOK'
    OBVIOUS
  <2>1. CASE JobStep
    <3>1. CASE DrainEnds
      BY <3>1, DestroyTypes DEF DrainEnds, JobTypeOK, DestroyStep
    <3>2. CASE ~DrainEnds
      BY <2>1, <3>2, JobMoves, DeployMovesJob, DestroyMovesJob, DeployTypes, DestroyTypes
      DEF JobStep
    <3>. QED  BY <3>1, <3>2
  <2>2. CASE \/ \E m \in Modes, s \in Layer : DispatchDeploy(m, s)
             \/ \E s \in Layer : DispatchDestroy(s)
    BY <2>2, DispatchTypes
  <2>3. CASE Transient
    <3>1. JobMove /\ UNCHANGED stackVars
      BY <2>3, Zenon DEF Transient, JobMove, Outcomes
    <3>. QED  BY <3>1, JobMoves DEF StackTypeOK
  <2>5. CASE BreaksOff
    <3>1. JobMove /\ UNCHANGED <<hub, image, db, schemas, owned, rows, tunnel, gateway, service, inband, rule, conn, grants>>
      BY <2>5, Zenon DEF BreaksOff, JobMove, Outcomes, dbVars, pathVars
    <3>2. at # integration /\ state' = [state EXCEPT ![at] = "bare"]
      BY <2>5, Zenon DEF BreaksOff
    <3>. QED  BY <3>1, <3>2, JobMoves DEF StackTypeOK, JobTypeOK, Condition
  <2>4. CASE Seed \/ EndpointUp \/ Reconnect \/ RejectionLands \/ UNCHANGED vars
    <3>1. JobMove
      BY <2>4, Zenon DEF Seed, EndpointUp, Reconnect, RejectionLands, vars, JobMove
    <3>2. UNCHANGED <<hub, image, db, schemas, owned, tunnel, gateway, service, inband, rule, grants, state>>
      BY <2>4, Zenon DEF Seed, EndpointUp, Reconnect, RejectionLands, vars, stackVars, dbVars, pathVars
    <3>3. rows' \in BOOLEAN
      BY <2>4, Zenon DEF StackTypeOK, Seed, EndpointUp, Reconnect, RejectionLands, vars, stackVars, dbVars
    <3>4. conn' \in Connection
      BY <2>4, Zenon DEF StackTypeOK, Connection, Seed, EndpointUp, Reconnect, RejectionLands, vars, stackVars, pathVars
    <3>5. StackTypeOK'
      BY <3>2, <3>3, <3>4 DEF StackTypeOK
    <3>. QED  BY <3>1, <3>5, JobMoves
  <2>. QED  BY <2>1, <2>2, <2>3, <2>4, <2>5 DEF Next
<1>. QED  BY <1>1, <1>2, TypeOKInParts, PTL DEF Spec
-----------------------------------------------------------------------------
(* A stack kept in one mode *)

(* What stands in either mode. *)
OneMode ==
    /\ ~Private => ~hub /\ ~image /\ PathGone /\ db # "private" /\ (owned <=> schemas)
    /\ Private => db # "public" /\ ~owned

(* What the gateway needs to start again, what a rule has asked Databricks    *)
(* for, and the gateway every row of a private database has come through.     *)
Held ==
    /\ gateway # "none" => image
    /\ rule => conn # "none"
    /\ rows /\ db = "private" => gateway # "none"

(* Past the unseed, a destroy meets no row. *)
Unseeded == kind = "destroy" /\ pc # "unseed" => ~rows

(* What a layer leaves once it is done, with the step that follows it. *)
Finished ==
    /\ network \in done => state[network] = "applied" /\ (Private => hub /\ image)
    /\ storage \in done => state[storage] = "applied" /\ db = mode /\ (~Private => schemas)
    /\ integration \in done /\ Private => rule /\ schemas
    /\ data_platform \in done => grants

(* A deploy has done the layers below the one it is in; a destroy goes by none. *)
Below ==
    /\ kind = "deploy" =>
        /\ at > network => network \in done
        /\ at > storage => storage \in done
        /\ at > integration => integration \in done
    /\ kind = "destroy" => done = {}
    /\ kind = "deploy" /\ pc = "step" =>
        Private /\ (at = network => hub /\ state[network] = "applied") /\ (at = integration => rule)

Green == outcome = "deployed" => kind = "idle" /\ Layer \subseteq done

(* Before the first deploy there is nothing, in whichever mode. *)
Fresh ==
    deploys = 0 =>
        /\ ~hub /\ ~image /\ db = "none" /\ ~schemas /\ ~owned /\ ~rows /\ ~grants
        /\ PathGone /\ conn = "none" /\ (\A l \in Layer \ {integration} : state[l] = "absent")
        /\ kind # "deploy" /\ done = {} /\ outcome # "deployed"

Kept ==
    /\ OneMode /\ Held /\ Unseeded /\ Finished /\ Below /\ Green /\ Fresh
    /\ Undecided /\ NothingBlocks

Shaped == Inv /\ TypeOK

USE DEF Kept, OneMode, Held, Unseeded, Finished, Below, Green, Fresh, NothingBlocks,
        Undecided, Shaped, Inv, NothingDangles, TypeOK

LEMMA DeployKeeps ==
    ASSUME Kept, Shaped, DeployStep
    PROVE  Kept'
<1>. USE DEF Private, In, Applying, Unseeding, Unwinding, NextLayer, LayerFails, EndJob, GoTo, GatewayCarries, Reachable, Live
<1>1. CASE ApplyNetwork
  <2>1. CASE Private
    <3>1. /\ hub' = TRUE /\ image' = image
          /\ state' = [state EXCEPT ![network] = "applied"]
          /\ kind = "deploy" /\ at = network /\ pc' = "step"
      BY <1>1, <2>1 DEF ApplyNetwork
    <3>2. UNCHANGED <<dbVars, pathVars, grants, done, kind, mode, at, outcome, deploys>>
      BY <1>1, <2>1 DEF ApplyNetwork
    <3>. QED  BY <2>1, <3>1, <3>2
  <2>2. CASE ~Private
    <3>0. PathGone
      BY <2>2
    <3>1. /\ hub' = FALSE /\ image' = FALSE
          /\ state' = [state EXCEPT ![network] = "applied"]
          /\ kind = "deploy" /\ at = network /\ pc' = "apply"
          /\ done' = done \cup {network} /\ at' = storage
      BY <1>1, <2>2, <3>0 DEF ApplyNetwork
    <3>2. UNCHANGED <<dbVars, pathVars, grants, kind, mode, outcome, deploys>>
      BY <1>1, <2>2, <3>0 DEF ApplyNetwork
    <3>. QED  BY <2>2, <3>0, <3>1, <3>2
  <2>. QED  BY <2>1, <2>2
<1>2. CASE BuildImage
  BY <1>2 DEF BuildImage
<1>3. CASE ApplyServer
  BY <1>3 DEF ApplyServer
<1>4. CASE ApplySchemas
  BY <1>4 DEF ApplySchemas
<1>5. CASE ApplyTunnel
  BY <1>5 DEF ApplyTunnel
<1>6. CASE ApplyGateway
  BY <1>6 DEF ApplyGateway
<1>7. CASE GatewaySteady
  BY <1>7 DEF GatewaySteady
<1>8. CASE ApplyService
  BY <1>8 DEF ApplyService
<1>9. CASE ApplyInband
  BY <1>9 DEF ApplyInband
<1>10. CASE ApplyRule
  BY <1>10 DEF ApplyRule
<1>11. CASE IntegrationApplied
  BY <1>11 DEF IntegrationApplied
<1>12. CASE CreateSchemas
  BY <1>12 DEF CreateSchemas
<1>13. CASE ApplyGrants
  BY <1>13 DEF ApplyGrants
<1>14. CASE ApplyCatalog
  BY <1>14 DEF ApplyCatalog
<1>. QED
  BY <1>1, <1>2, <1>3, <1>4, <1>5, <1>6, <1>7, <1>8, <1>9, <1>10, <1>11, <1>12, <1>13, <1>14
  DEF DeployStep

LEMMA DestroyKeeps ==
    ASSUME Kept, Shaped, DestroyStep
    PROVE  Kept'
<1>. USE DEF Private, In, Applying, Unseeding, Unwinding, NextLayer, LayerFails, EndJob, GoTo, GatewayCarries, Reachable, Live
<1>1. CASE UnseedNothing
  BY <1>1 DEF UnseedNothing
<1>2. CASE UnseedFromRunner
  BY <1>2 DEF UnseedFromRunner
<1>3. CASE UnseedSkipped
  BY <1>3 DEF UnseedSkipped
<1>4. CASE UnseedThroughGateway
  BY <1>4 DEF UnseedThroughGateway
<1>5. CASE DestroyGrants
  BY <1>5 DEF DestroyGrants
<1>6. CASE DestroySchemas
  BY <1>6 DEF DestroySchemas
<1>7. CASE DestroyServer
  BY <1>7 DEF DestroyServer
<1>8. CASE DestroyNetwork
  <2>0. PathGone /\ at = network /\ kind = "destroy" /\ pc # "unseed"
    BY <1>8 DEF DestroyNetwork
  <2>1. /\ hub' = FALSE /\ image' = FALSE /\ kind' = "idle" /\ outcome' = "destroyed"
        /\ state' = [state EXCEPT ![network] = "absent"]
    BY <1>8, <2>0 DEF DestroyNetwork
  <2>2. UNCHANGED <<dbVars, pathVars, grants, done, mode, at, deploys>>
    BY <1>8, <2>0 DEF DestroyNetwork
  <2>. QED  BY <2>0, <2>1, <2>2
<1>9. CASE DrainRejects
  BY <1>9 DEF DrainRejects
<1>10. CASE DrainEnds
  BY <1>10 DEF DrainEnds
<1>11. CASE DestroyCatalog
  BY <1>11 DEF DestroyCatalog
<1>12. CASE Refused
  BY <1>12 DEF Refused
<1>. QED
  BY <1>1, <1>2, <1>3, <1>4, <1>5, <1>6, <1>7, <1>8, <1>9, <1>10, <1>11, <1>12
  DEF DestroyStep, Unseed, DestroyStorage

LEMMA UnwindKeeps ==
    ASSUME Kept, Shaped, UnwindStep
    PROVE  Kept'
<1>. USE DEF Private, In, Applying, Unseeding, Unwinding, NextLayer, LayerFails, EndJob, GoTo, GatewayCarries, Reachable, Live
<1>1. CASE RemoveRule
  BY <1>1 DEF RemoveRule
<1>2. CASE InbandDrain
  BY <1>2 DEF InbandDrain
<1>3. CASE RemoveGateway
  BY <1>3 DEF RemoveGateway
<1>4. CASE RemoveService
  BY <1>4 DEF RemoveService
<1>5. CASE RemoveTunnel
  BY <1>5 DEF RemoveTunnel
<1>6. CASE PathRemoved
  BY <1>6 DEF PathRemoved
<1>. QED
  BY <1>1, <1>2, <1>3, <1>4, <1>5, <1>6
  DEF UnwindStep

(* A deploy's first dispatch chooses the mode, and no later one changes it.   *)
LEMMA DispatchKeeps ==
    ASSUME Kept, Shaped, ~Switching,
           \/ \E m \in Modes, s \in Layer : DispatchDeploy(m, s)
           \/ \E s \in Layer : DispatchDestroy(s)
    PROVE  Kept'
<1>1. ASSUME NEW m \in Modes, NEW s \in Layer, DispatchDeploy(m, s)
      PROVE  Kept'
  <2>1. /\ deploys + 1 # 0
        /\ network..(s - 1) \subseteq done
        /\ s > network => network \in network..(s - 1)
        /\ s > storage => storage \in network..(s - 1)
        /\ s > integration => integration \in network..(s - 1)
    BY <1>1 DEF DispatchDeploy
  <2>2. deploys = 0 \/ m = mode
    BY <1>1 DEF DispatchDeploy
  <2>. QED  BY <1>1, <2>1, <2>2, PathAssumption DEF DispatchDeploy, Private, GatewayCarries
<1>2. ASSUME NEW s \in Layer, DispatchDestroy(s)
      PROVE  Kept'
  BY <1>2 DEF DispatchDestroy, Private
<1>. QED  BY <1>1, <1>2

LEMMA OthersKeep ==
    ASSUME Kept, Shaped,
           Transient \/ BreaksOff \/ Seed \/ EndpointUp \/ Reconnect \/ RejectionLands \/ UNCHANGED vars
    PROVE  Kept'
<1>. USE DEF Private, GatewayCarries
<1>1. CASE Transient
  BY <1>1 DEF Transient, LayerFails, EndJob
<1>2. CASE Seed
  BY <1>2 DEF Seed
<1>3. CASE EndpointUp
  BY <1>3 DEF EndpointUp
<1>4. CASE Reconnect
  BY <1>4 DEF Reconnect
<1>5. CASE RejectionLands
  BY <1>5 DEF RejectionLands
<1>6. CASE UNCHANGED vars
  BY <1>6 DEF vars
<1>7. CASE BreaksOff
  <2>1. /\ at # integration /\ state' = [state EXCEPT ![at] = "bare"]
        /\ kind # "idle" /\ pc \in {"apply", "destroy"}
        /\ kind = "deploy" => state[at] = "absent"
        /\ kind = "destroy" => state[at] = "applied"
    BY <1>7 DEF BreaksOff
  <2>2. UNCHANGED <<hub, image, dbVars, pathVars, grants, done, mode, at, deploys>>
    BY <1>7 DEF BreaksOff, LayerFails, EndJob
  <2>3. \/ kind = "destroy" /\ kind' = kind /\ pc' = "drain" /\ outcome' = outcome
        \/ kind' = "idle" /\ pc' = "end" /\ outcome' = "transient"
    BY <1>7 DEF BreaksOff, LayerFails, EndJob
  <2>4. at \notin done
    BY <2>1
  <2>5. \A l \in done \ {integration} : state'[l] = state[l]
    BY <2>1, <2>4
  <2>6. Finished'
    BY <2>2, <2>5
  <2>7. deploys # 0
    BY <2>1
  <2>8. OneMode' /\ Held' /\ Unseeded' /\ Below' /\ Green' /\ Fresh'
    BY <2>1, <2>2, <2>3, <2>7
  <2>9. Undecided' /\ NothingBlocks'
    BY <2>1, <2>3
  <2>. QED  BY <2>6, <2>8, <2>9
<1>. QED  BY <1>1, <1>2, <1>3, <1>4, <1>5, <1>6, <1>7

LEMMA InitKept == Init => Kept
BY DEF Init, Private

LEMMA StepKept == ~Switching /\ Kept /\ Shaped /\ [Next]_vars => Kept'
BY DeployKeeps, DestroyKeeps, UnwindKeeps, DispatchKeeps, OthersKeep DEF Next, JobStep

HIDE DEF Kept, Shaped, Inv, TypeOK

LEMMA AlwaysKept == ASSUME ~Switching PROVE Spec => []Kept
<1>. SUFFICES ASSUME ~Switching PROVE Spec => []Kept
  OBVIOUS
<1>1. Kept /\ Shaped /\ [Next]_vars => Kept'
  BY StepKept
<1>2. Inv /\ TypeOK => Shaped
  BY DEF Shaped
<1>. QED  BY <1>1, <1>2, InitKept, InvHolds, PathTypeCorrect, PTL DEF Spec

(* A stack kept in one mode never fails a deploy or a destroy for something    *)
(* that is missing or in the way: what fails is late, live or transient, or a  *)
(* destroy refused at a layer that is gone or has lost its outputs.            *)
THEOREM NothingEverBlocks == ASSUME ~Switching PROVE Spec => []NothingBlocks
<1>. SUFFICES ASSUME ~Switching PROVE Spec => []NothingBlocks
  OBVIOUS
<1>1. Kept => NothingBlocks
  BY DEF Kept
<1>. QED  BY <1>1, AlwaysKept, PTL

(* A green deploy of such a stack, from whichever layer it was started, left   *)
(* a catalog one can query.                                                    *)
THEOREM GreenDeploysWork == ASSUME ~Switching PROVE Spec => []GreenDeployWorks
<1>. SUFFICES ASSUME ~Switching PROVE Spec => []GreenDeployWorks
  OBVIOUS
<1>1. Kept /\ Inv /\ TypeOK => GreenDeployWorks
  <2>. SUFFICES ASSUME Kept, Inv, TypeOK, outcome = "deployed"
                PROVE  GreenDeployWorks
    BY DEF GreenDeployWorks
  <2>1. network \in done /\ storage \in done /\ integration \in done /\ data_platform \in done
    BY DEF Kept
  <2>. QED  BY <2>1 DEF Kept, Inv, TypeOK, GreenDeployWorks, Private, GatewayCarries, Reachable
<1>. QED  BY <1>1, AlwaysKept, InvHolds, PathTypeCorrect, PTL

(* A destroy that finds no gateway before a private database is a resumption:  *)
(* there is nothing for the unseed it skips to remove.                         *)
THEOREM SkippedIsEmpty == ASSUME ~Switching PROVE Spec => []SkippedMeansEmpty
<1>. SUFFICES ASSUME ~Switching PROVE Spec => []SkippedMeansEmpty
  OBVIOUS
<1>1. Kept /\ TypeOK => SkippedMeansEmpty
  BY DEF Kept, TypeOK, SkippedMeansEmpty
<1>. QED  BY <1>1, AlwaysKept, PathTypeCorrect, PTL

-----------------------------------------------------------------------------
(* Resource by resource, the path implements LayeredStack: nothing announced, *)
(* a step of any job puts up or takes down one resource, or none.             *)

HIDE DEF OneMode, Held, Unseeded, Finished, Below, Green, Fresh, NothingBlocks, TypeOK,
         DrainInv, Cut, Undecided, SettledRetryWins, CameDown, Bare, DestroyedIsGone,
         Stands, Gone, PathGone, HasMode

Path == [azure |-> Resources]

LEMMA ResourceGraph ==
    /\ DOMAIN Path = {"azure"} /\ Path["azure"] = Resources
    /\ DOMAIN Resources = {"hub", "server", "tunnel", "gateway", "service", "inband", "rule",
                           "catalog", "grants"}
    /\ Resources["catalog"].outputs = {"server"} /\ Resources["catalog"].after = {}
    /\ Resources["hub"].outputs = {} /\ Resources["hub"].after = {}
    /\ Resources["server"].outputs = {} /\ Resources["server"].after = {}
    /\ Resources["tunnel"].outputs = {"hub", "server"} /\ Resources["tunnel"].after = {}
    /\ Resources["gateway"].outputs = {"tunnel"} /\ Resources["gateway"].after = {}
    /\ Resources["service"].outputs = {"tunnel"} /\ Resources["service"].after = {}
    /\ Resources["inband"].outputs = {"service"} /\ Resources["inband"].after = {}
    /\ Resources["rule"].outputs = {"service", "gateway"} /\ Resources["rule"].after = {"inband"}
    /\ Resources["grants"].outputs = {"catalog"} /\ Resources["grants"].after = {}
BY DEF Path, Resources, On

LEMMA ExistsIs ==
    /\ Exists["hub"] = hub /\ Exists["server"] = (state[storage] # "absent")
    /\ Exists["catalog"] = (state[data_platform] # "absent") /\ Exists["tunnel"] = tunnel
    /\ Exists["gateway"] = (gateway # "none") /\ Exists["service"] = service
    /\ Exists["inband"] = inband /\ Exists["rule"] = rule /\ Exists["grants"] = grants
    /\ Exists["hub"]' = hub' /\ Exists["server"]' = (state'[storage] # "absent")
    /\ Exists["catalog"]' = (state'[data_platform] # "absent") /\ Exists["tunnel"]' = tunnel'
    /\ Exists["gateway"]' = (gateway' # "none") /\ Exists["service"]' = service'
    /\ Exists["inband"]' = inband' /\ Exists["rule"]' = rule' /\ Exists["grants"]' = grants'
BY DEF Exists

(* What each resource is built on. *)
LEMMA Grounds ==
    /\ hub /\ state[storage] = "applied" => Resources["tunnel"].outputs \subseteq StandingResources
    /\ tunnel => Resources["gateway"].outputs \subseteq StandingResources
    /\ tunnel => Resources["service"].outputs \subseteq StandingResources
    /\ service => Resources["inband"].outputs \subseteq StandingResources
    /\ service /\ gateway # "none" => Resources["rule"].outputs \subseteq StandingResources
    /\ state[storage] = "applied" => Resources["catalog"].outputs \subseteq StandingResources
    /\ state[data_platform] = "applied" => Resources["grants"].outputs \subseteq StandingResources
<1>1. /\ hub => "hub" \in StandingResources
      /\ state[storage] = "applied" => "server" \in StandingResources
      /\ state[data_platform] = "applied" => "catalog" \in StandingResources
      /\ tunnel => "tunnel" \in StandingResources
      /\ gateway # "none" => "gateway" \in StandingResources
      /\ service => "service" \in StandingResources
  BY ResourceGraph, ExistsIs DEF StandingResources
<1>. QED  BY <1>1, ResourceGraph

(* What stands on the tunnel. *)
LEMMA OnTheTunnel ==
    ASSUME ~service, gateway = "none", NEW q \in DOMAIN Resources, Exists[q]
    PROVE  "tunnel" \notin Resources[q].outputs \cup Resources[q].after
<1>1. q \in {"hub", "server", "tunnel", "inband", "rule", "catalog", "grants"}
  BY ResourceGraph, ExistsIs
<1>. QED  BY <1>1, ResourceGraph

(* Only r may have changed. *)
Only(r) == \A q \in DOMAIN Resources \ {r} : Exists[q]' <=> Exists[q]

LEMMA OneChange ==
    ASSUME NEW r \in DOMAIN Resources, Only(r)
    PROVE  /\ Exists[r]' => StandingResources' = StandingResources \cup {r}
           /\ ~Exists[r]' => StandingResources' = StandingResources \ {r}
BY DEF StandingResources, Only

(* Built on what stands, or already there. *)
LEMMA Raised ==
    ASSUME NEW r \in DOMAIN Resources, Only(r), Exists[r]',
           Resources[r].outputs \subseteq StandingResources
    PROVE  Layers!Next
<1>1. StandingResources' = StandingResources \cup {r}
  BY OneChange
<1>2. Layers!Build({r})
  BY <1>1, ResourceGraph DEF Layers!Build, Layers!Outputs, Path
<1>3. {r} \in SUBSET Layers!Unit
  BY ResourceGraph DEF Layers!Unit, Path
<1>. QED  BY <1>2, <1>3 DEF Layers!Next

(* Taken down from under nothing, or not there. *)
LEMMA Lowered ==
    ASSUME NEW r \in DOMAIN Resources, Only(r), ~Exists[r]',
           \A q \in DOMAIN Resources :
               Exists[q] => r \notin Resources[q].outputs \cup Resources[q].after
    PROVE  [Layers!Next]_(Layers!vars)
<1>1. StandingResources' = StandingResources \ {r}
  BY OneChange
<1>2. CASE r \in StandingResources
  <2>1. Layers!TakeDown(r)
    BY <1>1, <1>2, ResourceGraph
    DEF Layers!TakeDown, Layers!Needs, Layers!Outputs, StandingResources, Path
  <2>. QED  BY <1>2, <2>1 DEF Layers!Next
<1>3. CASE r \notin StandingResources
  BY <1>1, <1>3 DEF Layers!vars
<1>. QED  BY <1>2, <1>3

LEMMA Untouched ==
    ASSUME UNCHANGED <<hub, tunnel, service, inband, rule, grants>>,
           state'[storage] # "absent" <=> state[storage] # "absent",
           state'[data_platform] # "absent" <=> state[data_platform] # "absent", gateway' # "none" <=> gateway # "none"
    PROVE  [Layers!Next]_(Layers!vars)
<1>1. \A q \in DOMAIN Resources : Exists[q]' <=> Exists[q]
  BY ResourceGraph, ExistsIs
<1>2. StandingResources' = StandingResources
  BY <1>1 DEF StandingResources
<1>. QED  BY <1>2 DEF Layers!vars

(* One step puts up a resource, or nothing. *)
LEMMA DeployInOrder ==
    ASSUME Inv, DeployStep
    PROVE  [Layers!Next]_(Layers!vars)
<1>. USE ResourceGraph, ExistsIs DEF Only, StandingResources
<1>1. CASE ApplyNetwork
  <2>0. state'[storage] = state[storage] /\ state'[data_platform] = state[data_platform]
    BY <1>1 DEF ApplyNetwork, Inv, HasMode
  <2>9. UNCHANGED <<tunnel, gateway, service, inband, rule, grants>>
    BY <1>1, Zenon DEF ApplyNetwork, pathVars
  <2>1. Only("hub")
    BY <2>0, <2>9
  <2>5. hub' \/ PathGone \/ hub' = hub
    BY <1>1, Zenon DEF ApplyNetwork
  <2>2. CASE hub'
    BY <2>1, <2>2, Grounds, Raised
  <2>3. CASE ~hub' /\ PathGone
    BY <2>1, <2>3, Lowered DEF PathGone
  <2>4. CASE hub' = hub
    BY <1>1, <2>0, <2>4, Untouched DEF ApplyNetwork
  <2>. QED  BY <2>5, <2>2, <2>3, <2>4
<1>2. CASE BuildImage \/ ApplySchemas \/ GatewaySteady \/ IntegrationApplied \/ CreateSchemas
  BY <1>2, Untouched DEF BuildImage, ApplySchemas, GatewaySteady, IntegrationApplied, CreateSchemas
<1>3. CASE ApplyServer
  <2>1. state'[storage] = "applied" /\ state'[data_platform] = state[data_platform]
    BY <1>3 DEF ApplyServer, Inv, HasMode
  <2>9. UNCHANGED <<hub, tunnel, gateway, service, inband, rule, grants>>
    BY <1>3, Zenon DEF ApplyServer, pathVars
  <2>2. Only("server") /\ Exists["server"]'
    BY <2>1, <2>9
  <2>. QED  BY <2>2, Grounds, Raised
<1>4. CASE ApplyTunnel
  <2>1. CASE hub /\ HasOutputs(integration)
    <3>1. Only("tunnel") /\ Exists["tunnel"]'
      BY <1>4, <2>1 DEF ApplyTunnel
    <3>2. state[storage] = "applied"
      BY <2>1 DEF HasOutputs, Reads
    <3>. QED  BY <2>1, <3>1, <3>2, Grounds, Raised
  <2>2. CASE ~(hub /\ HasOutputs(integration))
    BY <1>4, <2>2, Untouched DEF ApplyTunnel
  <2>. QED  BY <2>1, <2>2
<1>5. CASE ApplyGateway
  <2>1. Only("gateway") /\ Exists["gateway"]'
    BY <1>5 DEF ApplyGateway
  <2>2. tunnel
    BY <1>5 DEF ApplyGateway, Inv, NothingDangles
  <2>. QED  BY <2>1, <2>2, Grounds, Raised
<1>6. CASE ApplyService
  <2>1. Only("service") /\ Exists["service"]'
    BY <1>6 DEF ApplyService
  <2>2. tunnel
    BY <1>6 DEF ApplyService, Inv, NothingDangles
  <2>. QED  BY <2>1, <2>2, Grounds, Raised
<1>7. CASE ApplyInband
  <2>1. Only("inband") /\ Exists["inband"]'
    BY <1>7 DEF ApplyInband
  <2>2. service
    BY <1>7 DEF ApplyInband, Inv, NothingDangles
  <2>. QED  BY <2>1, <2>2, Grounds, Raised
<1>8. CASE ApplyRule
  <2>1. Only("rule") /\ Exists["rule"]'
    BY <1>8 DEF ApplyRule
  <2>2. service /\ gateway # "none"
    BY <1>8 DEF ApplyRule, Inv, NothingDangles
  <2>. QED  BY <2>1, <2>2, Grounds, Raised
<1>9. CASE ApplyGrants
  <2>1. CASE grants'
    <3>1. Only("grants") /\ Exists["grants"]'
      BY <1>9, <2>1 DEF ApplyGrants
    <3>2. state[data_platform] = "applied"
      BY <1>9 DEF ApplyGrants
    <3>. QED  BY <3>1, <3>2, Grounds, Raised
  <2>2. CASE ~grants'
    BY <1>9, <2>2, Untouched DEF ApplyGrants
  <2>. QED  BY <2>1, <2>2
<1>10. CASE ApplyCatalog
  <2>1. CASE state[storage] = "applied"
    <3>1. state'[data_platform] = "applied" /\ state'[storage] = state[storage]
      BY <1>10, <2>1 DEF ApplyCatalog, Inv, HasMode
    <3>2. Only("catalog") /\ Exists["catalog"]'
      BY <1>10, <3>1 DEF ApplyCatalog
    <3>. QED  BY <2>1, <3>2, Grounds, Raised
  <2>2. CASE state[storage] # "applied"
    BY <1>10, <2>2, Untouched DEF ApplyCatalog
  <2>. QED  BY <2>1, <2>2
<1>. QED  BY <1>1, <1>2, <1>3, <1>4, <1>5, <1>6, <1>7, <1>8, <1>9, <1>10 DEF DeployStep

(* Breaking off puts up a resource on what stands, or leaves one standing. *)
LEMMA BreakInOrder ==
    ASSUME Inv, BreaksOff
    PROVE  [Layers!Next]_(Layers!vars)
<1>. USE ResourceGraph, ExistsIs DEF Only, StandingResources
<1>0. UNCHANGED <<hub, tunnel, gateway, service, inband, rule, grants>>
  BY DEF BreaksOff, dbVars, pathVars
<1>1. at # integration /\ state' = [state EXCEPT ![at] = "bare"]
  BY DEF BreaksOff
<1>2. CASE at = storage /\ state[storage] = "absent"
  <2>1. state'[storage] = "bare" /\ state'[data_platform] = state[data_platform]
    BY <1>1, <1>2 DEF Inv, HasMode
  <2>2. Only("server") /\ Exists["server"]'
    BY <1>0, <2>1
  <2>. QED  BY <2>2, Grounds, Raised
<1>3. CASE at = data_platform /\ state[data_platform] = "absent"
  <2>1. state'[data_platform] = "bare" /\ state'[storage] = state[storage]
    BY <1>1, <1>3 DEF Inv, HasMode
  <2>2. Only("catalog") /\ Exists["catalog"]'
    BY <1>0, <2>1
  <2>3. state[storage] = "applied"
    BY <1>3 DEF BreaksOff, Inv, CameDown, NothingDangles
  <2>. QED  BY <2>2, <2>3, Grounds, Raised
<1>4. CASE at \notin {storage, data_platform} \/ state[at] # "absent"
  <2>1. /\ state'[storage] # "absent" <=> state[storage] # "absent"
        /\ state'[data_platform] # "absent" <=> state[data_platform] # "absent"
    BY <1>1, <1>4 DEF Inv, HasMode
  <2>. QED  BY <1>0, <2>1, Untouched
<1>. QED  BY <1>2, <1>3, <1>4

(* A destroy takes down what nothing stands on. *)
LEMMA DestroyInOrder ==
    ASSUME Inv, DestroyStep
    PROVE  [Layers!Next]_(Layers!vars)
<1>. USE ResourceGraph, ExistsIs DEF Only, StandingResources
<1>1. CASE UnseedNothing \/ UnseedFromRunner \/ UnseedSkipped \/ UnseedThroughGateway \/ DestroySchemas \/ Refused \/ DrainRejects \/ DrainEnds
  BY <1>1, Untouched DEF UnseedNothing, UnseedFromRunner, UnseedSkipped, UnseedThroughGateway, DestroySchemas, Refused, DrainRejects, DrainEnds
<1>2. CASE DestroyGrants
  <2>1. Only("grants") /\ ~Exists["grants"]'
    BY <1>2 DEF DestroyGrants
  <2>. QED  BY <2>1, Lowered
<1>5. CASE DestroyCatalog
  <2>1. state'[data_platform] = "absent" /\ state'[storage] = state[storage]
    BY <1>5 DEF DestroyCatalog, Inv, HasMode
  <2>9. UNCHANGED <<hub, tunnel, gateway, service, inband, rule, grants>>
    BY <1>5, Zenon DEF DestroyCatalog, pathVars
  <2>2. Only("catalog") /\ ~Exists["catalog"]'
    BY <2>1, <2>9
  <2>3. ~grants
    BY <1>5 DEF DestroyCatalog
  <2>. QED  BY <2>2, <2>3, Lowered
<1>3. CASE DestroyServer
  <2>1. state'[storage] = "absent" /\ state'[data_platform] = state[data_platform]
    BY <1>3 DEF DestroyServer, Inv, HasMode
  <2>9. UNCHANGED <<hub, tunnel, gateway, service, inband, rule, grants>>
    BY <1>3, Zenon DEF DestroyServer, pathVars
  <2>2. Only("server") /\ ~Exists["server"]'
    BY <2>1, <2>9
  <2>3. PathGone /\ state[data_platform] = "absent"
    BY <1>3 DEF DestroyServer, In, Inv, CameDown, Stands
  <2>4. ~tunnel /\ ~Exists["catalog"]
    BY <2>3 DEF PathGone
  <2>5. \A q \in DOMAIN Resources : Exists[q] => "server" \notin Resources[q].outputs \cup Resources[q].after
    BY <2>4
  <2>. QED  BY <2>2, <2>5, Lowered
<1>4. CASE DestroyNetwork
  <2>1. CASE PathGone
    <3>0. state'[storage] = state[storage] /\ state'[data_platform] = state[data_platform]
      BY <1>4, <2>1 DEF DestroyNetwork, Inv, HasMode
    <3>1. Only("hub") /\ ~Exists["hub"]'
      BY <1>4, <2>1, <3>0 DEF DestroyNetwork
    <3>. QED  BY <2>1, <3>1, Lowered DEF PathGone
  <2>2. CASE ~PathGone
    BY <1>4, <2>2, Untouched DEF DestroyNetwork
  <2>. QED  BY <2>1, <2>2
<1>. QED  BY <1>1, <1>2, <1>3, <1>4, <1>5 DEF DestroyStep, Unseed, DestroyStorage

(* The path unwinds from the rule down. *)
LEMMA UnwindInOrder ==
    ASSUME Inv, UnwindStep
    PROVE  [Layers!Next]_(Layers!vars)
<1>. USE ResourceGraph, ExistsIs DEF Only, StandingResources
<1>1. CASE RemoveRule
  <2>1. Only("rule") /\ ~Exists["rule"]'
    BY <1>1 DEF RemoveRule
  <2>. QED  BY <2>1, Lowered
<1>2. CASE InbandDrain
  <2>1. Only("inband") /\ ~Exists["inband"]'
    BY <1>2 DEF InbandDrain
  <2>2. ~rule
    BY <1>2 DEF InbandDrain, Inv, NothingDangles
  <2>. QED  BY <2>1, <2>2, Lowered
<1>3. CASE RemoveGateway
  <2>1. Only("gateway") /\ ~Exists["gateway"]'
    BY <1>3 DEF RemoveGateway
  <2>2. ~rule
    BY <1>3 DEF RemoveGateway, Inv, NothingDangles
  <2>. QED  BY <2>1, <2>2, Lowered
<1>4. CASE RemoveService
  <2>1. CASE service' = service
    BY <1>4, <2>1, Untouched DEF RemoveService
  <2>2. CASE service' # service
    <3>0. UNCHANGED <<hub, state, tunnel, gateway, inband, rule, grants>> /\ ~service'
      BY <1>4, <2>2, Zenon DEF RemoveService
    <3>1. Only("service") /\ ~Exists["service"]'
      BY <3>0
    <3>2. ~rule /\ ~inband
      BY <1>4 DEF RemoveService
    <3>. QED  BY <3>1, <3>2, Lowered
  <2>. QED  BY <2>1, <2>2
<1>5. CASE RemoveTunnel
  <2>1. Only("tunnel") /\ ~Exists["tunnel"]'
    BY <1>5 DEF RemoveTunnel
  <2>2. gateway = "none" /\ ~service
    BY <1>5 DEF RemoveTunnel, Inv, NothingDangles
  <2>3. \A q \in DOMAIN Resources :
            Exists[q] => "tunnel" \notin Resources[q].outputs \cup Resources[q].after
    BY <2>2, OnTheTunnel
  <2>. QED  BY <2>1, <2>3, Lowered
<1>6. CASE PathRemoved
  BY <1>6, Untouched DEF PathRemoved
<1>. QED  BY <1>1, <1>2, <1>3, <1>4, <1>5, <1>6 DEF UnwindStep

(* Over any switching of modes, any failures and either module, the path's    *)
(* resources keep the order LayeredStack promises of the units of a stack.    *)
THEOREM PathImplementsLayeredStack == Spec => ResourcesInOrder
<1>1. Init => Layers!Init
  <2>. SUFFICES ASSUME Init
                PROVE  Layers!Init
    OBVIOUS
  <2>0. /\ ~hub /\ ~tunnel /\ gateway = "none" /\ ~service /\ ~inband /\ ~rule /\ ~grants
        /\ state[storage] = "absent" /\ state[data_platform] = "absent"
    BY DEF Init
  <2>1. \A q \in DOMAIN Resources : ~Exists[q]
    BY <2>0, ResourceGraph, ExistsIs
  <2>2. "azure" \in DOMAIN Path /\ StandingResources = {}
    BY <2>1, ResourceGraph DEF StandingResources
  <2>. QED  BY <2>2 DEF Layers!Init, Path
<1>2. Inv /\ [Next]_vars => [Layers!Next]_(Layers!vars)
  <2>. SUFFICES ASSUME Inv, [Next]_vars
                PROVE  [Layers!Next]_(Layers!vars)
    OBVIOUS
  <2>1. CASE JobStep
    BY <2>1, DeployInOrder, DestroyInOrder, UnwindInOrder DEF JobStep
  <2>2. CASE \/ \E m \in Modes, s \in Layer : DispatchDeploy(m, s)
             \/ \E s \in Layer : DispatchDestroy(s)
             \/ Transient \/ Seed \/ EndpointUp \/ Reconnect \/ RejectionLands
             \/ UNCHANGED vars
    <3>1. UNCHANGED <<hub, state, tunnel, gateway, service, inband, rule, grants>>
      BY <2>2, Zenon DEF DispatchDeploy, DispatchDestroy, Transient, Seed, EndpointUp, Reconnect,
         RejectionLands, vars, stackVars, dbVars, pathVars
    <3>. QED  BY <3>1, Untouched
  <2>3. CASE BreaksOff
    BY <2>3, BreakInOrder
  <2>. QED  BY <2>1, <2>2, <2>3 DEF Next
<1>. QED  BY <1>1, <1>2, InvHolds, PTL DEF Spec, ResourcesInOrder, Layers!Spec
=============================================================================
