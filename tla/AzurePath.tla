------------------------------ MODULE AzurePath -----------------------------
(***************************************************************************)
(* The private path to Azure SQL, through deploys, seeds and destroys.     *)
(*                                                                         *)
(* In private mode Databricks reaches the database by an NCC rule, a       *)
(* PrivateLink endpoint service, a gateway on ECS and a VPN; in public mode*)
(* over the internet.  Terraform builds what it can, the workflows run the *)
(* rest in between: the gateway's image after network, the schemas after   *)
(* integration, the unseed before a destroy, the drain inside one.  Two    *)
(* parties outside change state by themselves: Databricks keeps an endpoint*)
(* connected as long as the rule stands and does not hang up when it goes, *)
(* and AWS takes its time over a rejection.                                *)
(*                                                                         *)
(* Only the layers that carry this state are here: network, storage,       *)
(* integration and data_platform.  Of their units' outputs the model keeps *)
(* whether a layer's readers find them, for a destroy is refused where they*)
(* do not.  The units one by one, and the state locks, are RunAll's.  One  *)
(* job runs at a time.                                                     *)
(***************************************************************************)
EXTENDS Naturals

CONSTANTS
    Modes,      \* the connectivity deploys ask for: a subset of {"public", "private"}
    Switching,  \* FALSE: a stack is only ever deployed in the mode of its first deploy
    InBand,     \* whether the applied module carries drain_endpoint_connections
    MaxDeploys  \* bound: how many deploys are dispatched

ASSUME PathAssumption ==
    /\ Modes \subseteq {"public", "private"}
    /\ Switching \in BOOLEAN
    /\ InBand \subseteq BOOLEAN /\ InBand # {}
    /\ MaxDeploys \in Nat

(* The layers, in the order of the deploy loop. *)
network == 1
storage == 2
integration == 3
data_platform == 4
Layer == network..data_platform

VARIABLES
    hub,        \* BOOLEAN: the AWS VPC of aws_network, its ECR repository in it
    image,      \* BOOLEAN: the gateway image is in the repository
    db,         \* "none", "public" or "private": the SQL server and its network access
    schemas,    \* BOOLEAN: the source schemas exist in the database
    owned,      \* BOOLEAN: mssql_schemas has them in its Terraform state
    rows,       \* BOOLEAN: the schemas hold seeded tables
    tunnel,     \* BOOLEAN: the SQL server's private endpoint and the VPN into its network
    gateway,    \* "none", "starting" or "steady": the ECS service (ACTIVE unless "none")
    service,    \* BOOLEAN: the endpoint service
    inband,     \* BOOLEAN: drain_endpoint_connections is in the Terraform state
    rule,       \* BOOLEAN: the NCC rule
    conn,       \* Databricks' endpoint connection into the service
    grants,     \* BOOLEAN: the federated grants are applied
    state,      \* what is in the Terraform state of the units whose outputs others read:
                \* network, mssql, and under the grants dbx_creds, the connector and governance
    done,       \* the layers deployed, with the step that follows them
    kind,       \* "idle", "deploy" or "destroy"
    mode,       \* the connectivity of the current or last deploy
    at,         \* the layer the job is in
    pc,         \* where it is in that layer
    retried,    \* BOOLEAN: the destroy has drained and is running the layer again
    settled,    \* BOOLEAN: it saw no connection left then, and the rule was gone
    start_from, \* the layer the current or last deploy was started from
    outcome,    \* how the last job ended
    deploys     \* deploys dispatched so far

dbVars == <<db, schemas, owned, rows>>
pathVars == <<tunnel, gateway, service, inband, rule, conn>>
stackVars == <<hub, image, dbVars, pathVars, grants, state>>
jobVars == <<done, kind, mode, at, pc, retried, settled, start_from, outcome, deploys>>
vars == <<stackVars, jobVars>>

Connection == {"none", "pending", "available", "rejecting", "rejected"}
Outcomes == {"none", "deployed", "destroyed", "transient", "blocked", "live", "refused"}

(* "bare": something of it stands, its outputs are not all there. *)
Condition == {"absent", "bare", "applied"}

-----------------------------------------------------------------------------
(* State functions *)

Private == mode = "private"

(* A connection AWS lists as `available`: it is, until a rejection has landed. *)
Live == conn \in {"available", "rejecting"}

(* What ends at the gateway can be carried over the VPN to the database. *)
GatewayCarries == gateway = "steady" /\ image /\ tunnel /\ db # "none"

(* The database as Databricks serverless finds it, by its public name. *)
Reachable ==
    IF rule THEN conn = "available" /\ GatewayCarries ELSE db = "public"

PathGone == ~rule /\ ~inband /\ ~service /\ gateway = "none" /\ ~tunnel

Stands(l) == IF l = integration THEN ~PathGone ELSE state[l] # "absent"

Gone == \A l \in Layer : ~Stands(l)

(* The layers whose outputs a layer's units read, their own one among them; no *)
(* `dependency` block has mock_outputs for when they are not there.            *)
Reads(l) ==
    CASE l = network -> {}
      [] l = storage -> {storage}
      [] l = integration -> {network, storage}
      [] l = data_platform -> {storage, data_platform}

HasOutputs(l) == \A r \in Reads(l) : state[r] = "applied"

In(k, l, p) == kind = k /\ at = l /\ pc = p

-----------------------------------------------------------------------------
Init ==
    /\ hub = FALSE /\ image = FALSE
    /\ db = "none" /\ schemas = FALSE /\ owned = FALSE /\ rows = FALSE
    /\ tunnel = FALSE /\ gateway = "none" /\ service = FALSE /\ inband = FALSE /\ rule = FALSE
    /\ conn = "none"
    /\ grants = FALSE
    /\ state = [l \in Layer \ {integration} |-> "absent"]
    /\ done = {}
    /\ kind = "idle" /\ mode = "public" /\ at = network /\ pc = "end"
    /\ retried = FALSE /\ settled = FALSE /\ start_from = network
    /\ outcome = "none"
    /\ deploys = 0

-----------------------------------------------------------------------------
(* Jobs *)

(* start_from: the layers below it "must already be applied". *)
DispatchDeploy(m, s) ==
    /\ kind = "idle"
    /\ deploys < MaxDeploys
    /\ Switching \/ deploys = 0 \/ m = mode
    /\ network..(s - 1) \subseteq done
    /\ kind' = "deploy"
    /\ mode' = m
    /\ at' = s
    /\ pc' = "apply"
    /\ done' = network..(s - 1)
    /\ start_from' = s
    /\ deploys' = deploys + 1
    /\ retried' = FALSE
    /\ settled' = FALSE
    /\ outcome' = "none"
    /\ UNCHANGED stackVars

(* A destroy starts at the highest layer that stands, or above it. *)
DispatchDestroy(s) ==
    /\ kind = "idle"
    /\ \A l \in (s + 1)..data_platform : ~Stands(l)
    /\ kind' = "destroy"
    /\ at' = s
    /\ pc' = "unseed"
    /\ done' = {}
    /\ retried' = FALSE
    /\ settled' = FALSE
    /\ outcome' = "none"
    /\ UNCHANGED <<stackVars, mode, start_from, deploys>>

EndJob(o) ==
    /\ kind' = "idle"
    /\ pc' = "end"
    /\ outcome' = o
    /\ UNCHANGED <<done, mode, at, retried, settled, start_from, deploys>>

GoTo(p) ==
    /\ pc' = p
    /\ UNCHANGED <<done, kind, mode, at, retried, settled, start_from, outcome, deploys>>

(* Mistake: the deploy loop has one layer too many. *)
NextLayerOverrun ==
    /\ at' = at + 1
    /\ pc' = "apply"
    /\ done' = done \cup {at}
    /\ UNCHANGED <<kind, mode, retried, settled, start_from, outcome, deploys>>

NextLayer ==
    \/ /\ kind = "deploy" /\ at < data_platform
       /\ at' = at + 1
       /\ pc' = "apply"
       /\ done' = done \cup {at}
       /\ UNCHANGED <<kind, mode, retried, settled, start_from, outcome, deploys>>
    \/ /\ kind = "deploy" /\ at = data_platform
       /\ done' = done \cup {at}
       /\ kind' = "idle"
       /\ pc' = "end"
       /\ outcome' = "deployed"
       /\ UNCHANGED <<mode, at, retried, settled, start_from, deploys>>
    \/ /\ kind = "destroy" /\ at > network
       /\ at' = at - 1
       /\ retried' = FALSE
       /\ settled' = FALSE
       /\ pc' = "destroy"
       /\ UNCHANGED <<done, kind, mode, start_from, outcome, deploys>>
    \/ kind = "destroy" /\ at = network /\ EndJob("destroyed")

(* Mistake: the loop without set -e. *)
LayerFailsQuietly(o) == NextLayer

(* A run-all that failed: a deploy ends, a destroy drains once and runs it again. *)
LayerFails(o) ==
    IF kind = "destroy" /\ ~retried
    THEN pc' = "drain" /\ UNCHANGED <<done, kind, mode, at, retried, settled, start_from, outcome, deploys>>
    ELSE EndJob(o)

(* Anything a cloud's API may refuse once and accept the next time. *)
Transient ==
    /\ pc \in {"apply", "step", "unseed", "destroy", "drain"}
    /\ IF pc \in {"apply", "destroy"} THEN LayerFails("transient") ELSE EndJob("transient")
    /\ UNCHANGED stackVars

(* Terraform breaks off in a unit others read: on the way up nothing of it has *)
(* been there, on the way down what reads it is gone and its outputs go first. *)
BreaksOff ==
    /\ at # integration
    /\ \/ /\ kind = "deploy" /\ pc = "apply" /\ state[at] = "absent"
          /\ at = data_platform => state[storage] = "applied"
       \/ /\ kind = "destroy" /\ pc = "destroy" /\ state[at] = "applied"
          /\ at = storage => ~owned
          /\ at = data_platform => ~grants
    /\ state' = [state EXCEPT ![at] = "bare"]
    /\ LayerFails("transient")
    /\ UNCHANGED <<hub, image, dbVars, pathVars, grants>>

-----------------------------------------------------------------------------
(* Deploy: network, and the image step *)

(* Public mode empties aws_network's for_each: the VPC goes, if nothing is in it. *)
ApplyNetwork ==
    /\ In("deploy", network, "apply")
    /\ UNCHANGED <<dbVars, pathVars, grants>>
    /\ \/ /\ Private \/ PathGone
          /\ hub' = Private
          /\ image' = (Private /\ image)
          /\ state' = [state EXCEPT ![network] = "applied"]
          /\ IF Private THEN GoTo("step") ELSE NextLayer
       \/ /\ ~Private /\ ~PathGone
          /\ image' = FALSE
          /\ UNCHANGED <<hub, state>>
          /\ LayerFails("blocked")

(* Mistake: the image is built and not pushed. *)
BuildImageUnpushed ==
    /\ In("deploy", network, "step")
    /\ NextLayer
    /\ UNCHANGED stackVars

BuildImage ==
    /\ In("deploy", network, "step")
    /\ image' = TRUE
    /\ NextLayer
    /\ UNCHANGED <<hub, dbVars, pathVars, grants, state>>

-----------------------------------------------------------------------------
(* Deploy: storage *)

(* mssql: the server, or its public_network_access_enabled changed in place. *)
ApplyServer ==
    /\ In("deploy", storage, "apply")
    /\ db # mode \/ state[storage] # "applied"
    /\ db' = mode
    /\ state' = [state EXCEPT ![storage] = "applied"]
    /\ UNCHANGED <<hub, image, schemas, owned, rows, pathVars, grants, jobVars>>

(* mssql_schemas: in public mode Terraform creates them over TDS, in private   *)
(* mode its list is empty.  It cannot create a schema that is already there    *)
(* and not its own, nor drop one it owns on a server the runner cannot reach.  *)
ApplySchemas ==
    /\ In("deploy", storage, "apply")
    /\ db = mode /\ state[storage] = "applied"
    /\ UNCHANGED <<hub, image, db, rows, pathVars, grants, state>>
    /\ \/ /\ ~Private /\ (schemas => owned)
          /\ schemas' = TRUE /\ owned' = TRUE
          /\ NextLayer
       \/ /\ Private /\ ~owned
          /\ UNCHANGED <<schemas, owned>>
          /\ NextLayer
       \/ /\ IF Private THEN owned ELSE schemas /\ ~owned
          /\ UNCHANGED <<schemas, owned>>
          /\ LayerFails("blocked")

-----------------------------------------------------------------------------
(* Deploy: integration, and the schema step *)

Applying == In("deploy", integration, "apply") /\ Private

(* private_endpoint and aws_az_vpn_conn. *)
ApplyTunnel ==
    /\ Applying
    /\ ~tunnel
    /\ UNCHANGED <<hub, image, dbVars, gateway, service, inband, rule, conn, grants, state>>
    /\ IF hub /\ HasOutputs(integration)
       THEN tunnel' = TRUE /\ UNCHANGED jobVars
       ELSE UNCHANGED tunnel /\ LayerFails("blocked")

(* ECS accepts the service, which is ACTIVE from here on. *)
ApplyGateway ==
    /\ Applying
    /\ tunnel /\ gateway = "none"
    /\ gateway' = "starting"
    /\ UNCHANGED <<hub, image, dbVars, tunnel, service, inband, rule, conn, grants, state, jobVars>>

(* wait_for_steady_state: the container has to be pulled and stay up. *)
GatewaySteady ==
    /\ Applying
    /\ gateway = "starting"
    /\ UNCHANGED <<hub, image, dbVars, tunnel, service, inband, rule, conn, grants, state>>
    /\ IF image
       THEN gateway' = "steady" /\ UNCHANGED jobVars
       ELSE UNCHANGED gateway /\ LayerFails("blocked")

(* The endpoint service waits for the load balancer, not for the container. *)
ApplyService ==
    /\ Applying
    /\ gateway # "none" /\ ~service
    /\ service' = TRUE
    /\ UNCHANGED <<hub, image, dbVars, tunnel, gateway, inband, rule, conn, grants, state, jobVars>>

(* drain_endpoint_connections does nothing when it is created. *)
ApplyInband ==
    /\ Applying
    /\ TRUE \in InBand
    /\ service /\ ~inband
    /\ inband' = TRUE
    /\ UNCHANGED <<hub, image, dbVars, tunnel, gateway, service, rule, conn, grants, state, jobVars>>

(* depends_on gateway_ready: the rule comes after the whole sql_gateway module. *)
ApplyRule ==
    /\ Applying
    /\ gateway = "steady" /\ service /\ inband \in InBand /\ ~rule
    /\ rule' = TRUE
    /\ conn' = IF conn = "available" THEN conn ELSE "pending"
    /\ UNCHANGED <<hub, image, dbVars, tunnel, gateway, service, inband, grants, state, jobVars>>

IntegrationApplied ==
    /\ Applying
    /\ rule /\ inband \in InBand
    /\ GoTo("step")
    /\ UNCHANGED stackVars

(* The one-shot task: IF SCHEMA_ID(...) IS NULL CREATE SCHEMA, from inside the VPC. *)
CreateSchemas ==
    /\ In("deploy", integration, "step")
    /\ UNCHANGED <<hub, image, db, owned, rows, pathVars, grants, state>>
    /\ IF GatewayCarries
       THEN schemas' = TRUE /\ NextLayer
       ELSE UNCHANGED schemas /\ EndJob("blocked")

-----------------------------------------------------------------------------
(* Deploy: data_platform *)

(* dbx_creds and dbx_mssql_connector, then dbx_governance with the catalogs. *)
ApplyCatalog ==
    /\ In("deploy", data_platform, "apply")
    /\ state[data_platform] # "applied"
    /\ UNCHANGED <<hub, image, dbVars, pathVars, grants>>
    /\ IF state[storage] = "applied"
       THEN state' = [state EXCEPT ![data_platform] = "applied"] /\ UNCHANGED jobVars
       ELSE UNCHANGED state /\ LayerFails("blocked")

(* The grants unit warms the foreign catalog until it shows the schemas, when *)
(* it is created and not when it is applied again.  An endpoint that is not   *)
(* there after the 180 s is late as long as the rule stands: Databricks brings*)
(* it up, and up again after a rejection.                                     *)
ApplyGrants ==
    /\ In("deploy", data_platform, "apply")
    /\ state[data_platform] = "applied"
    /\ UNCHANGED <<hub, image, dbVars, pathVars, state>>
    /\ \/ /\ grants \/ (Reachable /\ schemas)
          /\ grants' = TRUE
          /\ NextLayer
       \/ /\ ~grants /\ ~(Reachable /\ schemas)
          /\ UNCHANGED grants
          /\ LayerFails(IF rule /\ GatewayCarries /\ schemas THEN "transient" ELSE "blocked")

-----------------------------------------------------------------------------
(* The seed of dbx-pipeline.yml, between jobs *)

Seed ==
    /\ kind = "idle"
    /\ schemas /\ ~rows
    /\ IF db = "private" THEN GatewayCarries ELSE db = "public"
    /\ rows' = TRUE
    /\ UNCHANGED <<hub, image, db, schemas, owned, pathVars, grants, state, jobVars>>

-----------------------------------------------------------------------------
(* Destroy: the unseed that precedes Terraform *)

Unseeding == kind = "destroy" /\ pc = "unseed"

(* No server, or no key vault: nothing to unseed. *)
UnseedNothing ==
    /\ Unseeding
    /\ db = "none"
    /\ GoTo("destroy")
    /\ UNCHANGED stackVars

UnseedFromRunner ==
    /\ Unseeding
    /\ db = "public"
    /\ rows' = FALSE
    /\ GoTo("destroy")
    /\ UNCHANGED <<hub, image, db, schemas, owned, pathVars, grants, state>>

(* "the sql-gateway is already destroyed - this destroy is a resumption". *)
UnseedSkipped ==
    /\ Unseeding
    /\ db = "private" /\ gateway = "none"
    /\ GoTo("destroy")
    /\ UNCHANGED stackVars

(* Mistake: the discovery query of the unseed finds no table. *)
UnseedThroughGatewayKeepsRows ==
    /\ Unseeding
    /\ db = "private" /\ gateway # "none"
    /\ GoTo("destroy")
    /\ UNCHANGED stackVars

UnseedThroughGateway ==
    /\ Unseeding
    /\ db = "private" /\ gateway # "none"
    /\ UNCHANGED <<hub, image, db, schemas, owned, pathVars, grants, state>>
    /\ IF image
       THEN rows' = FALSE /\ GoTo("destroy")
       ELSE UNCHANGED rows /\ EndJob("blocked")

-----------------------------------------------------------------------------
(* Destroy: data_platform *)

DestroyGrants ==
    /\ In("destroy", data_platform, "destroy")
    /\ HasOutputs(data_platform)
    /\ grants
    /\ grants' = FALSE
    /\ UNCHANGED <<hub, image, dbVars, pathVars, state, jobVars>>

DestroyCatalog ==
    /\ In("destroy", data_platform, "destroy")
    /\ HasOutputs(data_platform)
    /\ ~grants
    /\ state' = [state EXCEPT ![data_platform] = "absent"]
    /\ NextLayer
    /\ UNCHANGED <<hub, image, dbVars, pathVars, grants>>

-----------------------------------------------------------------------------
(* The private path coming down: a destroy of integration, or a public deploy *)
(* over a private stack, whose for_each has become empty                      *)

Unwinding ==
    \/ In("destroy", integration, "destroy") /\ HasOutputs(integration)
    \/ In("deploy", integration, "apply") /\ ~Private

(* Databricks drops the rule at once and leaves its endpoint connected. *)
RemoveRule ==
    /\ Unwinding
    /\ rule
    /\ rule' = FALSE
    /\ UNCHANGED <<hub, image, dbVars, tunnel, gateway, service, inband, conn, grants, state, jobVars>>

(* Mistake: the rule does not wait for the module the drain is in. *)
InbandDrainBeforeRule ==
    /\ Unwinding
    /\ inband
    /\ inband' = FALSE
    /\ conn' = IF conn = "available" THEN "rejecting" ELSE conn
    /\ UNCHANGED <<hub, image, dbVars, tunnel, gateway, service, rule, grants, state, jobVars>>

(* The destroy provisioner of drain_endpoint_connections. *)
InbandDrain ==
    /\ Unwinding
    /\ ~rule /\ inband
    /\ inband' = FALSE
    /\ conn' = IF conn = "available" THEN "rejecting" ELSE conn
    /\ UNCHANGED <<hub, image, dbVars, tunnel, gateway, service, rule, grants, state, jobVars>>

RemoveGateway ==
    /\ Unwinding
    /\ ~rule /\ gateway # "none"
    /\ gateway' = "none"
    /\ UNCHANGED <<hub, image, dbVars, tunnel, service, inband, rule, conn, grants, state, jobVars>>

(* Mistake: the rule does not consume the gateway module's output. *)
RemoveServiceFirst ==
    /\ Unwinding
    /\ ~inband /\ service /\ ~Live
    /\ service' = FALSE /\ conn' = "none"
    /\ UNCHANGED <<hub, image, dbVars, tunnel, gateway, inband, rule, grants, state, jobVars>>

(* AWS will not delete a service that has a live connection, and may or may *)
(* not delete one whose connection is still being built.                    *)
RemoveService ==
    /\ Unwinding
    /\ ~rule /\ ~inband /\ service
    /\ UNCHANGED <<hub, image, dbVars, tunnel, gateway, inband, rule, grants, state>>
    /\ \/ /\ Live \/ conn = "pending"
          /\ UNCHANGED <<service, conn>>
          /\ LayerFails("live")
       \/ /\ ~Live
          /\ service' = FALSE /\ conn' = "none"
          /\ UNCHANGED jobVars

(* The gateway module depends_on the tunnel: all of it goes first. *)
RemoveTunnel ==
    /\ Unwinding
    /\ gateway = "none" /\ ~service /\ ~inband /\ tunnel
    /\ tunnel' = FALSE
    /\ UNCHANGED <<hub, image, dbVars, gateway, service, inband, rule, conn, grants, state, jobVars>>

PathRemoved ==
    /\ Unwinding
    /\ PathGone
    /\ NextLayer
    /\ UNCHANGED stackVars

-----------------------------------------------------------------------------
(* drain-endpoint-service.sh, between the two attempts *)


(* Reject what is attached, which a connection still being built is not yet. *)
DrainRejects ==
    /\ kind = "destroy" /\ pc = "drain"
    /\ conn' = IF service /\ conn = "available" THEN "rejecting" ELSE conn
    /\ GoTo("poll")
    /\ UNCHANGED <<hub, image, dbVars, tunnel, gateway, service, inband, rule, grants, state>>

(* Mistake: "clear" as soon as the rejection was accepted. *)
DrainEndsUnpolled ==
    /\ kind = "destroy" /\ pc = "poll"
    /\ settled' = ~rule
    /\ retried' = TRUE
    /\ pc' = "destroy"
    /\ UNCHANGED <<stackVars, done, kind, mode, at, start_from, outcome, deploys>>

(* The poll sees no live connection, or 60 s pass and the layer is retried anyway. *)
DrainEnds ==
    /\ kind = "destroy" /\ pc = "poll"
    /\ settled' = (conn \in {"none", "rejected"} /\ ~rule)
    /\ retried' = TRUE
    /\ pc' = "destroy"
    /\ UNCHANGED <<stackVars, done, kind, mode, at, start_from, outcome, deploys>>

-----------------------------------------------------------------------------
(* Destroy: storage and network *)

(* mssql_schemas first.  DROP SCHEMA needs a connection and an empty schema. *)
DestroySchemas ==
    /\ In("destroy", storage, "destroy")
    /\ HasOutputs(storage)
    /\ owned
    /\ UNCHANGED <<hub, image, db, rows, pathVars, grants, state>>
    /\ IF db = "public" /\ ~rows
       THEN schemas' = FALSE /\ owned' = FALSE /\ UNCHANGED jobVars
       ELSE UNCHANGED <<schemas, owned>> /\ LayerFails("blocked")

(* mssql takes whatever is in the database with it. *)
DestroyServer ==
    /\ In("destroy", storage, "destroy")
    /\ HasOutputs(storage)
    /\ ~owned
    /\ db' = "none" /\ schemas' = FALSE /\ rows' = FALSE
    /\ state' = [state EXCEPT ![storage] = "absent"]
    /\ NextLayer
    /\ UNCHANGED <<hub, image, owned, pathVars, grants>>

DestroyNetwork ==
    /\ In("destroy", network, "destroy")
    /\ UNCHANGED <<dbVars, pathVars, grants>>
    /\ image' = FALSE
    /\ IF PathGone
       THEN hub' = FALSE /\ state' = [state EXCEPT ![network] = "absent"] /\ NextLayer
       ELSE UNCHANGED <<hub, state>> /\ LayerFails("blocked")

(* A unit of the layer reads outputs that are not there, and fails before      *)
(* Terraform runs.  The units of network read foundation's, which may be gone  *)
(* with network and not before.                                                *)
Refused ==
    /\ kind = "destroy" /\ pc = "destroy"
    /\ ~HasOutputs(at) \/ (at = network /\ state[network] = "absent")
    /\ LayerFails("refused")
    /\ UNCHANGED stackVars

-----------------------------------------------------------------------------
(* Databricks and AWS *)

(* The endpoint comes up whether or not the rule still stands. *)
EndpointUp ==
    /\ conn = "pending"
    /\ conn' = "available"
    /\ UNCHANGED <<hub, image, dbVars, tunnel, gateway, service, inband, rule, grants, state, jobVars>>

(* As long as the rule stands Databricks brings it up again. *)
Reconnect ==
    /\ rule /\ conn = "rejected"
    /\ conn' = "pending"
    /\ UNCHANGED <<hub, image, dbVars, tunnel, gateway, service, inband, rule, grants, state, jobVars>>

RejectionLands ==
    /\ conn = "rejecting"
    /\ conn' = "rejected"
    /\ UNCHANGED <<hub, image, dbVars, tunnel, gateway, service, inband, rule, grants, state, jobVars>>

-----------------------------------------------------------------------------
DeployStep ==
    \/ ApplyNetwork \/ BuildImage
    \/ ApplyServer \/ ApplySchemas
    \/ ApplyTunnel \/ ApplyGateway \/ GatewaySteady \/ ApplyService \/ ApplyInband \/ ApplyRule
    \/ IntegrationApplied \/ CreateSchemas
    \/ ApplyCatalog \/ ApplyGrants

Unseed == UnseedNothing \/ UnseedFromRunner \/ UnseedSkipped \/ UnseedThroughGateway

DestroyStorage == DestroySchemas \/ DestroyServer

DestroyStep ==
    \/ Unseed
    \/ DestroyGrants \/ DestroyCatalog \/ DestroyStorage \/ DestroyNetwork
    \/ Refused
    \/ DrainRejects \/ DrainEnds

UnwindStep == RemoveRule \/ InbandDrain \/ RemoveGateway \/ RemoveService \/ RemoveTunnel \/ PathRemoved

JobStep == DeployStep \/ DestroyStep \/ UnwindStep

Next ==
    \/ \E m \in Modes, s \in Layer : DispatchDeploy(m, s)
    \/ \E s \in Layer : DispatchDestroy(s)
    \/ JobStep
    \/ Transient \/ BreaksOff
    \/ Seed
    \/ EndpointUp
    \/ Reconnect
    \/ RejectionLands

Spec == Init /\ [][Next]_vars

(* The destroy taken up again with start_from at the highest layer that stands. *)
Resume == \E s \in Layer : Stands(s) /\ DispatchDestroy(s)

(* A job under way goes on, AWS gets done what it began, and somebody who wants *)
(* the stack gone resumes the destroy until one gets through.  What is         *)
(* transient is: no step of a destroy fails that way every time it is run.     *)
FairSpec ==
    /\ Spec
    /\ WF_vars(JobStep)
    /\ WF_vars(RejectionLands)
    /\ WF_vars(EndpointUp)
    /\ SF_vars(Resume)
    /\ SF_vars(Stands(at) /\ Unseed)
    /\ SF_vars(DestroyGrants)
    /\ SF_vars(DestroyCatalog)
    /\ SF_vars(UnwindStep)
    /\ SF_vars(DrainRejects)
    /\ SF_vars(DestroyStorage)
    /\ SF_vars(DestroyNetwork)

-----------------------------------------------------------------------------
(* Properties *)

TypeOK ==
    /\ hub \in BOOLEAN /\ image \in BOOLEAN
    /\ schemas \in BOOLEAN /\ owned \in BOOLEAN /\ rows \in BOOLEAN
    /\ tunnel \in BOOLEAN /\ service \in BOOLEAN /\ inband \in BOOLEAN
    /\ rule \in BOOLEAN /\ grants \in BOOLEAN
    /\ state \in [Layer \ {integration} -> Condition]
    /\ retried \in BOOLEAN /\ settled \in BOOLEAN
    /\ db \in {"none", "public", "private"}
    /\ gateway \in {"none", "starting", "steady"}
    /\ conn \in Connection
    /\ done \subseteq Layer
    /\ kind \in {"idle", "deploy", "destroy"}
    /\ mode \in {"public", "private"}
    /\ at \in Layer
    /\ pc \in {"apply", "step", "unseed", "destroy", "drain", "poll", "end"}
    /\ start_from \in Layer
    /\ outcome \in Outcomes
    /\ deploys \in 0..MaxDeploys

(* A stack kept in one mode can be deployed, seeded, destroyed, and all of    *)
(* that again from whatever a failed job left behind: no job ever fails for   *)
(* something in its way.  What it fails for goes away when it is run again,   *)
(* with one exception: a destroy is refused at a layer that is gone already,  *)
(* where start_from should have been lower, or that an earlier failure left   *)
(* without the outputs its other units read.                                  *)
NothingBlocks ==
    /\ outcome # "blocked"
    /\ outcome = "refused" /\ Stands(at) => at # integration /\ state[at] = "bare"

(* A green deploy is a catalog one can query: the grants are applied, the     *)
(* schemas are there, and the path this mode asks for carries.  Databricks'   *)
(* end of it may still have to come back: a drain of an earlier destroy may   *)
(* have rejected it, and the warming is not repeated.                         *)
GreenDeployWorks ==
    outcome = "deployed" =>
        /\ grants /\ schemas
        /\ db = mode
        /\ IF Private THEN rule /\ GatewayCarries /\ conn # "none" ELSE PathGone /\ Reachable

(* A green destroy leaves nothing: not a service, not a rule, not a database. *)
GreenDestroyLeavesNothing == outcome = "destroyed" => Gone /\ conn = "none" /\ ~rows

(* Between the two, in any half-applied or half-destroyed state, nothing of   *)
(* the path outlives what it stands on.                                       *)
NothingDangles ==
    /\ tunnel => hub /\ state[network] = "applied" /\ state[storage] = "applied"
    /\ hub => state[network] # "absent"
    /\ db # "none" => state[storage] # "absent"
    /\ state[storage] = "applied" => db # "none"
    /\ gateway # "none" \/ service => tunnel
    /\ rule => service /\ gateway = "steady"
    /\ inband => service
    /\ conn # "none" => service
    /\ state[data_platform] # "absent" => state[storage] = "applied"
    /\ grants => schemas /\ state[data_platform] = "applied"

(* "is clear - the service can be deleted now" (drain-endpoint-service.sh:73) *)
(* is true when the rule was gone by then: the retry is not refused again.    *)
SettledRetryWins == outcome = "live" => ~settled

(* "the unseed already ran, in the attempt that got far enough to destroy the *)
(* gateway" (dbx-destroy.yml:208-209): a destroy that finds a private server  *)
(* and no gateway skips the unseed, and finds no seeded rows if it looked.    *)
SkippedMeansEmpty ==
    kind = "destroy" /\ pc = "unseed" /\ db = "private" /\ gateway = "none" => ~rows

(* What each resource is declared on, by a reference or a depends_on; the     *)
(* rule waits for the whole gateway module, the in-band drain included.       *)
On(outputs, after) == [outputs |-> outputs, after |-> after]

Resources ==
    [hub |-> On({}, {}), server |-> On({}, {}), tunnel |-> On({"hub", "server"}, {}),
     catalog |-> On({"server"}, {}),
     gateway |-> On({"tunnel"}, {}), service |-> On({"tunnel"}, {}),
     inband |-> On({"service"}, {}), rule |-> On({"service", "gateway"}, {"inband"}),
     grants |-> On({"catalog"}, {})]

Exists ==
    [hub |-> hub, server |-> state[storage] # "absent", tunnel |-> tunnel,
     catalog |-> state[data_platform] # "absent", gateway |-> gateway # "none", service |-> service, inband |-> inband, rule |-> rule, grants |-> grants]

StandingResources == {r \in DOMAIN Resources : Exists[r]}

(* Resource by resource the path keeps what the workflows promise of a stack, *)
(* layer by layer and step by step: built on what stands, taken down from the *)
(* top, by a deploy in the other mode as by a destroy, and nothing announced. *)
(* So Databricks is cut off only when no rule can bring it back.              *)
Layers == INSTANCE LayeredStack
          WITH Stack <- [azure |-> Resources], cloud <- "azure",
               standing <- StandingResources, left <- {}
ResourcesInOrder == Layers!Spec

(* A destroy broke off in the units whose outputs the rest of the layer reads. *)
HalfDown == \E l \in {storage, data_platform} : state[l] = "bare"


-----------------------------------------------------------------------------
(* What a comment of the workflow says, and a run refutes *)

(* "Terraform is idempotent, so a full run is always correct"                 *)
(* (dbx-deploy.yml:28-29), whichever mode the stack was deployed in before.   *)
FullRunIsCorrect ==
    [][kind = "deploy" /\ start_from = network => outcome' # "blocked"]_vars
=============================================================================
