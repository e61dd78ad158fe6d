--------------------------- MODULE ArtifactsProofs ---------------------------
(***************************************************************************)
(* Theorems about Artifacts, for any configurations an author may make, any*)
(* number of edits and days: whatever the working tree goes through, the   *)
(* account keeps what the cross-backend check compared, what CI passes     *)
(* loses nothing in it and is current to the end of the chain, one pass of *)
(* the make targets settles every document, and the copilot is loaded      *)
(* whole.  The first lemmas are about the merge of Backends.               *)
(***************************************************************************)
EXTENDS Artifacts, GenieScriptProofs, GovernanceProofs

(* Every fragment is granted somewhere. *)
LEMMA KindsNonEmpty ==
    ASSUME NEW g, NEW p
    PROVE  Kinds(g, p) # {}
  BY DEF Kinds

(* The fragments of a principal on an object the unit covers are the raw    *)
(* instances of its role there: main.tf renders what the script does.       *)
LEMMA SameFragments ==
    ASSUME RolesApart,
           NEW grants, grants \subseteq Grant,
           NEW o \in Covered, NEW who \in Principal,
           NEW P
    PROVE  (\E f \in Rendered(grants) :
                f.object = o /\ f.principal = who /\ f.privileges = P)
           <=> \E i \in Instances(grants) :
                /\ i.grant.object = o /\ RoleOf[i.grant.principal] = RoleOf[who]
                /\ Fragment(i.grant, i.source).privileges = P
<1>1. ASSUME NEW f \in Rendered(grants),
             f.object = o, f.principal = who, f.privileges = P
      PROVE  \E i \in Instances(grants) :
                /\ i.grant.object = o /\ RoleOf[i.grant.principal] = RoleOf[who]
                /\ Fragment(i.grant, i.source).privileges = P
  <2>0. PICK g \in grants : \E p \in Mapped(g) :
            f = [object |-> g.object, principal |-> g.principal,
                 privileges |-> Fragment(g, p).privileges]
    BY DEF Rendered
  <2>1. PICK p \in Mapped(g) :
            f = [object |-> g.object, principal |-> g.principal,
                 privileges |-> Fragment(g, p).privileges]
    BY <2>0
  <2>2. PICK k \in Kinds(g, p) : TRUE
    BY KindsNonEmpty
  <2>3. g \in {h \in grants : h.object \in Covered}
    BY <1>1, <2>1
  <2> DEFINE i == [grant |-> g, source |-> p, kind |-> k]
  <2>4. i \in Instances(grants)
    BY <2>1, <2>2, <2>3 DEF Instances
  <2>5. i.grant = g /\ i.source = p
    OBVIOUS
  <2>6. g.object = o /\ g.principal = who /\ Fragment(g, p).privileges = P
    BY <1>1, <2>1
  <2> QED
    BY <2>4, <2>5, <2>6
<1>2. ASSUME NEW i \in Instances(grants),
             i.grant.object = o, RoleOf[i.grant.principal] = RoleOf[who],
             Fragment(i.grant, i.source).privileges = P
      PROVE  \E f \in Rendered(grants) :
                f.object = o /\ f.principal = who /\ f.privileges = P
  <2>0. PICK g \in grants : \E p \in Mapped(g) : \E k \in Kinds(g, p) :
            i = [grant |-> g, source |-> p, kind |-> k]
    BY DEF Instances
  <2>1. PICK p \in Mapped(g) : \E k \in Kinds(g, p) :
            i = [grant |-> g, source |-> p, kind |-> k]
    BY <2>0
  <2>2. i.grant = g /\ i.source = p
    BY <2>1
  <2>3. g.principal \in Principal
    BY DEF Grant
  <2>4. g.object = o /\ g.principal = who /\ Fragment(g, p).privileges = P
    BY <1>2, <2>2, <2>3 DEF RolesApart
  <2> DEFINE f == [object |-> g.object, principal |-> g.principal,
                   privileges |-> Fragment(g, p).privileges]
  <2>5. f \in Rendered(grants)
    BY <2>1 DEF Rendered
  <2> QED
    BY <2>4, <2>5
<1> QED
  BY <1>1, <1>2

(* What a merged grant confers, its fragments confer, and nothing else. *)
LEMMA AccountByInstance ==
    ASSUME NEW grants, NEW o, NEW who, NEW c
    PROVE  c \in account_access(grants, o, who)
           <=> \E i \in Instances(grants) :
                /\ i.grant.object = o /\ RoleOf[i.grant.principal] = RoleOf[who]
                /\ c \in Conferred(TypeOf[o], Fragment(i.grant, i.source).privileges)
<1>1. ASSUME c \in account_access(grants, o, who)
      PROVE  \E i \in Instances(grants) :
                /\ i.grant.object = o /\ RoleOf[i.grant.principal] = RoleOf[who]
                /\ c \in Conferred(TypeOf[o], Fragment(i.grant, i.source).privileges)
  <2>1. PICK target \in Targets(grants) :
            /\ target.object = o /\ target.role = RoleOf[who]
            /\ c \in Conferred(TypeOf[o], merged_privileges(grants, target))
    BY <1>1 DEF account_access
  <2>2. PICK p \in merged_privileges(grants, target) : c \in snowflake_capability(TypeOf[o], p)
    BY <2>1 DEF Conferred
  <2>3. PICK i \in Instances(grants) :
            Target(i) = target /\ p \in Fragment(i.grant, i.source).privileges
    BY <2>2 DEF merged_privileges
  <2>4. i.grant.object = o /\ RoleOf[i.grant.principal] = RoleOf[who]
    BY <2>1, <2>3 DEF Target
  <2> QED
    BY <2>2, <2>3, <2>4 DEF Conferred
<1>2. ASSUME NEW i \in Instances(grants),
             i.grant.object = o, RoleOf[i.grant.principal] = RoleOf[who],
             c \in Conferred(TypeOf[o], Fragment(i.grant, i.source).privileges)
      PROVE  c \in account_access(grants, o, who)
  <2>1. PICK p \in Fragment(i.grant, i.source).privileges : c \in snowflake_capability(TypeOf[o], p)
    BY <1>2 DEF Conferred
  <2>2. p \in merged_privileges(grants, Target(i))
    BY <2>1 DEF merged_privileges
  <2>3. c \in Conferred(TypeOf[o], merged_privileges(grants, Target(i)))
    BY <2>1, <2>2 DEF Conferred
  <2>4. Target(i) \in Targets(grants) /\ Target(i).object = o /\ Target(i).role = RoleOf[who]
    BY <1>2 DEF Targets, Target
  <2> QED
    BY <2>3, <2>4 DEF account_access
<1> QED
  BY <1>1, <1>2

(* For every set of grants the account gives each principal, on each object *)
(* the unit covers, exactly the access the cross-backend check compared:    *)
(* merging the fragments of main.tf changes nothing.                        *)
THEOREM MergeKeepsEveryAccess ==
    ASSUME NEW grants \in SUBSET Grant
    PROVE  AccountMatchesProof(grants)
<1> SUFFICES ASSUME RolesApart, NEW o \in Covered, NEW who \in Principal, NEW c
             PROVE  c \in account_access(grants, o, who)
                    <=> c \in effective_access_snowflake(grants, o, who)
  BY DEF AccountMatchesProof, account_access, effective_access_snowflake
<1>1. c \in effective_access_snowflake(grants, o, who)
      <=> \E f \in Rendered(grants) : /\ f.object = o /\ f.principal = who
                                      /\ c \in Conferred(TypeOf[o], f.privileges)
  BY DEF effective_access_snowflake
<1>2. ASSUME c \in effective_access_snowflake(grants, o, who)
      PROVE  c \in account_access(grants, o, who)
  <2>1. PICK f \in Rendered(grants) : /\ f.object = o /\ f.principal = who
                                      /\ c \in Conferred(TypeOf[o], f.privileges)
    BY <1>1, <1>2
  <2>2. PICK i \in Instances(grants) :
            /\ i.grant.object = o /\ RoleOf[i.grant.principal] = RoleOf[who]
            /\ Fragment(i.grant, i.source).privileges = f.privileges
    BY <2>1, SameFragments
  <2> QED
    BY <2>1, <2>2, AccountByInstance
<1>3. ASSUME c \in account_access(grants, o, who)
      PROVE  c \in effective_access_snowflake(grants, o, who)
  <2>1. PICK i \in Instances(grants) :
            /\ i.grant.object = o /\ RoleOf[i.grant.principal] = RoleOf[who]
            /\ c \in Conferred(TypeOf[o], Fragment(i.grant, i.source).privileges)
    BY <1>3, AccountByInstance
  <2>2. PICK f \in Rendered(grants) :
            /\ f.object = o /\ f.principal = who
            /\ f.privileges = Fragment(i.grant, i.source).privileges
    BY <2>1, SameFragments
  <2> QED
    BY <1>1, <2>1, <2>2
<1> QED
  BY <1>2, <1>3

(* The offered grants in every combination, whichever they are. *)
LEMMA OfferedKeepAccessHolds == OfferedKeepAccess
  BY MergeKeepsEveryAccess, OfferedGrantsAssumption DEF OfferedKeepAccess

(* What passes the cross-backend check loses nothing in the account either: *)
(* all a principal may do on Databricks with an object of the one domain    *)
(* the Snowflake unit reads, federated catalogs apart, it may do there.     *)
THEOREM NothingLostInTheAccount ==
    ASSUME NEW grants \in SUBSET Grant, Lost(grants) = {}, RolesApart,
           NEW o \in Covered, NEW who \in Principal
    PROVE  effective_access_uc(grants, o, who) \subseteq account_access(grants, o, who)
<1>1. <<o, who>> \in Object \X Principal /\ <<o, who>> \notin Lost(grants)
  BY InUnitAssumption DEF Covered
<1>2. effective_access_uc(grants, o, who) \subseteq effective_access_snowflake(grants, o, who)
  BY <1>1 DEF Lost
<1>3. account_access(grants, o, who) = effective_access_snowflake(grants, o, who)
  BY MergeKeepsEveryAccess DEF AccountMatchesProof
<1> QED
  BY <1>2, <1>3

-----------------------------------------------------------------------------

Documents ==
    {"tree", "cost", "pack", "report", "sql", "metrics", "costmd", "profile", "dashboard",
     "lint"}

(* What a pass of the make targets writes, document by document.              *)
LEMMA WhatAPassWrites ==
    ASSUME NEW w, DOMAIN w = Documents, NEW r, NEW day
    PROVE  LET made == MakeAll(w, r, day)
               profile == Profile(w.tree, Generated(w.tree, FullRows, r))
           IN  /\ made = [d \in Documents |-> made[d]]
               /\ made.tree = w.tree /\ made.cost = w.cost /\ made.lint = w.lint
               /\ made.pack = Pack(w.tree, day) /\ made.report = Report(Pack(w.tree, day))
               /\ made.sql = GenieSql(Pack(w.tree, day))
               /\ made.metrics = Metrics(w.tree, day)
               /\ made.costmd = Estimate(w.cost)
               /\ made.profile = profile
               /\ made.dashboard = Dashboard(Metrics(w.tree, day), Pack(w.tree, day), profile, w.cost)
<1>. DEFINE profile == Profile(w.tree, Generated(w.tree, FullRows, r))
            w1 == Reported(w, day)
            w2 == Grounded(w1)
            w3 == Measured(w2, day)
            w4 == Costed(w3)
            w5 == Profiled(w4, Generated(w.tree, FullRows, r))
            w6 == Drawn(w5)
<1>1. /\ DOMAIN w1 = Documents /\ w1.tree = w.tree /\ w1.cost = w.cost /\ w1.lint = w.lint
      /\ w1.pack = Pack(w.tree, day) /\ w1.report = Report(Pack(w.tree, day))
  BY DEF Reported, Documents
<1>2. /\ DOMAIN w2 = Documents /\ w2.tree = w.tree /\ w2.cost = w.cost /\ w2.lint = w.lint
      /\ w2.pack = w1.pack /\ w2.report = w1.report /\ w2.sql = GenieSql(Pack(w.tree, day))
  <2>. HIDE DEF w1
  <2>. QED  BY <1>1 DEF Grounded, Documents
<1>3. /\ DOMAIN w3 = Documents /\ w3.tree = w.tree /\ w3.cost = w.cost /\ w3.lint = w.lint
      /\ w3.pack = w2.pack /\ w3.report = w2.report /\ w3.sql = w2.sql
      /\ w3.metrics = Metrics(w.tree, day)
  <2>. HIDE DEF w2
  <2>. QED  BY <1>2 DEF Measured, Documents
<1>4. /\ DOMAIN w4 = Documents /\ w4.tree = w.tree /\ w4.cost = w.cost /\ w4.lint = w.lint
      /\ w4.pack = w3.pack /\ w4.report = w3.report /\ w4.sql = w3.sql
      /\ w4.metrics = w3.metrics /\ w4.costmd = Estimate(w.cost)
  <2>. HIDE DEF w3
  <2>. QED  BY <1>3 DEF Costed, Documents
<1>5. /\ DOMAIN w5 = Documents /\ w5.tree = w.tree /\ w5.cost = w.cost /\ w5.lint = w.lint
      /\ w5.pack = w4.pack /\ w5.report = w4.report /\ w5.sql = w4.sql
      /\ w5.metrics = w4.metrics /\ w5.costmd = w4.costmd /\ w5.profile = profile
  <2>. HIDE DEF w4
  <2>. QED  BY <1>4 DEF Profiled, Documents
<1>6. /\ w6 = [d \in Documents |-> w6[d]]
      /\ w6.tree = w.tree /\ w6.cost = w.cost /\ w6.lint = w.lint
      /\ w6.pack = w5.pack /\ w6.report = w5.report /\ w6.sql = w5.sql
      /\ w6.metrics = w5.metrics /\ w6.costmd = w5.costmd /\ w6.profile = profile
      /\ w6.dashboard = Dashboard(w5.metrics, w5.pack, profile, w.cost)
  <2>. HIDE DEF w5, profile
  <2>. QED  BY <1>5 DEF Drawn, Documents
<1>7. MakeAll(w, r, day) = w6
  BY DEF MakeAll, GovernanceReport
<1>. HIDE DEF w1, w2, w3, w4, w5, w6
<1>. QED  BY <1>1, <1>2, <1>3, <1>4, <1>5, <1>6, <1>7

(* The scripts write documents and never the configuration. *)
WorkInv == DOMAIN work = Documents /\ work.tree \in Tree

LEMMA InitWork == Init => WorkInv
<1>. SUFFICES ASSUME Init PROVE WorkInv
  OBVIOUS
<1>1. DOMAIN Blank = Documents /\ Blank.tree = FirstTree
  BY DEF Blank, Documents
<1>2. /\ DOMAIN MakeAll(Blank, NoRaw, 0) = Documents
      /\ MakeAll(Blank, NoRaw, 0).tree = FirstTree
  <2>1. DOMAIN [d \in Documents |-> MakeAll(Blank, NoRaw, 0)[d]] = Documents
    OBVIOUS
  <2>. QED  BY <1>1, <2>1, WhatAPassWrites
<1>. QED  BY <1>2, ArtifactsAssumption DEF Init, WorkInv

LEMMA NextWork == WorkInv /\ [Next]_vars => WorkInv'
<1>. SUFFICES ASSUME WorkInv, [Next]_vars
              PROVE  WorkInv'
  OBVIOUS
<1>1. CASE Edit
  BY <1>1, ArtifactsAssumption DEF Edit, WorkInv, Documents
<1>2. CASE WriteReport
  BY <1>2 DEF WriteReport, Writes, Reported, WorkInv, Documents
<1>3. CASE WriteGenie \/ WriteMetrics \/ WriteCost \/ WriteDashboard
  BY <1>3 DEF WriteGenie, WriteMetrics, WriteCost, WriteDashboard, Writes, Grounded, Measured,
     Costed, Drawn, WorkInv, Documents
<1>4. CASE WriteProfile
  BY <1>4 DEF WriteProfile, Profiled, WorkInv, Documents
<1>5. CASE \/ GenerateData \/ RunTests \/ DayPasses
           \/ Dispatch \/ Statement \/ Space \/ Contract \/ DeployKilled
           \/ UNCHANGED vars
  BY <1>5 DEF GenerateData, RunTests, DayPasses, Dispatch, Statement, Space, Contract,
     DeployKilled, docVars, vars, WorkInv
<1>6. CASE CheckOut
  <2>1. PICK t \in OfferedTrees : work' = MakeAll([work EXCEPT !.tree = t], NoRaw, today)
    BY <1>6 DEF CheckOut
  <2>2. PICK w : w = [work EXCEPT !.tree = t]
    OBVIOUS
  <2>3. DOMAIN w = Documents /\ w.tree = t
    BY <2>2 DEF WorkInv, Documents
  <2>4. work' = MakeAll(w, NoRaw, today)
    BY <2>1, <2>2
  <2>5. work' = [d \in Documents |-> work'[d]] /\ work'.tree = t
    BY <2>3, <2>4, WhatAPassWrites
  <2>6. DOMAIN work' = Documents
    BY <2>5
  <2>. QED  BY <2>5, <2>6, ArtifactsAssumption DEF WorkInv
<1>. QED  BY <1>1, <1>2, <1>3, <1>4, <1>5, <1>6 DEF Next

LEMMA AlwaysWork == Spec => []WorkInv
BY InitWork, NextWork, PTL DEF Spec

-----------------------------------------------------------------------------
(* Every configuration an author may come to, in every combination of the     *)
(* offered grants besides: the merged grants let a principal do in the        *)
(* account exactly what the check looked at.                                  *)
THEOREM MergeAlwaysKeepsAccess == Spec => []MergeKeepsAccess
<1>1. WorkInv => MergeKeepsAccess
  <2>. SUFFICES ASSUME WorkInv PROVE MergeKeepsAccess
    OBVIOUS
  <2>1. work.tree.grants \in SUBSET Grant
    BY DEF WorkInv, Tree
  <2>. QED  BY <2>1, MergeKeepsEveryAccess, OfferedKeepAccessHolds DEF MergeKeepsAccess
<1>. QED  BY <1>1, AlwaysWork, PTL

(* What CI passes on Databricks its principals have in the Snowflake account, *)
(* on every object of the domain the Snowflake unit reads, for every privilege*)
(* map, naming of roles and history of the working tree.                      *)
THEOREM GreenAlwaysLosesNothing == Spec => []GreenLosesNothing
<1>1. WorkInv => GreenLosesNothing
  <2>. SUFFICES ASSUME WorkInv, CiGreen(work, today), RolesApart,
                       NEW o \in Covered, NEW who \in Principal
                PROVE  effective_access_uc(work.tree.grants, o, who)
                           \subseteq account_access(work.tree.grants, o, who)
    BY Zenon DEF GreenLosesNothing
  <2>1. work.tree.grants \in SUBSET Grant
    BY DEF WorkInv, Tree
  <2>2. Lost(work.tree.grants) = {}
    BY DEF CiGreen, PolicyHolds
  <2>. QED  BY <2>1, <2>2, NothingLostInTheAccount
<1>. QED  BY <1>1, AlwaysWork, PTL

-----------------------------------------------------------------------------
(* What the Genie deploy has loaded so far: the tables before the one it is at *)
(* while it is at the tables, all of them afterwards.                          *)
Loaded(n) == \A i \in DOMAIN Tables : i < n => live[i] = <<deploy.sql[i]>>

LoadInv ==
    /\ DOMAIN live = DOMAIN Tables
    /\ spaces \in {0, 1}
    /\ deploy # Idle =>
        /\ DOMAIN deploy = {"phase", "at", "replaced", "sql"}
        /\ deploy.phase \in {"tables", "space", "contract"}
        /\ deploy.at \in 1..Len(Tables)
        /\ deploy.replaced \in BOOLEAN
        /\ Loaded(IF deploy.phase = "tables" THEN deploy.at ELSE Len(Tables) + 1)
        /\ deploy.phase = "contract" => spaces = 1

LEMMA TablesFact ==
    /\ Len(Tables) \in Nat \ {0}
    /\ DOMAIN Tables = 1..Len(Tables)
BY ArtifactsAssumption

(* A statement that succeeds loads the table it is at before the job moves on. *)
LEMMA StatementLoads ==
    ASSUME LoadInv, deploy.phase = "tables", Runs, deploy' = Advanced, UNCHANGED spaces
    PROVE  LoadInv'
<1>. DEFINE n == deploy.at
<1>1. /\ deploy # Idle /\ n \in 1..Len(Tables) /\ n \in DOMAIN live
      /\ DOMAIN live' = DOMAIN Tables
      /\ \A i \in DOMAIN Tables : i # n => live'[i] = live[i]
  BY TablesFact DEF LoadInv, Runs, Idle
<1>2. live'[n] = <<IF deploy.replaced THEN deploy.sql[n] ELSE {}>>
  BY <1>1 DEF Runs
<1>3. CASE ~deploy.replaced /\ deploy.sql[n] # {}
  <2>1. deploy' = [deploy EXCEPT !.replaced = TRUE]
    BY <1>3 DEF Advanced
  <2>2. deploy'.phase = "tables" /\ deploy'.at = n /\ deploy'.sql = deploy.sql
        /\ deploy'.replaced = TRUE /\ DOMAIN deploy' = DOMAIN deploy /\ deploy' # Idle
    BY <1>1, <2>1 DEF LoadInv, Idle
  <2>3. \A i \in DOMAIN Tables : i < n => live'[i] = <<deploy.sql[i]>>
    BY <1>1, TablesFact DEF LoadInv, Loaded
  <2>. QED  BY <1>1, <2>2, <2>3 DEF LoadInv, Loaded
<1>4. CASE deploy.replaced \/ deploy.sql[n] = {}
  <2>1. live'[n] = <<deploy.sql[n]>>
    BY <1>2, <1>4
  <2>2. \A i \in DOMAIN Tables : i < n + 1 => live'[i] = <<deploy.sql[i]>>
    BY <1>1, <2>1, TablesFact DEF LoadInv, Loaded
  <2>3. CASE n < Len(Tables)
    <3>1. deploy' = [deploy EXCEPT !.replaced = FALSE, !.at = n + 1]
      BY <1>4, <2>3 DEF Advanced
    <3>2. deploy'.phase = "tables" /\ deploy'.at = n + 1 /\ deploy'.sql = deploy.sql
          /\ deploy'.replaced = FALSE /\ DOMAIN deploy' = DOMAIN deploy /\ deploy' # Idle
      BY <1>1, <3>1 DEF LoadInv, Idle
    <3>3. \A i \in DOMAIN Tables : i < deploy'.at => live'[i] = <<deploy'.sql[i]>>
      BY <2>2, <3>2
    <3>4. n + 1 \in 1..Len(Tables) /\ spaces' \in {0, 1}
      BY <1>1, <2>3, TablesFact DEF LoadInv
    <3>. QED  BY <1>1, <3>2, <3>3, <3>4 DEF LoadInv, Loaded
  <2>4. CASE ~(n < Len(Tables))
    <3>1. deploy' = [deploy EXCEPT !.phase = "space"]
      BY <1>4, <2>4 DEF Advanced
    <3>2. deploy'.phase = "space" /\ deploy'.at = n /\ deploy'.sql = deploy.sql
          /\ deploy'.replaced = deploy.replaced /\ DOMAIN deploy' = DOMAIN deploy /\ deploy' # Idle
      BY <1>1, <3>1 DEF LoadInv, Idle
    <3>3. n = Len(Tables)
      BY <1>1, <2>4, TablesFact
    <3>4. Loaded(Len(Tables) + 1)'
      BY <2>2, <3>2, <3>3 DEF Loaded
    <3>. QED  BY <1>1, <3>2, <3>4 DEF LoadInv
  <2>. QED  BY <2>3, <2>4
<1>. QED  BY <1>1, <1>3, <1>4 DEF LoadInv

LEMMA NextLoad == LoadInv /\ [Next]_vars => LoadInv'
<1>. SUFFICES ASSUME LoadInv, [Next]_vars
              PROVE  LoadInv'
  OBVIOUS
<1>1. CASE UNCHANGED genieVars
  BY <1>1 DEF genieVars, LoadInv, Loaded
<1>2. CASE Dispatch
  <2>1. /\ deploy' # Idle /\ DOMAIN deploy' = {"phase", "at", "replaced", "sql"}
        /\ deploy'.phase = "tables" /\ deploy'.at = 1 /\ deploy'.replaced = FALSE
        /\ UNCHANGED <<live, spaces>>
    BY <1>2 DEF Dispatch, Idle
  <2>2. Loaded(1)'
    BY TablesFact DEF Loaded
  <2>3. DOMAIN live' = DOMAIN Tables /\ spaces' \in {0, 1} /\ 1 \in 1..Len(Tables)
    BY <2>1, TablesFact DEF LoadInv
  <2>. QED  BY <2>1, <2>2, <2>3 DEF LoadInv, Loaded
<1>3. CASE Statement
  <2>1. DOMAIN live' = DOMAIN live /\ UNCHANGED spaces
    BY <1>3 DEF Statement, Runs
  <2>2. CASE deploy' = Idle
    BY <2>1, <2>2 DEF LoadInv
  <2>3. CASE Runs /\ deploy' = Advanced
    BY <1>3, <2>1, <2>3, StatementLoads DEF Statement
  <2>. QED  BY <1>3, <2>2, <2>3 DEF Statement
<1>4. CASE Space
  <2>1. CASE deploy' = Idle
    BY <1>4, <2>1 DEF Space, LoadInv
  <2>2. CASE deploy' = [deploy EXCEPT !.phase = "contract"] /\ spaces' = 1
    <3>1. deploy # Idle /\ deploy.phase = "space"
      BY <1>4 DEF Space, Idle
    <3>2. deploy'.phase = "contract" /\ deploy'.at = deploy.at /\ deploy'.sql = deploy.sql
          /\ deploy'.replaced = deploy.replaced /\ DOMAIN deploy' = DOMAIN deploy
      BY <2>2, <3>1 DEF LoadInv
    <3>. QED  BY <1>4, <2>2, <3>1, <3>2 DEF Space, LoadInv, Loaded
  <2>. QED  BY <1>4, <2>1, <2>2 DEF Space, LoadInv
<1>5. CASE Contract \/ DeployKilled
  BY <1>5 DEF Contract, DeployKilled, LoadInv
<1>6. CASE ~(Dispatch \/ Statement \/ Space \/ Contract \/ DeployKilled)
  BY <1>1, <1>6 DEF Next, vars, Edit, CheckOut, DayPasses, WriteReport, WriteGenie,
     WriteMetrics, WriteCost, WriteDashboard, Writes, GenerateData, WriteProfile, RunTests, genieVars
<1>. QED  BY <1>2, <1>3, <1>4, <1>5, <1>6

(* However many deploys failed or were killed before it, and whatever is      *)
(* written in the working tree meanwhile: a deploy that reaches the space has *)
(* loaded every table from the SQL of its own checkout, and one that reaches  *)
(* the contract has one space.                                                *)
THEOREM CopilotAlwaysGrounded == Spec => []CopilotGrounded
<1>1. Init => LoadInv
  BY DEF Init, LoadInv
<1>2. LoadInv => CopilotGrounded
  BY TablesFact DEF LoadInv, Loaded, CopilotGrounded
<1>. QED  BY <1>1, <1>2, NextLoad, PTL DEF Spec

-----------------------------------------------------------------------------
(* What the Rego policy denies its mirror denies: a row the mirror takes for  *)
(* the owner's is one to Rego too.                                            *)
LEMMA MirrorIsStricter ==
    ASSUME NEW pack, rego_denials(pack) = {}
    PROVE  Deny(pack) = {}
<1>. SUFFICES ASSUME NEW f \in Deny(pack)
              PROVE  f \in rego_denials(pack)
  OBVIOUS
<1>1. f \in [rule : HighRules, object : Object, principal : Principal]
  BY DEF Deny
<1>2. PICK a \in pack.access :
          /\ f.object = a.object /\ f.principal = a.principal
          /\ rego_violates(f.rule, a) /\ ~rego_accepted(pack, f.rule, a)
  BY DEF Deny
<1>3. ASSUME f.rule = "SENSITIVE_ALL_PRIVILEGES", a.principal = OwnerOf(a.object)
      PROVE  FALSE
  <2>. DEFINE named == {i \in DOMAIN Catalogs : Catalogs[i].name = CatalogOf[a.object]}
              last == CHOOSE k \in named : \A j \in named : j <= k
  <2>1. a.principal \in Principal /\ a.principal # Nobody
    BY <1>1, <1>2, PrincipalAssumption
  <2>2. named # {} /\ Catalogs[last].owner = a.principal
    BY <1>3, <2>1 DEF OwnerOf
  <2>3. last \in named
    <3>1. Len(Catalogs) \in Nat /\ named \in SUBSET (1..Len(Catalogs))
      BY CatalogAssumption
    <3>. HIDE DEF named
    <3>2. \E k \in named : \A j \in named : j <= k
      BY <2>2, <3>1, LastDeclaration
    <3>. QED  BY <3>2
  <2>4. rego_is_owner(a)
    <3>. HIDE DEF last
    <3>. QED  BY <2>1, <2>2, <2>3 DEF rego_is_owner
  <2>. QED  BY <1>2, <1>3, <2>4 DEF rego_violates
<1>4. mirror_violates(f.rule, a)
  BY <1>2, <1>3 DEF mirror_violates, rego_violates
<1>. QED  BY <1>1, <1>2, <1>4 DEF rego_denials

(* A silver table for every raw file. *)
LEMMA SilverSchemas ==
    ASSUME NEW r
    PROVE  {table.schema : table \in Silver(r)} = Present(r)
<1>. DEFINE row(o) == [schema |-> o, rows |-> r[o].rows, personal |-> r[o].personal]
<1>1. Silver(r) = {row(o) : o \in Present(r)}
  BY DEF Silver
<1>2. \A o \in Present(r) : row(o).schema = o
  OBVIOUS
<1>. HIDE DEF row
<1>. QED  BY <1>1, <1>2

(* A clean checkout has the raw files of the declared schemas; a working tree *)
(* that has run the tests has the same ones, and orphans besides.  Orphans    *)
(* without personal columns and of no use to gold make no difference to the   *)
(* tests, and personal ones fail them as drift.                               *)
LEMMA TestsAlsoPassInCi ==
    ASSUME NEW w, NEW r, TestsPass(w, r),
           \A g \in DOMAIN GoldFrom : GoldFrom[g] \cap Present(r) \subseteq Declared(w.tree)
    PROVE  TestsPass(w, EnsureRaw(w.tree, NoRaw))
<1>. DEFINE t == w.tree
            c == Generated(t, TestRows, EnsureRaw(t, NoRaw))
            l == Generated(t, TestRows, r)
            pc == Profile(t, c)
            pl == Profile(t, l)
            class(o) == IF o \in Declared(t) THEN t.class[o] ELSE "none"
            personal(p) == {s.table.schema : s \in {x \in p.schemas : x.table.personal}}
<1>1. EnsureRaw(t, NoRaw) = Generated(t, FullRows, NoRaw)
  BY DEF EnsureRaw, Present, NoRaw
<1>2. \A o \in Object : o \notin Declared(t) => c[o] = Missing
  BY <1>1 DEF Generated, NoRaw
<1>3. \A o \in Object : o \in Declared(t) => c[o] = l[o] /\ l[o] # Missing
  BY DEF Generated, Dataset, Missing, TestRows
<1>4. Present(c) = Declared(t) /\ Present(c) \subseteq Present(l)
  BY <1>2, <1>3 DEF Present, Declared
<1>5. \A o \in Present(c) : c[o] = l[o]
  BY <1>2, <1>3 DEF Present
<1>6. \A o \in Present(l) \ Present(c) : o \in Present(r) /\ o \notin Declared(t)
  BY <1>4 DEF Present, Generated
<1>7. Silver(c) \subseteq Silver(l)
  BY <1>4, <1>5 DEF Silver
<1>8. /\ pc.schemas = {[table |-> s, declared |-> class(s.schema)] : s \in Silver(c)}
      /\ pl.schemas = {[table |-> s, declared |-> class(s.schema)] : s \in Silver(l)}
      /\ pc.gold = Gold(Silver(c)) /\ pl.gold = Gold(Silver(l))
  BY DEF Profile
<1>9. pc.schemas \subseteq pl.schemas
  BY <1>7, <1>8
<1>10. /\ TestedGold \subseteq pl.gold /\ Drift(pl) = {}
       /\ personal(pl) = PersonalSchemas /\ rego_denials(w.pack) = {}
  BY DEF TestsPass
<1>. HIDE DEF c, l, pc, pl
<1>11. Drift(pc) = {}
  BY <1>9, <1>10 DEF Drift
<1>12. personal(pc) = personal(pl)
  <2>1. personal(pc) \subseteq personal(pl)
    BY <1>9
  <2>2. ASSUME NEW x \in pl.schemas, x.table.personal
        PROVE  x \in pc.schemas
    <3>1. x.declared = "pii"
      BY <1>10, <2>2 DEF Drift
    <3>2. PICK s \in Silver(l) : x = [table |-> s, declared |-> class(s.schema)]
      BY <1>8
    <3>3. PICK o \in Present(l) : s = [schema |-> o, rows |-> l[o].rows, personal |-> l[o].personal]
      BY DEF Silver
    <3>4. o \in Declared(t)
      BY <3>1, <3>2, <3>3
    <3>5. s = [schema |-> o, rows |-> c[o].rows, personal |-> c[o].personal] /\ o \in Present(c)
      BY <1>4, <1>5, <3>3, <3>4
    <3>6. s \in Silver(c)
      BY <3>5 DEF Silver
    <3>. QED  BY <1>8, <3>2, <3>6
  <2>. QED  BY <2>1, <2>2
<1>13. TestedGold \subseteq pc.gold
  <2>1. /\ {table.schema : table \in Silver(l)} = Present(l)
        /\ {table.schema : table \in Silver(c)} = Present(c)
    BY SilverSchemas
  <2>3. ASSUME NEW g \in TestedGold
        PROVE  g \in pc.gold
    <3>1. g \in DOMAIN GoldFrom /\ GoldFrom[g] \subseteq Present(l)
      BY <1>8, <1>10, <2>1 DEF Gold
    <3>2. GoldFrom[g] \subseteq Present(c)
      BY <1>4, <1>6, <3>1
    <3>. QED  BY <1>8, <2>1, <3>1, <3>2 DEF Gold
  <2>. QED  BY <2>3
<1>. QED  BY <1>10, <1>11, <1>12, <1>13 DEF TestsPass, pc, c

(* For every configuration, history of the documents and raw data, with       *)
(* conftest or without: a green gate_green.py is a green CI, as soon as ruff, *)
(* the profile and the dashboard are, no two owners are declared of one       *)
(* catalog that conftest is not there to see, and no gold table is built from *)
(* the file of a schema that has left.                                        *)
THEOREM LocalGreenAlwaysPredictsCi == Spec => []LocalGreenPredictsCi
<1>1. LocalGreenPredictsCi
  <2>. SUFFICES ASSUME GateGreen(work, raw, today), work.lint,
                       work.profile = Profile(work.tree, CiRaw(work)), DashboardInSync(work),
                       Conftest \/ ~rego_conflict, NoGoldFromOrphans
                PROVE  CiGreen(work, today)
    BY DEF LocalGreenPredictsCi
  <2>1. TestsPass(work, raw)
    BY DEF GateGreen
  <2>2. TestsPass(work, CiRaw(work))
    BY <2>1, TestsAlsoPassInCi DEF NoGoldFromOrphans, CiRaw
  <2>3. ConftestPasses(work.pack)
    <3>1. CASE Conftest
      BY <3>1 DEF GateGreen
    <3>2. CASE ~Conftest
      <4>1. Deny(work.pack) = {}
        BY <2>1, MirrorIsStricter DEF TestsPass
      <4>. QED  BY <3>2, <4>1 DEF ConftestPasses
    <3>. QED  BY <3>1, <3>2
  <2>. QED  BY <2>2, <2>3 DEF GateGreen, CiGreen
<1>. QED  BY <1>1, PTL

-----------------------------------------------------------------------------
(* Two days on which the pack is the same judge the configuration the same.   *)
LEMMA SamePackSameVerdict ==
    ASSUME NEW t, NEW d, NEW e, Pack(t, d) = Pack(t, e)
    PROVE  /\ \A f \in Analyze(t) : Accepted(t, f, d) <=> Accepted(t, f, e)
           /\ Gating(t, d) = Gating(t, e)
           /\ Steady(Metrics(t, d)) = Steady(Metrics(t, e))
<1>1. Context(t, d).findings = Context(t, e).findings
  BY DEF Pack
<1>2. ASSUME NEW f \in Analyze(t)
      PROVE  Accepted(t, f, d) <=> Accepted(t, f, e)
  <2>1. [key |-> f, accepted |-> Accepted(t, f, d)] \in Context(t, e).findings
    BY <1>1 DEF Context
  <2>2. PICK g \in Analyze(t) :
            [key |-> f, accepted |-> Accepted(t, f, d)] = [key |-> g, accepted |-> Accepted(t, g, e)]
    BY <2>1 DEF Context
  <2>3. f = g /\ Accepted(t, f, d) = Accepted(t, g, e)
    BY <2>2
  <2>. QED  BY <2>3
<1>3. Gating(t, d) = Gating(t, e)
  BY <1>2 DEF Gating
<1>4. Steady(Metrics(t, d)) = Steady(Metrics(t, e))
  <2>1. DOMAIN Metrics(t, d) = DOMAIN Metrics(t, e)
    BY DEF Metrics
  <2>2. \A key \in DOMAIN Metrics(t, d) \ {"expired", "expiring"} :
            Metrics(t, d)[key] = Metrics(t, e)[key]
    BY <1>1 DEF Metrics
  <2>. QED  BY <2>1, <2>2 DEF Steady
<1>. QED  BY <1>2, <1>3, <1>4

(* However long nobody touches the repository, what CI passes it passes until *)
(* the pack itself changes, which is when an exception lapses.                *)
THEOREM OnlyLapsesEverTurnRed == Spec => OnlyLapsesTurnRed
<1>1. [Next]_vars =>
          (/\ today' # today /\ CiGreen(work, today)
           /\ Pack(work.tree, today') = Pack(work.tree, today)
           => CiGreen(work', today'))
  <2>. SUFFICES ASSUME [Next]_vars, today' # today, CiGreen(work, today),
                       Pack(work.tree, today') = Pack(work.tree, today)
                PROVE  CiGreen(work', today')
    OBVIOUS
  <2>1. work' = work
    BY DEF Next, vars, docVars, Edit, CheckOut, DayPasses, WriteReport, WriteGenie, WriteMetrics, WriteCost,
       WriteDashboard, Writes, GenerateData, WriteProfile, RunTests, Dispatch, Statement, Space,
       Contract, DeployKilled
  <2>2. /\ Gating(work.tree, today') = {}
        /\ Steady(work.metrics) = Steady(Metrics(work.tree, today'))
    BY SamePackSameVerdict DEF CiGreen, PolicyHolds, DocsInSync
  <2>3. PolicyHolds(work, today') /\ DocsInSync(work, today')
    BY <2>2 DEF CiGreen, PolicyHolds, DocsInSync
  <2>. QED  BY <2>1, <2>3 DEF CiGreen
<1>. QED  BY <1>1, PTL DEF Spec, OnlyLapsesTurnRed
-----------------------------------------------------------------------------
(* Without orphans the working tree's raw data and CI's are one.              *)
LEMMA NoOrphansNoTrace ==
    ASSUME NEW t, NEW r, Present(r) \subseteq Declared(t)
    PROVE  Generated(t, FullRows, r) = EnsureRaw(t, NoRaw)
<1>1. EnsureRaw(t, NoRaw) = Generated(t, FullRows, NoRaw)
  BY DEF EnsureRaw, Present, NoRaw
<1>2. \A o \in Object : o \notin Declared(t) => r[o] = NoRaw[o]
  BY DEF Present, NoRaw
<1>. QED  BY <1>1, <1>2 DEF Generated

(* The raw data generated twice is generated once. *)
LEMMA GeneratedTwice ==
    ASSUME NEW t, NEW r
    PROVE  Generated(t, FullRows, Generated(t, FullRows, r)) = Generated(t, FullRows, r)
BY DEF Generated

(* For every configuration and calendar, whatever documents were stale and in *)
(* whatever mixture: one pass of the make targets settles them.               *)
THEOREM OnePassAlwaysSettles == Spec => []OnePassSettles
<1>1. WorkInv => OnePassSettles
  <2>. DEFINE made == MakeAll(work, raw, today)
              after == Generated(work.tree, FullRows, raw)
              again == MakeAll(made, after, today)
  <2>. SUFFICES ASSUME WorkInv, NoOrphans
                PROVE  /\ DocsInSync(made, today) /\ DashboardInSync(made)
                       /\ made.profile = Profile(made.tree, CiRaw(made))
                       /\ again = made
    BY DEF OnePassSettles
  <2>1. /\ made = [d \in Documents |-> made[d]]
        /\ made.tree = work.tree /\ made.cost = work.cost /\ made.lint = work.lint
        /\ made.pack = Pack(work.tree, today) /\ made.report = Report(Pack(work.tree, today))
        /\ made.sql = GenieSql(Pack(work.tree, today))
        /\ made.metrics = Metrics(work.tree, today)
        /\ made.costmd = Estimate(work.cost)
        /\ made.profile = Profile(work.tree, after)
        /\ made.dashboard = Dashboard(Metrics(work.tree, today), Pack(work.tree, today),
                                      Profile(work.tree, after), work.cost)
    BY WhatAPassWrites DEF WorkInv
  <2>2. DOMAIN made = Documents
    BY <2>1
  <2>3. Generated(made.tree, FullRows, after) = after
    BY <2>1, GeneratedTwice
  <2>. HIDE DEF made, after
  <2>4. /\ again = [d \in Documents |-> again[d]]
        /\ again.tree = made.tree /\ again.cost = made.cost /\ again.lint = made.lint
        /\ again.pack = Pack(made.tree, today) /\ again.report = Report(Pack(made.tree, today))
        /\ again.sql = GenieSql(Pack(made.tree, today))
        /\ again.metrics = Metrics(made.tree, today)
        /\ again.costmd = Estimate(made.cost)
        /\ again.profile = Profile(made.tree, after)
        /\ again.dashboard = Dashboard(Metrics(made.tree, today), Pack(made.tree, today),
                                       Profile(made.tree, after), made.cost)
    BY <2>2, <2>3, WhatAPassWrites
  <2>. HIDE DEF again
  <2>5. \A d \in Documents : again[d] = made[d]
    BY <2>1, <2>4 DEF Documents
  <2>6. again = made
    BY <2>1, <2>4, <2>5
  <2>7. CiRaw(made) = after
    BY <2>1, NoOrphansNoTrace DEF CiRaw, NoOrphans, after
  <2>8. DocsInSync(made, today)
    BY <2>1 DEF DocsInSync, SqlInSync
  <2>9. DashboardInSync(made)
    BY <2>1 DEF DashboardInSync
  <2>. QED  BY <2>1, <2>6, <2>7, <2>8, <2>9
<1>. QED  BY <1>1, AlwaysWork, PTL

-----------------------------------------------------------------------------
(* The checks of single links, taken together, reach from the configuration   *)
(* to the dashboard and the SQL, for every history of the documents.          *)
THEOREM GreenAlwaysReachesTheEnd == Spec => []GreenReachesTheEnd
<1>1. GreenReachesTheEnd
  <2>. SUFFICES ASSUME CiGreen(work, today)
                PROVE  GreenReachesTheEnd
    BY DEF GreenReachesTheEnd
  <2>1. /\ work.pack = Pack(work.tree, today) /\ work.report = Report(Pack(work.tree, today))
        /\ work.sql = GenieSql(work.pack)
        /\ Steady(work.metrics) = Steady(Metrics(work.tree, today))
        /\ work.profile = Profile(work.tree, CiRaw(work))
        /\ work.dashboard = Dashboard(work.metrics, work.pack, work.profile, work.cost)
    BY DEF CiGreen, DocsInSync, SqlInSync, DashboardInSync
  <2>2. Pack(work.tree, today).pii_map = PiiMap(work.tree)
    BY DEF Pack
  <2>3. work.report.pii_map = PiiMap(work.tree)
    BY <2>1, <2>2 DEF Report
  <2>4. {row.object : row \in PiiMap(work.tree)} =
            {o \in Object : work.tree.class[o] = "pii" /\ TypeOf[o] \in {"schema", "volume"}}
    <3>. DEFINE held == {o \in Object : work.tree.class[o] = "pii" /\ TypeOf[o] \in {"schema", "volume"}}
                rowOf(o) == [object |-> o, readers |-> Readers(work.tree, o)]
    <3>1. PiiMap(work.tree) = {rowOf(o) : o \in held}
      BY Zenon DEF PiiMap
    <3>2. \A o \in held : rowOf(o).object = o
      OBVIOUS
    <3>. HIDE DEF rowOf
    <3>. QED  BY <3>1, <3>2
  <2>5. /\ work.dashboard.metrics = work.metrics
        /\ work.dashboard.pii_map = work.pack.pii_map
        /\ work.dashboard.accepted = {f \in work.pack.findings : f.accepted}
        /\ work.dashboard.profile = Summary(work.profile)
    BY <2>1 DEF Dashboard
  <2>. QED  BY <2>1, <2>2, <2>3, <2>4, <2>5 DEF GreenReachesTheEnd
<1>. QED  BY <1>1, PTL
-----------------------------------------------------------------------------
(* The types need the cost assumptions' too, which no document check reads.   *)
Configured ==
    /\ work.tree \in OfferedTrees \cup {FirstTree}
    /\ work.cost \in OfferedCosts \cup {FirstCost}

(* A dataset of a declared schema is there. *)
LEMMA GeneratedIsPresent ==
    ASSUME NEW t, NEW r, NEW n \in {TestRows, FullRows}
    PROVE  Declared(t) \subseteq Present(Generated(t, n, r))
<1>1. n # 0
  BY DEF TestRows, FullRows
<1>2. \A o \in Declared(t) : Generated(t, n, r)[o].rows = n
  BY DEF Generated, Dataset, Declared
<1>3. Missing.rows = 0
  BY DEF Missing
<1>. QED  BY <1>1, <1>2, <1>3 DEF Present, Declared

LEMMA GeneratedRows ==
    ASSUME NEW t, NEW r, NEW n \in {TestRows, FullRows},
           \A o \in Object : r[o].rows \in {0, TestRows, FullRows}
    PROVE  \A o \in Object : Generated(t, n, r)[o].rows \in {0, TestRows, FullRows}
BY DEF Generated, Dataset

DataOK ==
    /\ \A o \in Object : raw[o].rows \in {0, TestRows, FullRows}
    /\ raw # NoRaw => \E t \in OfferedTrees \cup {FirstTree} : Declared(t) \subseteq Present(raw)

WrittenOK ==
    /\ \E c \in OfferedCosts \cup {FirstCost} : work.costmd = Estimate(c)
    /\ \E t \in OfferedTrees \cup {FirstTree}, d \in 0..today : work.pack = Pack(t, d)

ClockOK == edits \in 0..MaxEdits /\ today \in 0..MaxDay

Sorts == Configured /\ DataOK /\ WrittenOK /\ ClockOK

LEMMA InitSorts == Init => Sorts
<1>. SUFFICES ASSUME Init PROVE Sorts
  OBVIOUS
<1>1. DOMAIN Blank = Documents /\ Blank.tree = FirstTree /\ Blank.cost = FirstCost
  BY DEF Blank, Documents
<1>2. /\ work.tree = FirstTree /\ work.cost = FirstCost
      /\ work.costmd = Estimate(FirstCost) /\ work.pack = Pack(FirstTree, 0)
  BY <1>1, WhatAPassWrites DEF Init
<1>3. today = 0 /\ 0 \in 0..today /\ 0 \in 0..MaxDay /\ edits \in 0..MaxEdits
  BY ArtifactsAssumption DEF Init
<1>4. raw = NoRaw /\ \A o \in Object : raw[o].rows = 0
  BY DEF Init, NoRaw, Missing
<1>. QED  BY <1>2, <1>3, <1>4 DEF Sorts, Configured, DataOK, WrittenOK, ClockOK

LEMMA NextSorts == WorkInv /\ Sorts /\ [Next]_vars => Sorts'
<1>. SUFFICES ASSUME WorkInv, Sorts, [Next]_vars
              PROVE  Sorts'
  OBVIOUS
<1>1. CASE Edit
  <2>1. /\ work'.costmd = work.costmd /\ work'.pack = work.pack
        /\ work'.tree \in OfferedTrees \cup {FirstTree}
        /\ work'.cost \in OfferedCosts \cup {FirstCost}
    <3>1. ASSUME NEW t \in OfferedTrees, work' = [work EXCEPT !.tree = t]
          PROVE  work'.costmd = work.costmd /\ work'.pack = work.pack
                 /\ work'.tree = t /\ work'.cost = work.cost
      BY <3>1 DEF WorkInv, Documents
    <3>2. ASSUME NEW c \in OfferedCosts, work' = [work EXCEPT !.cost = c]
          PROVE  work'.costmd = work.costmd /\ work'.pack = work.pack
                 /\ work'.tree = work.tree /\ work'.cost = c
      BY <3>2 DEF WorkInv, Documents
    <3>3. ASSUME work' = [work EXCEPT !.lint = ~@]
          PROVE  work'.costmd = work.costmd /\ work'.pack = work.pack
                 /\ work'.tree = work.tree /\ work'.cost = work.cost
      BY <3>3 DEF WorkInv, Documents
    <3>. QED  BY <1>1, <3>1, <3>2, <3>3 DEF Edit, Sorts, Configured
  <2>2. edits' \in 0..MaxEdits /\ UNCHANGED <<raw, today>>
    BY <1>1, ArtifactsAssumption DEF Edit, Sorts, ClockOK
  <2>. QED  BY <2>1, <2>2 DEF Sorts, Configured, DataOK, WrittenOK, ClockOK
<1>2. CASE WriteReport
  <2>1. /\ work'.costmd = work.costmd /\ work'.pack = Pack(work.tree, today)
        /\ work'.tree = work.tree /\ work'.cost = work.cost
    BY <1>2 DEF WriteReport, Writes, Reported, WorkInv, Documents
  <2>2. UNCHANGED <<raw, today, edits>> /\ today \in 0..today
    BY <1>2, ArtifactsAssumption DEF WriteReport, Writes, Sorts, ClockOK
  <2>. QED  BY <2>1, <2>2 DEF Sorts, Configured, DataOK, WrittenOK, ClockOK
<1>3. CASE WriteCost
  <2>1. /\ work'.costmd = Estimate(work.cost) /\ work'.pack = work.pack
        /\ work'.tree = work.tree /\ work'.cost = work.cost
    BY <1>3 DEF WriteCost, Writes, Costed, WorkInv, Documents
  <2>. QED  BY <1>3, <2>1 DEF WriteCost, Writes, Sorts, Configured, DataOK, WrittenOK, ClockOK
<1>4. CASE WriteGenie \/ WriteMetrics \/ WriteDashboard
  <2>1. /\ work'.costmd = work.costmd /\ work'.pack = work.pack
        /\ work'.tree = work.tree /\ work'.cost = work.cost
    BY <1>4 DEF WriteGenie, WriteMetrics, WriteDashboard, Writes, Grounded, Measured, Drawn,
       WorkInv, Documents
  <2>. QED  BY <1>4, <2>1 DEF WriteGenie, WriteMetrics, WriteDashboard, Writes, Sorts,
       Configured, DataOK, WrittenOK, ClockOK
<1>5. CASE GenerateData \/ RunTests
  <2>1. PICK n \in {TestRows, FullRows} : raw' = Generated(work.tree, n, raw)
    BY <1>5 DEF GenerateData, RunTests
  <2>2. DataOK'
    BY <2>1, GeneratedIsPresent, GeneratedRows DEF Sorts, Configured, DataOK
  <2>3. UNCHANGED <<work, edits, today>>
    BY <1>5 DEF GenerateData, RunTests
  <2>. QED  BY <2>2, <2>3 DEF Sorts, Configured, WrittenOK, ClockOK
<1>6. CASE WriteProfile
  <2>1. raw' = raw \/ raw' = Generated(work.tree, FullRows, raw)
    BY <1>6 DEF WriteProfile, EnsureRaw
  <2>2. DataOK'
    BY <2>1, GeneratedIsPresent, GeneratedRows DEF Sorts, Configured, DataOK
  <2>3. /\ work'.costmd = work.costmd /\ work'.pack = work.pack
        /\ work'.tree = work.tree /\ work'.cost = work.cost
    BY <1>6 DEF WriteProfile, Profiled, WorkInv, Documents
  <2>. QED  BY <1>6, <2>2, <2>3 DEF WriteProfile, Sorts, Configured, WrittenOK, ClockOK
<1>7. CASE DayPasses
  <2>1. today' \in 0..MaxDay /\ 0..today \subseteq 0..today' /\ UNCHANGED <<work, raw, edits>>
    BY <1>7, ArtifactsAssumption DEF DayPasses, Sorts, ClockOK
  <2>. QED  BY <2>1 DEF Sorts, Configured, DataOK, WrittenOK, ClockOK
<1>8. CASE \/ Dispatch \/ Statement \/ Space \/ Contract \/ DeployKilled
           \/ UNCHANGED vars
  <2>1. UNCHANGED <<work, raw, edits, today>>
    BY <1>8 DEF Dispatch, Statement, Space, Contract, DeployKilled, docVars, vars
  <2>. QED  BY <2>1 DEF Sorts, Configured, DataOK, WrittenOK, ClockOK
<1>9. CASE CheckOut
  <2>1. PICK t \in OfferedTrees : work' = MakeAll([work EXCEPT !.tree = t], NoRaw, today)
    BY <1>9 DEF CheckOut
  <2>2. PICK w : w = [work EXCEPT !.tree = t]
    OBVIOUS
  <2>3. DOMAIN w = Documents /\ w.tree = t /\ w.cost = work.cost
    BY <2>2 DEF WorkInv, Documents
  <2>4. work' = MakeAll(w, NoRaw, today)
    BY <2>1, <2>2
  <2>5. /\ work'.tree = t /\ work'.cost = work.cost
        /\ work'.pack = Pack(t, today) /\ work'.costmd = Estimate(work.cost)
    BY <2>3, <2>4, WhatAPassWrites
  <2>6. edits' \in 0..MaxEdits /\ today \in 0..today /\ UNCHANGED <<raw, today>>
    BY <1>9, ArtifactsAssumption DEF CheckOut, Sorts, ClockOK
  <2>. QED  BY <2>5, <2>6 DEF Sorts, Configured, DataOK, WrittenOK, ClockOK
<1>. QED  BY <1>1, <1>2, <1>3, <1>4, <1>5, <1>6, <1>7, <1>8, <1>9 DEF Next

(* Every document is always what its script makes of some configuration an    *)
(* author offered, on a day that has been.                                    *)
THEOREM TypeCorrect == Spec => []TypeOK
<1>1. Init => LoadInv
  BY DEF Init, LoadInv
<1>2. Sorts /\ LoadInv => TypeOK
  BY DEF Sorts, Configured, DataOK, WrittenOK, ClockOK, LoadInv, TypeOK
<1>. QED  BY <1>1, <1>2, AlwaysWork, InitSorts, NextSorts, NextLoad, PTL DEF Spec

-----------------------------------------------------------------------------
(* Whatever values are quoted in them, the statements of the generated SQL   *)
(* reach the SQL API one by one and whole, so long as no line of a value     *)
(* begins with "--".                                                         *)
LEMMA ScriptsComeApart == SplitIsInverse
<1>. DEFINE C == STRING \cup Marks
<1>1. Marks \subseteq C
  OBVIOUS
<1>2. ASSUME NEW v \in Texts, NEW w \in Texts,
             NoCommentLine(InsertOf(v)), NoCommentLine(InsertOf(w))
      PROVE  LET statements == <<InsertOf(v), InsertOf(w)>>
             IN  split_statements(Script(statements)) = statements
  <2>1. v \in Seq(C) /\ w \in Seq(C)
    BY ArtifactsAssumption
  <2>2. InsertOf(v) \in Inserts(C) /\ InsertOf(w) \in Inserts(C)
    BY <1>2, <2>1 DEF Inserts
  <2>3. Quotes(<<InsertOf(v), InsertOf(w)>>, C)
    BY <2>2 DEF Quotes
  <2>. HIDE DEF C
  <2>. QED  BY <1>1, <2>3, SplitInvertsScripts
<1>. QED  BY <1>2 DEF SplitIsInverse

(* At every moment of a deploy, for every set of texts, those with a line    *)
(* that begins with "--" apart.                                              *)
THEOREM SplitAlwaysUndoesScript == Spec => []SplitUndoesScript
<1>1. SplitUndoesScript
  BY ScriptsComeApart DEF SplitUndoesScript
<1>. QED  BY <1>1, PTL

=============================================================================
