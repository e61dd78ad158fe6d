------------------------------ MODULE Artifacts ------------------------------
(***************************************************************************)
(* The documents the repository commits beside its policy, the scripts that*)
(* write them, the checks that compare them, the calendar, and the Genie   *)
(* space that is loaded from one of them.                                  *)
(*                                                                         *)
(*   tree -> pack -> SQL -> live tables                                    *)
(*   tree -> metrics \                                                     *)
(*   tree -> raw data -> profile -> dashboard, which also reads the pack   *)
(*   assumptions -> COST.md, dashboard                                     *)
(*                                                                         *)
(* Each script reads what the one before it committed, not what it would   *)
(* commit now; each check regenerates one link.  The raw data is a cache of*)
(* the working tree, ignored by git; a run of CI starts without it.        *)
(***************************************************************************)
EXTENDS Backends, FiniteSets, SequencesExt, GenieScript

CONSTANTS
    Curated,        \* [Object -> {"personal", "plain", "generic"}]: the known columns
    GoldFrom,       \* [gold table -> the schemas whose silver tables it needs]
    Window,         \* expiring_within_*d
    FirstTree, FirstCost,
    Texts,          \* the values the generated SQL quotes
    OfferedTrees, OfferedCosts, \* what an author may make of the configuration
    PersonalSchemas,\* where test_pipelines.py expects personal columns
    TestedGold,     \* the gold tables it reads
    Conftest,       \* whether the author has conftest installed
    Tables,         \* the grounding tables, in the order of the generated SQL
    MaxEdits, MaxDay            \* bounds

ASSUME ArtifactsAssumption ==
    /\ Curated \in [Object -> {"personal", "plain", "generic"}]
    /\ Window \in Nat /\ MaxEdits \in Nat /\ MaxDay \in Nat
    /\ FirstTree \in Tree /\ OfferedTrees \subseteq Tree
    /\ TestedGold \subseteq DOMAIN GoldFrom /\ Conftest \in BOOLEAN
    /\ Tables \in Seq(STRING) /\ Tables # <<>>
    /\ Texts \subseteq Seq(STRING)

VARIABLES
    work,       \* the working tree: the configuration, the committed documents,
                \* and whether ruff passes (lint)
    raw,        \* pipelines/data/raw, [Object -> Dataset]
    edits, today,
    live,       \* [table -> << its rows in platform_governance >>, or Gone]
    spaces,     \* how many spaces are named Governance Copilot
    deploy      \* the genie workflow: the SQL it checked out and how far it got

vars == <<work, raw, edits, today, live, spaces, deploy>>
docVars == <<work, raw, edits, today>>
genieVars == <<live, spaces, deploy>>

-----------------------------------------------------------------------------
(* What the documents say. *)

Declared(t) == {o \in Object : TypeOf[o] = "schema" /\ t.class[o] # "absent"}

Readers(t, o) ==
    {g.principal : g \in {h \in t.grants : /\ h.object = o
                                           /\ h.privileges \cap DATA_READ_PRIVILEGES # {}}}

PiiMap(t) ==
    {[object |-> o, readers |-> Readers(t, o)] :
        o \in {p \in Object : t.class[p] = "pii" /\ TypeOf[p] \in {"schema", "volume"}}}

(* governance_context.json, the date aside, and REPORT.md rendered from it. *)
Pack(t, day) ==
    LET context == Context(t, day)
    IN  [objects |-> {<<o, t.class[o]>> : o \in {p \in Object : t.class[p] # "absent"}},
         access |-> context.access,
         pii_map |-> PiiMap(t),
         findings |-> context.findings]

Report(pack) ==
    [pii_map |-> pack.pii_map, access |-> pack.access, objects |-> pack.objects,
     accepted |-> {f.key : f \in {g \in pack.findings : g.accepted}},
     open |-> {f.key : f \in {g \in pack.findings : ~g.accepted}}]

(* materialize_governance.sql: one CREATE OR REPLACE and one INSERT a table. *)
GenieSql(pack) ==
    [objects |-> pack.objects, access_matrix |-> pack.access,
     pii_map |-> pack.pii_map, policy_findings |-> pack.findings]

Lapsed(t, day) == {e \in Expiring(t, 0, day) : IsExpired(e, day)}
Soon(t, day) == Expiring(t, Window, day) \ Lapsed(t, day)

(* metrics.json. *)
Metrics(t, day) ==
    LET findings == Context(t, day).findings
    IN  [accepted |-> Cardinality({f \in findings : f.accepted}),
         open |-> Cardinality({f \in findings : ~f.accepted}),
         gating |-> Cardinality({f \in findings : f.key.rule \in HighRules /\ ~f.accepted}),
         classified |-> Cardinality({o \in Declared(t) : t.class[o] # "none"}),
         pii |-> Cardinality(PiiMap(t)),
         grants |-> Cardinality(t.grants),
         exceptions |-> Cardinality(t.exceptions),
         expired |-> Cardinality(Lapsed(t, day)),
         expiring |-> Cardinality(Soon(t, day))]

(* Mistake: the counts that move with the date are compared too. *)
NothingStripped(m) == m

(* _strip_volatile: what --check compares. *)
Steady(m) == [key \in DOMAIN m \ {"expired", "expiring"} |-> m[key]]

-----------------------------------------------------------------------------
(* The raw data and the warehouse built from it. *)

Missing == [rows |-> 0, personal |-> FALSE]
NoRaw == [o \in Object |-> Missing]
FullRows == 120
TestRows == 20      \* what the test suite leaves behind

Present(r) == {o \in Object : r[o] # Missing}

Dataset(t, o, rows) ==
    [rows |-> rows,
     personal |-> \/ Curated[o] = "personal"
                  \/ Curated[o] = "generic" /\ t.class[o] = "pii"]

(* generate: a file for every declared schema; the other files stay. *)
Generated(t, rows, r) ==
    [o \in Object |-> IF o \in Declared(t) THEN Dataset(t, o, rows) ELSE r[o]]

(* _ensure_raw: generated only when there is no file at all. *)
EnsureRaw(t, r) == IF Present(r) = {} THEN Generated(t, FullRows, r) ELSE r

(* Bronze and silver: a table for every file there is, declared or not. *)
Silver(r) == {[schema |-> o, rows |-> r[o].rows, personal |-> r[o].personal] : o \in Present(r)}

(* A gold table is built when the silver tables it needs are there. *)
Gold(silver) ==
    {g \in DOMAIN GoldFrom : GoldFrom[g] \subseteq {table.schema : table \in silver}}

Profile(t, r) ==
    LET declared(o) == IF o \in Declared(t) THEN t.class[o] ELSE "none"
    IN  [schemas |-> {[table |-> s, declared |-> declared(s.schema)] : s \in Silver(r)},
         gold |-> Gold(Silver(r))]

Drift(p) == {s \in p.schemas : s.table.personal /\ s.declared # "pii"}

(* The profile's summary is what the dashboard shows of it. *)
Summary(p) ==
    [schemas |-> Cardinality(p.schemas), drift |-> Cardinality(Drift(p)),
     rows |-> MapThenSumSet(LAMBDA s : s.table.rows, p.schemas),
     personal |-> Cardinality({s \in p.schemas : s.table.personal}),
     gold |-> Cardinality(p.gold)]

(* COST.md: the arithmetic on the assumptions. *)
Estimate(a) ==
    LET databricks == a.hours * a.dbu_per_hour
        infra == MapThenSumSet(LAMBDA c : a.infra[c], DOMAIN a.infra)
    IN  [databricks |-> databricks, snowflake |-> a.credits, infra |-> infra,
         carbon |-> a.hours * a.power, total |-> databricks + a.credits + infra]

(* index.html: the metrics whole, the PII map and the accepted findings of   *)
(* the pack, the profile, and the cost worked out afresh.                    *)
Dashboard(metrics, pack, profile, cost) ==
    [metrics |-> metrics, pii_map |-> pack.pii_map,
     accepted |-> {f \in pack.findings : f.accepted},
     profile |-> Summary(profile),
     cost |-> Restrict(Estimate(cost), {"total", "databricks", "infra", "carbon"})]

-----------------------------------------------------------------------------
(* The scripts, each from the working tree it finds to the one it leaves. *)

Reported(w, day) ==
    LET pack == Pack(w.tree, day) IN [w EXCEPT !.pack = pack, !.report = Report(pack)]
Grounded(w) == [w EXCEPT !.sql = GenieSql(w.pack)]
Measured(w, day) == [w EXCEPT !.metrics = Metrics(w.tree, day)]
Costed(w) == [w EXCEPT !.costmd = Estimate(w.cost)]
Profiled(w, r) == [w EXCEPT !.profile = Profile(w.tree, r)]
Drawn(w) == [w EXCEPT !.dashboard = Dashboard(w.metrics, w.pack, w.profile, w.cost)]

(* Mistake: the SQL before the pack it is rendered from. *)
GovernanceReportSqlFirst(w, day) == Costed(Measured(Reported(Grounded(w), day), day))

(* make governance-report, make data, make dashboard. *)
GovernanceReport(w, day) == Costed(Measured(Grounded(Reported(w, day)), day))
MakeAll(w, r, day) ==
    Drawn(Profiled(GovernanceReport(w, day), Generated(w.tree, FullRows, r)))

-----------------------------------------------------------------------------
(* The checks. *)

SqlInSync(w) == w.sql = GenieSql(w.pack)

(* Mistake: the pack is taken as it is committed. *)
DocsInSyncWithItself(w, day) ==
    /\ SqlInSync(w)
    /\ Steady(w.metrics) = Steady(Metrics(w.tree, day))
    /\ w.costmd = Estimate(w.cost)

(* The part of the two suites that reads the configuration's documents. *)
DocsInSync(w, day) ==
    /\ LET pack == Pack(w.tree, day) IN w.pack = pack /\ w.report = Report(pack)
    /\ SqlInSync(w)
    /\ Steady(w.metrics) = Steady(Metrics(w.tree, day))
    /\ w.costmd = Estimate(w.cost)

(* Mistake: the second engine is left out. *)
PolicyHoldsUcOnly(w, day) == ValidGrants(w.tree) /\ Gating(w.tree, day) = {}

(* The validator, the analyzer and the cross-backend check. *)
PolicyHolds(w, day) ==
    /\ ValidGrants(w.tree)
    /\ Gating(w.tree, day) = {}
    /\ Lost(w.tree.grants) = {}

(* The Rego policy, which needs conftest. *)
ConftestPasses(pack) == Deny(pack) = {} /\ ~rego_conflict

(* The tests' mirror of it in Python: of the owners of one catalog name the  *)
(* last one counts.                                                          *)
mirror_violates(rule, a) ==
    \/ rule # "SENSITIVE_ALL_PRIVILEGES" /\ rego_violates(rule, a)
    \/ /\ rule = "SENSITIVE_ALL_PRIVILEGES"
       /\ a.class \in sensitive_classes /\ "ALL_PRIVILEGES" \in a.privileges
       /\ a.principal \notin Admins /\ a.principal # OwnerOf(a.object)

rego_denials(pack) ==
    {f \in [rule : HighRules, object : Object, principal : Principal] :
        \E a \in pack.access :
            /\ f.object = a.object /\ f.principal = a.principal
            /\ mirror_violates(f.rule, a)
            /\ ~rego_accepted(pack, f.rule, a)}

(* pytest.  test_pipelines.py generates into the repository's own raw data   *)
(* and builds the warehouse of all it finds there: the gold tables it reads  *)
(* are built, nothing personal is undeclared, and the schemas with personal  *)
(* columns are the two it names.  (gold_pii_minimised holds of every tree:   *)
(* medallion.py names the columns of gold, none of them personal.)  The      *)
(* other suites read the configuration and the committed documents alone.    *)
TestsPass(w, r) ==
    LET p == Profile(w.tree, Generated(w.tree, TestRows, r))
    IN  /\ TestedGold \subseteq p.gold
        /\ Drift(p) = {}
        /\ {s.table.schema : s \in {x \in p.schemas : x.table.personal}} = PersonalSchemas
        /\ rego_denials(w.pack) = {}

DashboardInSync(w) ==
    w.dashboard = Dashboard(w.metrics, w.pack, w.profile, w.cost)

CiRaw(w) == EnsureRaw(w.tree, NoRaw)

(* dbx-config-validate.yml, on a clean checkout: ruff first. *)
CiGreen(w, day) ==
    /\ w.lint
    /\ PolicyHolds(w, day) /\ ConftestPasses(w.pack)
    /\ DocsInSync(w, day)
    /\ w.profile = Profile(w.tree, CiRaw(w))
    /\ DashboardInSync(w)
    /\ TestsPass(w, CiRaw(w))

(* Mistake: the suite leaves a document out. *)
GateGreenShort(w, r, day) ==
    /\ PolicyHolds(w, day) /\ (Conftest => ConftestPasses(w.pack))
    /\ SqlInSync(w) /\ TestsPass(w, r)

(* gate_green.py, in the working tree: a tool that is not installed is a     *)
(* check skipped, and a skip is not a failure.                               *)
GateGreen(w, r, day) ==
    /\ PolicyHolds(w, day) /\ (Conftest => ConftestPasses(w.pack))
    /\ DocsInSync(w, day) /\ TestsPass(w, r)

-----------------------------------------------------------------------------
(* dbx-genie.yml: what a deploy has got to. *)
Gone == <<>>
Idle == [phase |-> "idle"]
Rows(sql) == [i \in DOMAIN Tables |-> sql[Tables[i]]]

Blank ==
    [tree |-> FirstTree, cost |-> FirstCost, pack |-> Pack(FirstTree, 0), report |-> {}, sql |-> {},
     metrics |-> {}, costmd |-> {}, profile |-> {}, dashboard |-> {}, lint |-> TRUE]

Init ==
    /\ work = MakeAll(Blank, NoRaw, 0)
    /\ raw = NoRaw
    /\ edits = 0 /\ today = 0
    /\ live = [i \in DOMAIN Tables |-> Gone]
    /\ spaces = 0
    /\ deploy = Idle

(* An author edits the configuration, the ledger or the cost assumptions, or *)
(* lines of scripts/ and tests/ that ruff likes or does not.                 *)
Edit ==
    /\ edits < MaxEdits /\ edits' = edits + 1
    /\ \/ \E t \in OfferedTrees \ {work.tree} : work' = [work EXCEPT !.tree = t]
       \/ \E c \in OfferedCosts \ {work.cost} : work' = [work EXCEPT !.cost = c]
       \/ work' = [work EXCEPT !.lint = ~@]
    /\ UNCHANGED <<raw, today, genieVars>>

(* A branch is checked out whose documents were written in another working   *)
(* tree: git leaves the raw data where it is.                                *)
CheckOut ==
    /\ edits < MaxEdits /\ edits' = edits + 1
    /\ \E t \in OfferedTrees \ {work.tree} :
           work' = MakeAll([work EXCEPT !.tree = t], NoRaw, today)
    /\ UNCHANGED <<raw, today, genieVars>>

Writes(w) == work' = w /\ UNCHANGED <<raw, edits, today, genieVars>>

WriteReport == Writes(Reported(work, today))
WriteGenie == Writes(Grounded(work))
WriteMetrics == Writes(Measured(work, today))
WriteCost == Writes(Costed(work))
WriteDashboard == Writes(Drawn(work))

GenerateData ==
    /\ raw' = Generated(work.tree, FullRows, raw)
    /\ UNCHANGED <<work, edits, today, genieVars>>

WriteProfile ==
    /\ raw' = EnsureRaw(work.tree, raw)
    /\ work' = Profiled(work, raw')
    /\ UNCHANGED <<edits, today, genieVars>>

RunTests ==
    /\ raw' = Generated(work.tree, TestRows, raw)
    /\ UNCHANGED <<work, edits, today, genieVars>>

DayPasses ==
    /\ today < MaxDay /\ today' = today + 1
    /\ UNCHANGED <<work, raw, edits, genieVars>>

-----------------------------------------------------------------------------
(* dbx-genie.yml: the check, then genie_space.py --deploy, which writes the   *)
(* artifacts anew and loads them with no lock and no rollback.               *)

Dispatch ==
    /\ deploy = Idle
    /\ SqlInSync(work)
    /\ deploy' = [phase |-> "tables", at |-> 1, replaced |-> FALSE, sql |-> Rows(GenieSql(work.pack))]
    /\ UNCHANGED <<docVars, live, spaces>>

(* The statement that is next: a table's CREATE OR REPLACE, then its INSERT. *)
Runs == live' = [live EXCEPT ![deploy.at] = <<IF deploy.replaced THEN deploy.sql[deploy.at] ELSE {}>>]

(* Where the job goes from there; without rows there is no INSERT. *)
Advanced ==
    IF ~deploy.replaced /\ deploy.sql[deploy.at] # {}
    THEN [deploy EXCEPT !.replaced = TRUE]
    ELSE IF deploy.at < Len(Tables)
    THEN [deploy EXCEPT !.replaced = FALSE, !.at = @ + 1]
    ELSE [deploy EXCEPT !.phase = "space"]

(* Mistake: a failed statement is reported and the script goes on. *)
StatementCarriesOn ==
    /\ deploy.phase = "tables"
    /\ UNCHANGED live \/ Runs
    /\ deploy' = Advanced
    /\ UNCHANGED <<docVars, spaces>>

Statement ==
    /\ deploy.phase = "tables"
    /\ \/ Runs /\ deploy' = Advanced
       \/ (UNCHANGED live \/ Runs) /\ deploy' = Idle
    /\ UNCHANGED <<docVars, spaces>>

(* Mistake: a space for every deploy. *)
SpaceAlwaysNew ==
    /\ deploy.phase = "space"
    /\ spaces' = spaces + 1 /\ deploy' = [deploy EXCEPT !.phase = "contract"]
    /\ UNCHANGED <<docVars, live>>

(* Created when none has the name; the list or the create call may fail.     *)
Space ==
    /\ deploy.phase = "space"
    /\ \/ /\ spaces' = IF spaces = 0 THEN 1 ELSE spaces
          /\ deploy' = [deploy EXCEPT !.phase = "contract"]
       \/ spaces' = spaces /\ deploy' = Idle
    /\ UNCHANGED <<docVars, live>>

(* The instructions and the grants: what they answer is printed, no more.    *)
Contract ==
    /\ deploy.phase = "contract"
    /\ deploy' = Idle
    /\ UNCHANGED <<docVars, live, spaces>>

(* The runner is lost, after whichever call. *)
DeployKilled ==
    /\ deploy # Idle
    /\ deploy' = Idle
    /\ UNCHANGED <<docVars, live, spaces>>

-----------------------------------------------------------------------------
Next ==
    \/ Edit \/ CheckOut \/ DayPasses
    \/ WriteReport \/ WriteGenie \/ WriteMetrics \/ WriteCost \/ WriteDashboard
    \/ GenerateData \/ WriteProfile \/ RunTests
    \/ Dispatch \/ Statement \/ Space \/ Contract \/ DeployKilled

Spec == Init /\ [][Next]_vars

-----------------------------------------------------------------------------
(* Every document is what its script makes of some configuration; the raw     *)
(* data and the live tables likewise.                                         *)
TypeOK ==
    /\ work.tree \in OfferedTrees \cup {FirstTree}
    /\ \E c \in OfferedCosts \cup {FirstCost} : work.costmd = Estimate(c)
    /\ \E t \in OfferedTrees \cup {FirstTree}, d \in 0..today : work.pack = Pack(t, d)
    /\ \A o \in Object : raw[o].rows \in {0, TestRows, FullRows}
    /\ raw # NoRaw => \E t \in OfferedTrees \cup {FirstTree} : Declared(t) \subseteq Present(raw)
    /\ edits \in 0..MaxEdits /\ today \in 0..MaxDay /\ spaces \in {0, 1}
    /\ deploy = Idle \/ deploy.phase \in {"tables", "space", "contract"}

(* No file of a schema that has since left the configuration. *)
NoOrphans == Present(raw) \subseteq Declared(work.tree)

(* From whatever mixture of stale documents, one pass of the three make      *)
(* targets, in the Makefile's order, brings every check of CI that is not    *)
(* about the policy itself to green, and a second pass changes nothing.      *)
OnePassSettles ==
    NoOrphans =>
        LET made == MakeAll(work, raw, today)
            after == Generated(work.tree, FullRows, raw)
        IN  /\ DocsInSync(made, today) /\ DashboardInSync(made)
            /\ made.profile = Profile(made.tree, CiRaw(made))
            /\ MakeAll(made, after, today) = made

(* Each check looks at one link of the chain; together they reach the end of *)
(* it: the PII map of a dashboard and the SQL of a tree CI passes are those  *)
(* of its configuration today, whoever wrote them when.                      *)
GreenReachesTheEnd ==
    CiGreen(work, today) =>
        /\ work.sql = GenieSql(Pack(work.tree, today))
        /\ {row.object : row \in work.report.pii_map} =
               {o \in Object : work.tree.class[o] = "pii" /\ TypeOf[o] \in {"schema", "volume"}}
        /\ work.dashboard.pii_map = PiiMap(work.tree)
        /\ work.dashboard.accepted = {f \in Pack(work.tree, today).findings : f.accepted}
        /\ work.dashboard.profile = Summary(Profile(work.tree, CiRaw(work)))
        /\ Steady(work.dashboard.metrics) = Steady(Metrics(work.tree, today))

(* The calendar alone turns a passing tree red only by a lapse the pack       *)
(* shows: the expiry counts in the metrics and on the dashboard may go stale. *)
OnlyLapsesTurnRed ==
    [][/\ today' # today /\ CiGreen(work, today)
       /\ Pack(work.tree, today') = Pack(work.tree, today)
       => CiGreen(work', today')]_vars

(* No gold table owes a silver one to the file of a schema that has left.     *)
NoGoldFromOrphans ==
    \A g \in DOMAIN GoldFrom : GoldFrom[g] \cap Present(raw) \subseteq Declared(work.tree)

(* What a green gate_green.py says of CI.  It misses ruff, the profile and    *)
(* the dashboard; without conftest it misses two owners of one catalog name,  *)
(* the rest of the Rego policy being mirrored in the tests; and where a file  *)
(* of a schema that has left helps to build a gold table it is green where CI *)
(* is red.  These five apart, whatever else the raw data of the working tree  *)
(* holds, green there is green in CI.                                         *)
LocalGreenPredictsCi ==
    /\ GateGreen(work, raw, today)
    /\ work.lint
    /\ work.profile = Profile(work.tree, CiRaw(work)) /\ DashboardInSync(work)
    /\ Conftest \/ ~rego_conflict
    /\ NoGoldFromOrphans
    => CiGreen(work, today)

(* A deploy that gets as far as the grounding contract has one space and has  *)
(* loaded every table from the SQL of its checkout, whatever earlier deploys  *)
(* that failed or were killed have left.                                      *)
CopilotGrounded ==
    deploy # Idle =>
        /\ deploy.phase \in {"space", "contract"} =>
               \A i \in DOMAIN Tables : live[i] = <<deploy.sql[i]>>
        /\ deploy.phase = "contract" => spaces = 1

(* The statements of two quoted values come back out of a script of them, if *)
(* no line in either begins with "--".                                        *)
SplitIsInverse ==
    \A v, w \in Texts :
        LET statements == <<InsertOf(v), InsertOf(w)>>
        IN  NoCommentLine(InsertOf(v)) /\ NoCommentLine(InsertOf(w))
                => split_statements(Script(statements)) = statements

(* A deploy gives the SQL API the statements the renderer wrote, one by one,  *)
(* and never half of one, whatever quotes, semicolons and line breaks are in  *)
(* the quoted values: all but a line of a value that begins with "--", which  *)
(* the splitter takes for a comment.                                          *)
SplitUndoesScript == deploy # Idle => SplitIsInverse

(* Merging the fragments into one GRANT a target neither adds to nor takes    *)
(* from what the cross-backend check compared: for the configuration as it    *)
(* stands, and whatever else is granted, to whom and in how many entries.     *)
MergeKeepsAccess == AccountMatchesProof(work.tree.grants) /\ OfferedKeepAccess

(* What a tree CI passes grants on Databricks on the objects of the domain    *)
(* the Snowflake unit reads, its principals have in the account too, once the *)
(* merged grants are applied.  Nothing is said of the other clouds' objects:  *)
(* the check compares their grants too, and no unit makes them.               *)
GreenLosesNothing ==
    CiGreen(work, today) /\ Applies(work.tree.grants) /\ RolesApart =>
        \A o \in Covered, who \in Principal :
            effective_access_uc(work.tree.grants, o, who)
                \subseteq account_access(work.tree.grants, o, who)

(* "idempotent rebuild -> deterministic" (profile_data.py:88): the profile    *)
(* `make data` writes is the one CI rebuilds.                                 *)
DataIsDeterministic ==
    Profile(work.tree, Generated(work.tree, FullRows, raw)) = Profile(work.tree, CiRaw(work))

=============================================================================
