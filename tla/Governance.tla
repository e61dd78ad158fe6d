----------------------------- MODULE Governance -----------------------------
(***************************************************************************)
(* The two engines that judge the committed access policy.                 *)
(*                                                                         *)
(* scripts/policy_analyzer.py reads the domain configuration and the       *)
(* exception ledger and reports findings; the HIGH ones no live exception  *)
(* accepts are gating.  policy/opa/governance.rego re-derives the gating   *)
(* findings from docs/governance/governance_context.json, the grounding    *)
(* pack scripts/governance_report.py writes, and from nothing else.  The   *)
(* rules are stated here twice, once as each engine states them.           *)
(*                                                                         *)
(* A tree is what one commit holds:                                        *)
(*   class       the classification of each object (the *_infra.json),     *)
(*   grants      the grants (the *_grants.json),                           *)
(*   exceptions  the ledger (policy_exceptions.json).                      *)
(* Days are natural numbers.                                               *)
(***************************************************************************)
EXTENDS Integers, Sequences

CONSTANTS
    Object,       \* the securables grants are made on
    TypeOf,       \* Object -> "external_location" | "catalog" | ...
    CatalogOf,    \* Object -> the part of its name before the first dot
    Federated,    \* the objects of FEDERATED catalogs
    Catalogs,     \* every declared catalog, [name, owner], in the order read
    Nobody,       \* the owner of a catalog that declares none, and the
                  \* principal of a finding about an object
    Principal,
    Admins,       \* the platform administrators
    Everyone      \* the principals that mean "all users", in any letter case

ASSUME PrincipalAssumption ==
    /\ Admins \subseteq Principal
    /\ Everyone \subseteq Principal
    /\ Nobody \notin Principal

ASSUME CatalogAssumption ==
    Catalogs \in Seq([name : STRING, owner : Principal \cup {Nobody}])

Classification == <<"public", "internal", "confidential", "pii">>
(* An object no infra file declares has the class "absent". *)
Classes == {"absent", "none", "public", "internal", "confidential", "pii"}

DATA_READ_PRIVILEGES == {"SELECT", "READ_VOLUME", "READ_FILES"}
WRITE_PRIVILEGES ==
    {"MODIFY", "WRITE_VOLUME", "WRITE_FILES", "CREATE_TABLE",
     "CREATE_EXTERNAL_TABLE", "CREATE_EXTERNAL_VOLUME"}

(* A classification outside the taxonomy ranks below every one in it. *)
Rank(c) ==
    IF \E i \in DOMAIN Classification : Classification[i] = c
    THEN CHOOSE i \in DOMAIN Classification : Classification[i] = c
    ELSE 0

IsSensitive(c) == Rank(c) >= Rank("confidential")

-----------------------------------------------------------------------------
(* The analyzer. *)

(* The owner of an object's catalog.  The lookup table is filled in the     *)
(* order the domain files are read and every catalog writes its entry, an   *)
(* unowned one too, so the last catalog of a name decides.                  *)
OwnerOf(o) ==
    LET named == {i \in DOMAIN Catalogs : Catalogs[i].name = CatalogOf[o]}
    IN  IF named = {} THEN Nobody
        ELSE Catalogs[CHOOSE i \in named : \A j \in named : j <= i].owner

Trusted(g) == g.principal \in Admins \/ g.principal = OwnerOf(g.object)

(* The rules on one grant. *)
Flagged(rule, class, g) ==
    LET pii == class[g.object] = "pii" /\ g.principal \notin Admins
        all == "ALL_PRIVILEGES" \in g.privileges /\ ~Trusted(g)
    IN  \/ rule = "PUBLIC_PRINCIPAL" /\ g.principal \in Everyone
        \/ /\ rule = "PII_BROAD_READ" /\ pii
           /\ g.privileges \cap DATA_READ_PRIVILEGES # {}
        \/ /\ rule = "PII_WRITE" /\ pii
           /\ g.privileges \cap (WRITE_PRIVILEGES \cup {"ALL_PRIVILEGES"}) # {}
        \/ /\ rule = "SENSITIVE_ALL_PRIVILEGES" /\ all
           /\ IsSensitive(class[g.object])
        \/ /\ rule = "MANAGE_NONADMIN"
           /\ "MANAGE" \in g.privileges /\ ~Trusted(g)
        \/ /\ rule = "ALL_PRIVILEGES_NONADMIN" /\ all
           /\ ~IsSensitive(class[g.object])

(* The rules on one object; their findings name no principal. *)
ObjectFlagged(rule, class, o) ==
    \/ /\ rule = "UNCLASSIFIED_SCHEMA"
       /\ TypeOf[o] = "schema" /\ class[o] = "none"
    \/ /\ rule = "UNOWNED_CATALOG"
       /\ TypeOf[o] = "catalog" /\ OwnerOf(o) = Nobody
    \/ /\ rule = "FEDERATED_PII"
       /\ TypeOf[o] = "schema" /\ class[o] = "pii" /\ o \in Federated

HighRules ==
    {"PUBLIC_PRINCIPAL", "PII_BROAD_READ", "PII_WRITE",
     "SENSITIVE_ALL_PRIVILEGES"}

AllRules ==
    HighRules \cup
    {"MANAGE_NONADMIN", "ALL_PRIVILEGES_NONADMIN", "UNCLASSIFIED_SCHEMA",
     "UNOWNED_CATALOG", "FEDERATED_PII"}

(* A finding is its key: two findings of one key are reported twice and     *)
(* accepted or not together.                                               *)
FindingKey ==
    [rule : AllRules, object : Object, principal : Principal \cup {Nobody}]

Analyze(t) ==
    {f \in FindingKey :
        \/ \E g \in t.grants : /\ f.object = g.object
                               /\ f.principal = g.principal
                               /\ Flagged(f.rule, t.class, g)
        \/ f.principal = Nobody /\ ObjectFlagged(f.rule, t.class, f.object)}

(* An expiry is a date, absent, or a text that is no date. *)
Date(d)   == [form |-> "date", day |-> d]
NoExpiry  == [form |-> "none", day |-> 0]
Malformed == [form |-> "malformed", day |-> 0]
Expiry    == [form : {"date", "none", "malformed"}, day : Nat]

(* Mistake: lapsing on the last day already. *)
IsExpiredEarly(e, today) ==
    CASE e.expires.form = "none" -> FALSE
      [] e.expires.form = "date" -> e.expires.day <= today
      [] OTHER -> TRUE

(* An exception holds through its last day; no date never lapses; what is   *)
(* not a date has lapsed already.                                          *)
IsExpired(e, today) ==
    CASE e.expires.form = "none" -> FALSE
      [] e.expires.form = "date" -> e.expires.day < today
      [] OTHER -> TRUE

Accepted(t, f, today) ==
    \E e \in t.exceptions : e.finding = f /\ ~IsExpired(e, today)

Gating(t, today) ==
    {f \in Analyze(t) : f.rule \in HighRules /\ ~Accepted(t, f, today)}

(* What --warn-expiring lists: the lapsed, the malformed, and the dates at  *)
(* most `within' days ahead.                                               *)
Expiring(t, within, today) ==
    {e \in t.exceptions :
        \/ e.expires.form = "malformed"
        \/ e.expires.form = "date" /\ e.expires.day - today <= within}

-----------------------------------------------------------------------------
(* The grounding pack: the access matrix with each grant's classification,  *)
(* and the findings with what the analyzer made of the exceptions on the    *)
(* day it was written.                                                     *)
Context(t, today) ==
    [access |->
        {[object |-> g.object, principal |-> g.principal,
          privileges |-> g.privileges, class |-> t.class[g.object]] :
            g \in t.grants},
     findings |->
        {[key |-> f, accepted |-> Accepted(t, f, today)] : f \in Analyze(t)}]

-----------------------------------------------------------------------------
(* The Rego policy: the same four rules, from the grounding pack alone. *)

(* A mistake: the writes of the analyzer's table without ALL_PRIVILEGES. *)
rego_write_table_only == WRITE_PRIVILEGES

rego_write_privileges == WRITE_PRIVILEGES \cup {"ALL_PRIVILEGES"}
sensitive_classes == {"confidential", "pii"}

(* owner[name]: every catalog that declares an owner writes an entry. *)
rego_is_owner(a) ==
    \E i \in DOMAIN Catalogs :
        /\ Catalogs[i].name = CatalogOf[a.object]
        /\ Catalogs[i].owner # Nobody
        /\ Catalogs[i].owner = a.principal

rego_accepted(ctx, rule, a) ==
    \E f \in ctx.findings :
        /\ f.key.rule = rule
        /\ f.key.object = a.object /\ f.key.principal = a.principal
        /\ f.accepted

rego_violates(rule, a) ==
    \/ rule = "PUBLIC_PRINCIPAL" /\ a.principal \in Everyone
    \/ /\ rule = "PII_BROAD_READ"
       /\ a.class = "pii" /\ a.principal \notin Admins
       /\ \E p \in a.privileges : p \in DATA_READ_PRIVILEGES
    \/ /\ rule = "PII_WRITE"
       /\ a.class = "pii" /\ a.principal \notin Admins
       /\ \E p \in a.privileges : p \in rego_write_privileges
    \/ /\ rule = "SENSITIVE_ALL_PRIVILEGES"
       /\ a.class \in sensitive_classes
       /\ "ALL_PRIVILEGES" \in a.privileges
       /\ a.principal \notin Admins /\ ~rego_is_owner(a)

Deny(ctx) ==
    {f \in [rule : HighRules, object : Object, principal : Principal] :
        \E a \in ctx.access :
            /\ f.object = a.object /\ f.principal = a.principal
            /\ rego_violates(f.rule, a)
            /\ ~rego_accepted(ctx, f.rule, a)}

(* Two catalogs of one name with different owners make the owner table      *)
(* inconsistent, and the evaluation fails instead of answering.             *)
rego_conflict ==
    \E i, j \in DOMAIN Catalogs :
        /\ Catalogs[i].name = Catalogs[j].name
        /\ Catalogs[i].owner # Catalogs[j].owner
        /\ Nobody \notin {Catalogs[i].owner, Catalogs[j].owner}

-----------------------------------------------------------------------------
(* Types of trees. *)

Grant == [object : Object, principal : Principal, privileges : SUBSET STRING]
ExceptionRecord == [finding : FindingKey, expires : Expiry]
Tree ==
    [class : [Object -> Classes], grants : SUBSET Grant,
     exceptions : SUBSET ExceptionRecord]

(* Every catalog name is declared once.  The validator checks this inside   *)
(* one domain file, not across files.                                       *)
UniqueCatalogs ==
    \A i, j \in DOMAIN Catalogs :
        Catalogs[i].name = Catalogs[j].name => i = j
=============================================================================
