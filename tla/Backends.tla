------------------------------ MODULE Backends ------------------------------
(***************************************************************************)
(* The second engine.  Three translations of one set of grants:            *)
(*   scripts/snowflake_backend.py renders fragments and compares what they *)
(*     let a principal do with what the Unity Catalog grants let it do,    *)
(*   snowflake_governance/main.tf renders fragments of its own, merges     *)
(*     them by role, kind and object, and grants the merged ones,          *)
(*   Snowflake grants them, or refuses a statement it does not accept.     *)
(* The comparison never looks at the merged grants, and it spans the domain*)
(* files of every cloud where the one Snowflake unit reads those of one.   *)
(***************************************************************************)
EXTENDS Governance

CONSTANTS
    PrivilegeMap,   \* [type |-> [privilege -> [privileges, scope]]], privilege_map.json
    RoleOf,         \* Principal -> its functional role
    ValidPrivileges,\* [type -> the privileges the validator takes for it]
    OfferedGrants,  \* the grants the translations are compared on
    InUnit          \* the objects of domains/aws/sales_*.json

ASSUME PrivilegeMapAssumption ==
    \A type \in DOMAIN PrivilegeMap : \A p \in DOMAIN PrivilegeMap[type] :
        /\ PrivilegeMap[type][p].privileges \subseteq STRING
        /\ PrivilegeMap[type][p].scope \in {"self", "future_and_existing_tables"}

ASSUME OfferedGrantsAssumption == OfferedGrants \subseteq Grant

ASSUME InUnitAssumption == InUnit \subseteq Object

-----------------------------------------------------------------------------
(* What a privilege lets its holder do, as each engine's classifier has it. *)

Capability == {"read", "write", "admin"}
ADMIN_PRIVILEGES == {"ALL_PRIVILEGES", "MANAGE"}

abstract_capability(p) ==
    {c \in Capability : \/ p = "ALL_PRIVILEGES"
                        \/ c = "read" /\ p \in DATA_READ_PRIVILEGES
                        \/ c = "write" /\ p \in WRITE_PRIVILEGES
                        \/ c = "admin" /\ p \in ADMIN_PRIVILEGES}

SNOWFLAKE_WRITE ==
    {"INSERT", "UPDATE", "DELETE", "TRUNCATE", "WRITE", "CREATE TABLE",
     "CREATE STAGE", "CREATE MATERIALIZED VIEW", "CREATE FUNCTION", "CREATE MODEL"}
SNOWFLAKE_ADMIN == {"APPLY TAG", "APPLYBUDGET", "MANAGE GRANTS", "OWNERSHIP"}

(* USAGE of an external stage loads and unloads; elsewhere it is traversal. *)
snowflake_capability(type, p) ==
    {c \in Capability : \/ p = "ALL PRIVILEGES"
                        \/ c = "read" /\ p \in {"SELECT", "READ"}
                        \/ c # "admin" /\ p = "USAGE" /\ type = "external_location"
                        \/ c = "write" /\ p \in SNOWFLAKE_WRITE
                        \/ c = "admin" /\ p \in SNOWFLAKE_ADMIN}

Conferred(type, privileges) == UNION {snowflake_capability(type, p) : p \in privileges}

-----------------------------------------------------------------------------
(* snowflake_backend.py *)

Mapped(g) ==
    IF TypeOf[g.object] \in DOMAIN PrivilegeMap
    THEN g.privileges \cap DOMAIN PrivilegeMap[TypeOf[g.object]] ELSE {}

Fragment(g, p) == PrivilegeMap[TypeOf[g.object]][p]

(* render_snowflake_grants: every grant of every cloud, a federated        *)
(* catalog's too.                                                          *)
Rendered(grants) ==
    UNION {{[object |-> g.object, principal |-> g.principal,
             privileges |-> Fragment(g, p).privileges] : p \in Mapped(g)} : g \in grants}

effective_access_uc(grants, o, who) ==
    UNION {abstract_capability(p) :
        p \in UNION {g.privileges : g \in {h \in grants : h.object = o /\ h.principal = who}}}

effective_access_snowflake(grants, o, who) ==
    UNION {Conferred(TypeOf[o], f.privileges) :
        f \in {h \in Rendered(grants) : h.object = o /\ h.principal = who}}

(* validate_grants: the object is declared, the privileges are of its type. *)
ValidGrants(t) ==
    \A g \in t.grants : /\ t.class[g.object] # "absent"
                        /\ g.privileges # {}
                        /\ g.privileges \subseteq ValidPrivileges[TypeOf[g.object]]

(* cross_backend_issues: lost fails --check; added is printed. *)
Lost(grants) ==
    {x \in Object \X Principal :
        ~(effective_access_uc(grants, x[1], x[2]) \subseteq
              effective_access_snowflake(grants, x[1], x[2]))}

-----------------------------------------------------------------------------
(* snowflake_governance/main.tf *)

(* What the Snowflake unit grants on: the objects of the one domain it      *)
(* reads, less the federated catalogs, which have no database.             *)
Covered == InUnit \ Federated

(* Where the privileges of a fragment are granted. *)
Kinds(g, p) ==
    IF TypeOf[g.object] # "schema" THEN {TypeOf[g.object]}
    ELSE IF Fragment(g, p).scope = "self" THEN {"schema"}
    ELSE {"schema_tables_all", "schema_tables_future"}

(* raw_grant_instances, one for each entry of a covered object's grants.     *)
Instances(grants) ==
    UNION {UNION {{[grant |-> g, source |-> p, kind |-> k] : k \in Kinds(g, p)} :
                     p \in Mapped(g)} :
             g \in {h \in grants : h.object \in Covered}}

Target(i) ==
    [role |-> RoleOf[i.grant.principal], kind |-> i.kind, object |-> i.grant.object]

(* merge_key is a map keyed by object, principal, privilege and kind: the    *)
(* same key twice is an error of the plan, equal values or not.  Two equal   *)
(* entries, which a set of grants cannot tell apart, are refused there too.  *)
Plannable(grants) ==
    \A i, j \in Instances(grants) :
        /\ i.grant.object = j.grant.object /\ i.grant.principal = j.grant.principal
        /\ i.source = j.source /\ i.kind = j.kind
        => i = j

(* Mistake: the fragments of one target replace each other. *)
merged_privileges_last(grants, target) ==
    LET here == {i \in Instances(grants) : Target(i) = target}
        last == CHOOSE i \in here : TRUE
    IN  Fragment(last.grant, last.source).privileges

(* grant_instances: what the fragments of one target grant together. *)
merged_privileges(grants, target) ==
    UNION {Fragment(i.grant, i.source).privileges :
             i \in {j \in Instances(grants) : Target(j) = target}}

Targets(grants) == {Target(i) : i \in Instances(grants)}

(* Snowflake refuses WRITE on an internal stage without READ beside it. *)
Accepts(target, privileges) ==
    target.kind = "volume" /\ "WRITE" \in privileges =>
        privileges \cap {"READ", "ALL PRIVILEGES"} # {}

Applies(grants) ==
    /\ Plannable(grants)
    /\ \A target \in Targets(grants) : Accepts(target, merged_privileges(grants, target))

(* What a principal can do in the account through its functional role. *)
account_access(grants, o, who) ==
    UNION {Conferred(TypeOf[o], merged_privileges(grants, target)) :
        target \in {m \in Targets(grants) : m.object = o /\ m.role = RoleOf[who]}}

-----------------------------------------------------------------------------
RolesApart == \A p, q \in Principal : RoleOf[p] = RoleOf[q] => p = q

(* main.tf:82, "the exact logic scripts/snowflake_backend.py mirrors": where *)
(* role names keep principals apart and the unit covers the object, the      *)
(* merged grants let a principal do what the Python comparison looked at.    *)
AccountMatchesProof(grants) ==
    RolesApart =>
        \A o \in Covered, who \in Principal :
            account_access(grants, o, who) = effective_access_snowflake(grants, o, who)

(* Every set of the offered grants. *)
OfferedKeepAccess == \A grants \in SUBSET OfferedGrants : AccountMatchesProof(grants)
=============================================================================
