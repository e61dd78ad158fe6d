----------------------------- MODULE MCArtifacts -----------------------------
(***************************************************************************)
(* Three schemas: the CRM, which holds personal columns whatever is        *)
(* declared, the orders, and one the generator has no columns for, of a    *)
(* domain the Snowflake unit does not read.                                *)
(***************************************************************************)
EXTENDS Artifacts

MCObject == {"crm", "orders", "notes", "landing"}
MCTypeOf == [o \in MCObject |-> IF o = "landing" THEN "volume" ELSE "schema"]
MCCatalogOf == [o \in MCObject |-> "sales"]
MCCatalogs == << [name |-> "sales", owner |-> "owners"] >>
MCPrincipal == {"readers", "owners"}
MCCurated == [crm |-> "personal", orders |-> "plain", notes |-> "generic",
              landing |-> "plain"]
MCGold == [customer_value |-> {"crm", "orders"}]
MCPersonalSchemas == {"crm"}
MCTestedGold == {"customer_value"}
MCInUnit == {"crm", "orders", "landing"}

ReadCrm == [object |-> "crm", principal |-> "readers", privileges |-> {"SELECT"}]
Dpia ==
    [finding |-> [rule |-> "PII_BROAD_READ", object |-> "crm", principal |-> "readers"],
     expires |-> Date(0)]
Spare ==
    [finding |-> [rule |-> "PII_WRITE", object |-> "crm", principal |-> "owners"],
     expires |-> Date(2)]

Base ==
    [class |-> [crm |-> "pii", orders |-> "internal", notes |-> "absent",
                landing |-> "internal"],
     grants |-> {ReadCrm}, exceptions |-> {Dpia, Spare}]
Reclassified == [Base EXCEPT !.class["crm"] = "internal"]
NotesAdded == [Base EXCEPT !.class["notes"] = "pii"]
OrdersDropped == [Base EXCEPT !.class["orders"] = "absent"]
(* The same schema declared internal, and read: green, and not in Snowflake. *)
NotesRead ==
    [Base EXCEPT !.class["notes"] = "internal",
                 !.grants = @ \cup {[ReadCrm EXCEPT !.object = "notes"]}]

(* Another grant in its place: a volume read and written; and one more, of a *)
(* privilege the map leaves out.                                             *)
Landing(privileges) == [object |-> "landing", principal |-> "owners", privileges |-> privileges]
Landed == [Base EXCEPT !.grants = {Landing({"READ_VOLUME", "WRITE_VOLUME"})}]
Unmapped ==
    [Base EXCEPT !.grants = @ \cup {[object |-> "orders", principal |-> "readers",
                                     privileges |-> {"READ_VOLUME"}]}]

MCTrees == {Base, Reclassified, NotesAdded, NotesRead, OrdersDropped, Landed, Unmapped}

(* privilege_map.json, the entries of the privileges granted here. *)
Self(privileges) == [privileges |-> privileges, scope |-> "self"]
OnTables(privileges) == [privileges |-> privileges, scope |-> "future_and_existing_tables"]
MCPrivilegeMap ==
    [schema |-> [SELECT |-> OnTables({"SELECT"}),
                 MODIFY |-> OnTables({"INSERT", "UPDATE", "DELETE", "TRUNCATE"}),
                 CREATE_TABLE |-> Self({"CREATE TABLE"}),
                 USE_SCHEMA |-> Self({"USAGE"})],
     volume |-> [READ_VOLUME |-> Self({"READ"}), WRITE_VOLUME |-> Self({"WRITE"}),
                 ALL_PRIVILEGES |-> Self({"ALL PRIVILEGES"})]]
MCValid ==
    [schema |-> {"SELECT", "MODIFY", "CREATE_TABLE", "USE_SCHEMA", "READ_VOLUME"},
     volume |-> {"READ_VOLUME", "WRITE_VOLUME", "ALL_PRIVILEGES"}]
MCRoleOf == [p \in MCPrincipal |-> <<"dev", p>>]
MCGrants ==
    {ReadCrm, [ReadCrm EXCEPT !.privileges = {"MODIFY", "USE_SCHEMA", "CREATE_TABLE"}],
     [ReadCrm EXCEPT !.principal = "owners"], Landing({"READ_VOLUME"}),
     [ReadCrm EXCEPT !.object = "notes"],
     Landing({"WRITE_VOLUME"}), Landing({"ALL_PRIVILEGES", "READ_VOLUME"}),
     [Landing({"WRITE_VOLUME", "BROWSE"}) EXCEPT !.principal = "readers"]}

MCTexts == UNION {[1..n -> {"'", ";", "--", "break"}] : n \in 0..3}
               \cup {<<"break", " ", "--", ";">>, <<"break", "'", ";", "--">>}

Small == [hours |-> 8, dbu_per_hour |-> 4, power |-> 1, credits |-> 2,
          infra |-> [AWS |-> 5, GCP |-> 6]]
MoreSnowflake == [Small EXCEPT !.credits = 3]
MCCosts == {Small, MoreSnowflake}
MCTables == <<"access_matrix", "pii_map">>

(* Bound: a deploy uses the SQL it checked out and nothing else of the       *)
(* working tree, so deploys are followed only in working trees whose raw     *)
(* data, scripts, metrics, profile and pages have not been touched.          *)
First == MakeAll(Blank, NoRaw, 0)
DeploysAlone ==
    \/ deploy = Idle /\ spaces = 0 /\ \A i \in DOMAIN Tables : live[i] = Gone
    \/ /\ raw = NoRaw /\ work.lint
       /\ work.cost = FirstCost
       /\ \A d \in {"metrics", "costmd", "profile", "dashboard"} : work[d] = First[d]
=============================================================================
