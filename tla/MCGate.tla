------------------------------- MODULE MCGate -------------------------------
(***************************************************************************)
(* A small repository: one PII schema of a federated catalog, one schema   *)
(* of an owned catalog that may be reclassified, four principals.          *)
(***************************************************************************)
EXTENDS PolicyGate

MCObject == {"crm", "orders"}
MCTypeOf == [o \in MCObject |-> "schema"]
MCCatalogOf == [crm |-> "sales_rds_fed", orders |-> "sales_aws"]
MCFederated == {"crm"}
MCPrincipal == {"metastore_admins", "crm_managers", "sales_owners", "users"}
MCCatalogs ==
    << [name |-> "sales_aws", owner |-> "sales_owners"],
       [name |-> "sales_rds_fed", owner |-> "nobody"] >>

(* The second domain declares sales_aws again, without an owner. *)
MCTwiceDeclared ==
    Append(MCCatalogs, [name |-> "sales_aws", owner |-> "nobody"])

G(o, p, privileges) ==
    [object |-> o, principal |-> p, privileges |-> privileges]
E(rule, o, p, expires) ==
    [finding |-> [rule |-> rule, object |-> o, principal |-> p],
     expires |-> expires]

ReadCrm == G("crm", "crm_managers", {"SELECT", "USE_SCHEMA"})
OwnOrders == G("orders", "sales_owners", {"ALL_PRIVILEGES"})
ShareOrders == G("orders", "users", {"SELECT"})
ServeOrders == G("orders", "crm_managers", {"CREATE_TABLE", "MANAGE"})

Dpia == E("PII_BROAD_READ", "crm", "crm_managers", Date(1))
Mistyped == E("PII_BROAD_READ", "crm", "crm_managers", Malformed)
Standing == E("PUBLIC_PRINCIPAL", "orders", "users", NoExpiry)

MCFirstTree ==
    [class |-> [crm |-> "pii", orders |-> "internal"],
     grants |-> {ReadCrm, OwnOrders},
     exceptions |-> {Dpia}]
MCOneGrant == {ReadCrm}
MCGrants == {ReadCrm, ShareOrders, ServeOrders}
MCExceptions == {Dpia, Standing, Mistyped}
MCSharedTree ==
    [class |-> [crm |-> "pii", orders |-> "internal"],
     grants |-> {OwnOrders, ShareOrders},
     exceptions |-> {Dpia, Standing}]
MCTwoLedgers == {Dpia, Mistyped}
MCOneClass == {<<"orders", "pii">>}
MCClasses == {<<"orders", "confidential">>, <<"orders", "pii">>}
=============================================================================
