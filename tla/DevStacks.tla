----------------------------- MODULE DevStacks ------------------------------
(***************************************************************************)
(* The units of the dev environment, cloud by cloud: the directory each is *)
(* deployed with, the units whose outputs its `dependency` blocks read, the*)
(* units its `dependencies` block only orders it after, and the units whose*)
(* secret its locals fetch with run_cmd when the file is parsed.           *)
(* Dependencies on the bootstrap stack are left out: it is applied once,   *)
(* before any cloud, and no workflow destroys it.                          *)
(***************************************************************************)

(* Directories in the order of the deploy loop. *)
foundation == 1
network == 2
security == 3
storage == 4
integration == 5
data_platform == 6

UnitAt(dir, outputs, after, secrets) ==
    [dir |-> dir, outputs |-> outputs, after |-> after, secrets |-> secrets]

-----------------------------------------------------------------------------
(* AWS *)

aws_foundation == UnitAt(foundation, {}, {}, {})
aws_network == UnitAt(network, {}, {}, {})
aws_secrets_manager == UnitAt(security, {}, {}, {})
aws_iam == UnitAt(security, {"foundation", "secrets_manager"}, {}, {})
aws_rds == UnitAt(storage, {"network", "secrets_manager"}, {}, {"secrets_manager"})
aws_rds_schemas == UnitAt(storage, {"rds", "secrets_manager"}, {}, {"secrets_manager"})
aws_integration ==
    UnitAt(integration, {"network", "iam", "secrets_manager", "rds"}, {}, {})
aws_dbx_creds == UnitAt(data_platform, {"iam"}, {}, {})
aws_dbx_rds_connector ==
    UnitAt(data_platform, {"integration", "rds", "secrets_manager"}, {}, {"secrets_manager"})
aws_dbx_governance ==
    UnitAt(data_platform, {"foundation", "dbx_creds", "dbx_rds_connector"}, {}, {})
aws_dbx_rds_grants == UnitAt(data_platform, {}, {"dbx_governance", "rds_schemas"}, {})
aws_snowflake_governance == UnitAt(data_platform, {}, {}, {})

AwsStack ==
    [foundation |-> aws_foundation, network |-> aws_network,
     secrets_manager |-> aws_secrets_manager, iam |-> aws_iam,
     rds |-> aws_rds, rds_schemas |-> aws_rds_schemas, integration |-> aws_integration,
     dbx_creds |-> aws_dbx_creds, dbx_rds_connector |-> aws_dbx_rds_connector,
     dbx_governance |-> aws_dbx_governance, dbx_rds_grants |-> aws_dbx_rds_grants,
     snowflake_governance |-> aws_snowflake_governance]

-----------------------------------------------------------------------------
(* Azure *)

azure_foundation == UnitAt(foundation, {}, {}, {})
azure_network == UnitAt(network, {"foundation"}, {}, {})
azure_security == UnitAt(security, {"foundation"}, {}, {})
azure_mssql == UnitAt(storage, {"foundation"}, {}, {})
azure_mssql_schemas == UnitAt(storage, {"foundation", "mssql"}, {}, {})
azure_integration == UnitAt(integration, {"foundation", "network", "mssql"}, {}, {})
azure_dbx_creds == UnitAt(data_platform, {"foundation", "security"}, {}, {})
azure_dbx_mssql_connector == UnitAt(data_platform, {"foundation", "mssql"}, {}, {})
azure_dbx_governance ==
    UnitAt(data_platform, {"foundation", "dbx_creds", "dbx_mssql_connector"}, {}, {})
azure_dbx_mssql_grants ==
    UnitAt(data_platform, {"dbx_mssql_connector"},
           {"dbx_governance", "mssql_schemas", "integration"}, {})

AzureStack ==
    [foundation |-> azure_foundation, network |-> azure_network,
     security |-> azure_security, mssql |-> azure_mssql,
     mssql_schemas |-> azure_mssql_schemas, integration |-> azure_integration,
     dbx_creds |-> azure_dbx_creds, dbx_mssql_connector |-> azure_dbx_mssql_connector,
     dbx_governance |-> azure_dbx_governance, dbx_mssql_grants |-> azure_dbx_mssql_grants]

-----------------------------------------------------------------------------
(* GCP *)

gcp_foundation == UnitAt(foundation, {}, {}, {})
gcp_network == UnitAt(network, {}, {}, {})
gcp_security == UnitAt(security, {"foundation"}, {}, {})
gcp_storage == UnitAt(storage, {}, {}, {})
gcp_integration == UnitAt(integration, {"foundation", "network"}, {}, {})
gcp_dbx_creds == UnitAt(data_platform, {"foundation"}, {}, {})
gcp_dbx_bq_connector == UnitAt(data_platform, {"security"}, {}, {})
gcp_dbx_governance ==
    UnitAt(data_platform, {"foundation", "dbx_creds", "dbx_bq_connector"}, {}, {})
gcp_dbx_bq_grants ==
    UnitAt(data_platform, {"dbx_bq_connector"}, {"dbx_governance", "storage"}, {})
(* It also follows the AWS dbx_governance, a unit of another stack. *)
gcp_dbx_delta_sharing == UnitAt(data_platform, {}, {"dbx_governance"}, {})
gcp_dbx_bq_federation_aws == UnitAt(data_platform, {"security", "integration"}, {}, {})

GcpStack ==
    [foundation |-> gcp_foundation, network |-> gcp_network, security |-> gcp_security,
     storage |-> gcp_storage, integration |-> gcp_integration,
     dbx_creds |-> gcp_dbx_creds, dbx_bq_connector |-> gcp_dbx_bq_connector,
     dbx_governance |-> gcp_dbx_governance, dbx_bq_grants |-> gcp_dbx_bq_grants,
     dbx_delta_sharing |-> gcp_dbx_delta_sharing,
     dbx_bq_federation_aws |-> gcp_dbx_bq_federation_aws]

DevStack == [aws |-> AwsStack, azure |-> AzureStack, gcp |-> GcpStack]
=============================================================================
