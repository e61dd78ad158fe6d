SPECIFICATION Spec
CONSTANTS
    Object <- MCObject
    TypeOf <- MCTypeOf
    CatalogOf <- MCCatalogOf
    Federated = {}
    Catalogs <- MCCatalogs
    Nobody = "nobody"
    Principal <- MCPrincipal
    Admins = {}
    Everyone = {}
    Curated <- MCCurated
    GoldFrom <- MCGold
    PrivilegeMap <- MCPrivilegeMap
    RoleOf <- MCRoleOf
    ValidPrivileges <- MCValid
    OfferedGrants <- MCGrants
    InUnit <- MCInUnit
    PersonalSchemas <- MCPersonalSchemas
    TestedGold <- MCTestedGold
    Conftest = FALSE
    Texts <- MCTexts
    Window = 1
    FirstTree <- Base
    FirstCost <- Small
    OfferedTrees <- MCTrees
    OfferedCosts <- MCCosts
    Tables <- MCTables
    MaxEdits = 1
    MaxDay = 1
CONSTRAINT DeploysAlone
INVARIANT DataIsDeterministic
CHECK_DEADLOCK FALSE
