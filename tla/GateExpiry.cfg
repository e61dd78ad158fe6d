CONSTANTS
    Object <- MCObject
    TypeOf <- MCTypeOf
    CatalogOf <- MCCatalogOf
    Federated <- MCFederated
    Catalogs <- MCCatalogs
    Nobody = "nobody"
    Principal <- MCPrincipal
    Admins = {"metastore_admins"}
    Everyone = {"users"}
    FirstTree <- MCFirstTree
    OfferedGrants <- MCGrants
    OfferedExceptions <- MCExceptions
    OfferedClasses <- MCClasses
    WarnWithin = 1
    MaxDay = 3
    MaxCommits = 1
SPECIFICATION FairSpec
PROPERTIES
    ExpiryTurnsRed
CHECK_DEADLOCK FALSE
