CONSTANTS
    Object <- MCObject
    TypeOf <- MCTypeOf
    CatalogOf <- MCCatalogOf
    Federated <- MCFederated
    Catalogs <- MCTwiceDeclared
    Nobody = "nobody"
    Principal <- MCPrincipal
    Admins = {"metastore_admins"}
    Everyone = {"users"}
    FirstTree <- MCFirstTree
    OfferedGrants <- MCGrants
    OfferedExceptions <- MCExceptions
    OfferedClasses <- MCClasses
    WarnWithin = 1
    MaxDay = 1
    MaxCommits = 1
SPECIFICATION Spec
INVARIANTS
    EnginesAgree
CHECK_DEADLOCK FALSE
