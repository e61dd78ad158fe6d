CONSTANTS
    Object <- MCObject
    TypeOf <- MCTypeOf
    CatalogOf <- MCCatalogOf
    Federated <- MCFederated
    Catalogs <- MCCatalogs
    Nobody = "nobody"
    Principal <- MCPrincipal
    Admins = {"metastore_admins"}
    Everyone = {"users"}
    FirstTree <- MCSharedTree
    OfferedGrants <- MCOneGrant
    OfferedExceptions <- MCTwoLedgers
    OfferedClasses <- MCOneClass
    WarnWithin = 0
    MaxDay = 3
    MaxCommits = 3
SPECIFICATION FairSpec
INVARIANTS
    TypeOK
    EnginesAgree
    LapseIsAnnounced
    GreenBadgeIsHonest
PROPERTIES
    GreenMergeStaysGreen BrokenPushShows
CHECK_DEADLOCK FALSE
