CONSTANTS
    c1 = c1  c2 = c2
    n1 = n1  n2 = n2  n3 = n3
    k1 = k1  k2 = k2
    r1 = r1  r2 = r2
    vCat = vCat  vUser = vUser
    NoValue = NoValue  EmptyObject = EmptyObject
    NoOverride = NoOverride  NoOwner = NoOwner
    Nil = Nil  NoFilter = NoFilter  Absent = Absent
    Catalogs <- MCCatalogs
    Names <- MCNames
    Keys <- MCKeys
    ChartRefs <- MCChartRefs
    CatalogValues <- MCCatalogValues
    UserValues <- MCUserValues
    Entries <- MCEntries
    DefaultCharts <- MCDefaultCharts
    Requests <- MCRequests
    LegacySpecs <- MCLegacySpecs
    InitAD <- MCInitAD
    Periodic = FALSE
    MaxWrites = 3
    MaxEdits = 0
    MaxFailures = 1
    CacheLag = TRUE

SPECIFICATION HSpec

INVARIANT OrphanTrackedUnlessHidden
PROPERTY VersionsLostOnlyToStaleReads

CHECK_DEADLOCK FALSE
