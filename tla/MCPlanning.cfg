CONSTANTS
    Catalogs <- MCCatalogs
    Endpoints <- MCEndpoints
    MaxDepth = 5
    MaxPaths = 3
    FileCounts = {0, 1, 2}
SPECIFICATION Spec
INVARIANTS
    SearchIsExhaustive
    PathsAreBuildable
    PartsCoverThePlan
    ReferencesAreReady
CHECK_DEADLOCK FALSE
