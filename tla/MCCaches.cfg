CONSTANTS
    Spellings = {"a", "A", "old"}
    Names = {"a", "old"}
    Canonical <- MCCanonical
    OwnName <- MCOwnName
    Processes = {"p", "q"}
    Callers = {"p1", "p2"}
    ProcessOf <- MCProcessOf
    Size <- MCSize
    MaxVersion = 2
    Repos = {"steady", "faulty"}
    Syncers = {"s1", "s2"}
    Lists <- MCLists
    Manifests <- MCManifests
    Reliable = {"steady"}
SPECIFICATION Spec
INVARIANTS
    OnlyServedDefinitions
    ClearedIsForgotten
    KeptIsSaved
    AvailableCapsAreSuggested
PROPERTIES
    GoodReposAreSynced
CHECK_DEADLOCK FALSE
