CONSTANTS
    Args <- MCArgs
    CapTexts <- MCCapTexts
    MediaTexts <- MCMediaTexts
    Headers <- MCHeaders
    NodeNames = {n1, n2, n3, n4}
    LoopAliases = {"h"}
    MaxSources <- MCMaxSources
    MaxWirings = 3
    MaxSteps = 5
SYMMETRY NameSymmetry
SPECIFICATION Spec
INVARIANTS
    RoundTrip
    OrderDoesNotMatter
    GraphFollowsMachine
CHECK_DEADLOCK FALSE
