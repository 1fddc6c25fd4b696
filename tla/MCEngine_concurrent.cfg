SPECIFICATION Spec
CONSTANTS
    None = None
    Main = Main
    Block <- ForkBlocks
    Genesis = "g"
    Number <- ForkNumber
    Parent <- ForkParent
    Verdict <- ForkVerdict
    MaxNumber = 2
    Difficulty = 1
    TTD = 1
    Handler = {h1, h2}
    ImportFile <- Orphans
    ForkChoices <- ForkAdoptions
    Faults <- NoFaults
    MaxCrashes = 1
INVARIANTS
    CanonicalComplete
    StoredAncestry
    AckedDurable
    PointersResolve
SYMMETRY Interchangeable
CHECK_DEADLOCK FALSE
