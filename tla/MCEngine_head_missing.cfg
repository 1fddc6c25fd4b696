SPECIFICATION Spec
CONSTANTS
    None = None
    Main = Main
    Block <- LineBlocks
    Genesis = "g"
    Number <- LineNumber
    Parent <- LineParent
    Verdict <- LineVerdict
    MaxNumber = 2
    Difficulty = 1
    TTD = 1
    Handler = {h1}
    ImportFile <- NoImport
    ForkChoices <- LineAdoptions
    Faults <- NoFaults
    MaxCrashes = 0
INVARIANTS
    LatestAvailable
