SPECIFICATION ReadersSpec
CONSTANTS
    None = None
    Main = Main
    Block <- HighBlocks
    Genesis = "g"
    Number <- HighNumber
    Parent <- HighParent
    Verdict <- HighVerdict
    MaxNumber = 2
    Difficulty = 1
    TTD = 2
    Handler = {h1}
    ImportFile <- JustOne
    ForkChoices <- HighAdoptions
    Faults <- NoFaults
    MaxCrashes = 1
    Reader = {r1}
    Queries <- MCQueries
INVARIANTS
    
    Answered
    OneBlock
CHECK_DEADLOCK FALSE
