SPECIFICATION FairSpec
CONSTANTS
    None = None
    Main = Main
    Block <- FullBlocks
    Genesis = "g"
    Number <- FullNumber
    Parent <- FullParent
    Verdict <- FullVerdict
    MaxNumber = 2
    Difficulty = 1
    TTD = 1
    Handler = {h1}
    ImportFile <- NoImport
    ForkChoices <- FullAdoptions
    Faults <- AllFaults
    MaxCrashes = 0
INVARIANTS
    AnswersHold
PROPERTIES
    ImplementsLinearChain
    ChainGrows
