SPECIFICATION FairSpec
CONSTANTS
    a = a
    b = b
    c = c
    Node = {a, b}
    None = None
    Local = Local
    BucketOf <- TwoBuckets
    MAX_NODES_PER_BUCKET = 2
    MAX_NUMBER_OF_REPLACEMENTS = 1
    LivenessModulus = 3
    Ping = {}
    Lookup = {l1}
    Bootnodes <- OneBootnode
    Neighbors <- Short
    Alpha = 1
    Revalidated = 1
PROPERTIES
    LookupEnds
INVARIANTS
    ChannelAgrees
