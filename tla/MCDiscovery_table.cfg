SPECIFICATION Spec
CONSTANTS
    a = a
    b = b
    c = c
    Node = {a, b, c}
    None = None
    Local = Local
    BucketOf <- OneBucket
    MAX_NODES_PER_BUCKET = 1
    MAX_NUMBER_OF_REPLACEMENTS = 2
    LivenessModulus = 3
    Ping = {p}
    Lookup = {}
    Bootnodes <- NoBootnodes
    Neighbors <- NoMessages
    Alpha = 1
    Revalidated = 1
INVARIANTS
    KnownOnce
    PingedStay
    EndpointProof
PROPERTIES
    AnsweredKept
SYMMETRY Interchangeable
