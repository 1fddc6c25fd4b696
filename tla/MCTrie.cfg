SPECIFICATION Spec
CONSTANTS
  NIBBLE = {0, 1, 2, 3}
  HASH_LEN = 7
  Paths <- Digests
  ValuesAt <- DigestValuesAt
  MaxUpdates = 4
  MaxRoots = 3
INVARIANTS
  RootCanonical
  CommitsDurable
PROPERTIES
  ReadsAgree
