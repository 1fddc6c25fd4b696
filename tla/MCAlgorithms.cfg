SPECIFICATION Spec
CONSTANTS
  BYTE_BITS = 2
  WORD_BYTES = 2
  CodeBytes <- MCCodeBytes
  MaxCode = 4
  PrecompileInputs <- MCPrecompileInputs
  GasLimits <- MCGasLimits
  Estimated <- MCEstimated
  Caps <- MCCaps
  TRANSACTION_GAS = 21
  CALL_STIPEND = 2
  FAILED = FAILED
  RLP_NULL = 6
  SHORT_MAX = 14
  USIZE_BYTES = 2
  IP_BYTES = {2, 4}
  U16_BYTES = 2
  U64_BYTES = 2
  U256_BYTES = 3
  HASH_BYTES = 3
  ADDRESS_LEN = 2
  BLOOM_BYTES = 16
  ID_KEY <- MCIdKey
  MAX_NODE_RECORD_ENCODED_SIZE = 60
  StoredTypes <- MCStoredTypes
  Samples <- MCSamples
  Records <- MCRecords
  DecodedTypes <- MCDecodedTypes
  RlpBytes <- MCRlpBytes
  MaxBytes = 4
  Slots = {1, 2}
  NoAccount = NoAccount
  NoInfo = NoInfo
  EMPTY_CODE = EMPTY_CODE
  Addresses <- MCAddresses
  AccountStates <- MCAccountStates
  GenesisAccounts <- MCGenesisAccounts
INVARIANTS
  WordsExact
  ProgramParses
  PrecompileWithinGas
  
  RlpReadsBack
  StateAsExecuted
  RowsClosed
