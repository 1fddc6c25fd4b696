SPECIFICATION Spec
CONSTANTS
  U64 = 1024
  GAS_LIMIT_ADJUSTMENT_FACTOR = 8
  GAS_LIMIT_MINIMUM = 40
  ELASTICITY_MULTIPLIER = 2
  BASE_FEE_MAX_CHANGE_DENOMINATOR = 8
  INITIAL_BASE_FEE = 7
  GAS_LIMIT_BOUND_DIVISOR = 8
  MIN_GAS_LIMIT = 40
  TARGET_BLOB_GAS_PER_BLOCK = 6
  GAS_PER_BLOB = 2
  MAX_BLOB_NUMBER_PER_BLOCK = 6
  DEFAULT_BUILDER_GAS_CEIL = 300
  BLOB_TARGET = 6
  shanghai_time = 2
  cancun_time = 2
  istanbul_block = 1
  MIN_BASE_FEE_PER_BLOB_GAS = 1
  BLOB_BASE_FEE_UPDATE_FRACTION = 8
  TX_GAS_COST = 4
  TX_CREATE_GAS_COST = 10
  TX_DATA_ZERO_GAS_COST = 1
  TX_DATA_NON_ZERO_GAS = 4
  TX_DATA_NON_ZERO_GAS_EIP2028 = 2
  TX_INIT_CODE_WORD_GAS_COST = 1
  MAX_INITCODE_SIZE = 249
  INIT_CODE_WORD = 2
  TX_ACCESS_LIST_ADDRESS_GAS = 3
  TX_ACCESS_LIST_STORAGE_KEY_GAS = 2
  Genesis <- MCGenesis
  GasLimits = {39, 40, 43, 47}
  GasUsed <- MCGasUsed
  Blobs = {0, 6, 7}
  Transactions <- MCTransactions
  MaxTime = 3
INVARIANTS
  BuiltAccepted
  PoolCovered
PROPERTIES
  BaseFeeFollows
  BlobFeeFollows
CHECK_DEADLOCK FALSE
