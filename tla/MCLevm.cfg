SPECIFICATION Spec
CONSTANTS
  BYTE_BITS = 5
  WORD_BYTES = 3
  USIZE = 32700
  U32 = 1024
  TARGET_BLOB_GAS_PER_BLOCK = 20
  BLOB_GASPRICE_UPDATE_FRACTION = 7
  Setups <- MCSetups
  Keccak <- MCKeccak
PROPERTIES
  GasCharged
  StaticUnchanged
  ExecutionEnds
