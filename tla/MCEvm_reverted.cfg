SPECIFICATION Spec
CONSTANTS
  BYTE_BITS = 5
  WORD_BYTES = 3
  MAX_STACK_SIZE = 8
  OFFSETS = 65536
  I64 = 536870912
  ADDRESS_BYTES = 2
  MAX_CODE_SIZE = 24
  MAX_TRANSACTIONS = 2
  NoHash = NoHash
  HashedAddress <- MCHashedAddress
  Worlds <- MCWorlds
  Transactions <- MCTransactions
  Codes <- MCCodes
  Inputs <- MCInputs
  DATA <- MCDATA
PROPERTIES
  RevertedUnchanged
