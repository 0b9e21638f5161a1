\* A v longer than its array.
CONSTANTS
  Streams <- MCStreams
  Transactions <- MCTransactions
  MaxChunk = 5
  MAX_INT256 = 2
  MAX_ADDRESS = 2
  SELECTOR_LENGTH = 2
  V_SIZE = 2
SPECIFICATION Spec
INVARIANTS
  VFits
CHECK_DEADLOCK FALSE
