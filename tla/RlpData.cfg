\* Data that arrives in pieces.
CONSTANTS
  Streams <- MCStreams
  Transactions <- MCTransactions
  MaxChunk = 5
  MAX_INT256 = 2
  MAX_ADDRESS = 2
  SELECTOR_LENGTH = 2
  V_SIZE = 2
SPECIFICATION Spec
INVARIANTS
  DataNoticed
CHECK_DEADLOCK FALSE
