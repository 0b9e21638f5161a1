\* All ways to cut the streams.  After a fault the caller drops the parser.
CONSTANTS
  Streams <- MCStreams
  Transactions <- MCTransactions
  MaxChunk = 8
  MAX_INT256 = 2
  MAX_ADDRESS = 2
  SELECTOR_LENGTH = 2
  V_SIZE = 2
SPECIFICATION FairSpec
INVARIANTS
  TypeOK
  HashIsPrefix
  CopiesFit
  KeepsOutcomes
  FieldsDecoded
  PlainTransfersPass
PROPERTIES
  Returns
CHECK_DEADLOCK FALSE
