\* Two components at most; any command may follow any other.
CONSTANTS
  Frames <- MCFrames
  Requests <- MCRequests
  BufferSize = 32
  MAX_BIP32_PATH = 2
SPECIFICATION Spec
INVARIANTS
  TypeOK
  OffsetInPayload
  OverreadBounded
  RequestsDecoded
