\* A path announced longer than the payload.
CONSTANTS
  Frames <- MCFrames
  Requests <- MCRequests
  BufferSize = 32
  MAX_BIP32_PATH = 2
SPECIFICATION Spec
INVARIANT ShortPathRejected
