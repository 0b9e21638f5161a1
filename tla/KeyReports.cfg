\* Words of 16 bits: the longest prefix is "net65535:".  After the last
\* request nothing is left to do: no deadlock check.
CONSTANTS
  WordBits = 16
  ScalarLength = 32
  MAX_DER_SIG_LEN = 72
  Requests <- MCRequests
  SigningScalars <- MCScalars
  PublicKey <- MCPublicKey
  ChainCode <- MCChainCode
  Keccak <- MCKeccak
  PathSize = 35
  AddressSize = 52
  HashSize = 67
  LenStrSize = 6
  MaxRequests = 2
SPECIFICATION Spec
INVARIANTS
  TypeOK
  PathExact
  AddressesExact
  MessageExact
  FullSignaturesExact
CHECK_DEADLOCK FALSE
