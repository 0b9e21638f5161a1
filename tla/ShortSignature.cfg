\* Signatures as in KeyReports.cfg; one request is enough.
CONSTANTS
  WordBits = 16
  ScalarLength = 32
  MAX_DER_SIG_LEN = 72
  Requests <- MCRequests
  SigningScalars <- MCScalars
  PublicKey <- MCPublicKey
  ChainCode <- MCChainCode
  Keccak <- MCKeccak
  PathSize = 35
  AddressSize = 52
  HashSize = 67
  LenStrSize = 6
  MaxRequests = 1
SPECIFICATION Spec
INVARIANT
  SignatureExact
CHECK_DEADLOCK FALSE
