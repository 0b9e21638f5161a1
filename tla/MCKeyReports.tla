---------------------------- MODULE MCKeyReports ----------------------------
(***************************************************************************)
(* Requests for TLC, with words of 16 bits: network ids around the powers  *)
(* of ten and at the end of a word, paths whose text ends around the end   *)
(* of its field, lengths around 2^15 and signatures with short numbers.    *)
(***************************************************************************)
EXTENDS KeyReportsProps

MCAddress(k) == [i \in 1..20 |-> (k * i * i + 37 * i) % 256]

Usual == << 32812, 33271, 32768, 0, 0 >>

Paths ==
  { Usual, << 0 >>, << 65535 >>, << 9, 10, 32778 >>,
    [i \in 1..10 |-> 0], [i \in 1..10 |-> 1234] }
  \cup { << 65535, 65535, 65535, 65535 >> \o tail : tail \in
           { << 65535 >>, << 65535, 0 >>, << 12345 >>, << 1234, 7 >>, << 1234, 42 >>,
             << 12345, 7 >>, << 123, 12345 >>, << 123, 45 >>, << 1234, 32810 >>,
             << 123, 32775 >>, << 123, 32778 >> } }

Ids == { 0, 1, 2, 9, 10, 11, 99, 100, 503, 999, 1000, 1028, 1029, 1030, 9999,
         10000, 10001, 34464, 65535 }

\* Stand-ins for the curve and the hash.
Sum(path) == FoldSeq(LAMBDA w, sum : (3 * sum + w) % 8191, 0, path)

Keys == [path \in Paths |-> [i \in 1..64 |-> ((Sum(path) + 7) * (i + 3)) % 256]]
MCPublicKey(path) == Keys[path]
MCChainCode(path) == [i \in 1..32 |-> (Sum(path) + i) % 256]
MCKeccak(key) == [i \in 1..32 |-> (key[i] + 5 * key[2 * i] + 61 * i) % 256]

PubkeyRequest(path, display, chaincode, chain) ==
  [ ins |-> "GET_PUBLIC_KEY", path |-> path, display |-> display,
    chaincode |-> chaincode, chain |-> chain ]

TxRequest(path, chainid, destination) ==
  [ ins |-> "SIGN_TX", path |-> path, chainid |-> chainid, destination |-> destination ]

PersonalRequest(path, chain, length, k) ==
  [ ins |-> "SIGN_PERSONAL", path |-> path, chain |-> chain, length |-> length,
    hash |-> [i \in 1..32 |-> (k * i + 11 * k) % 256] ]

MCRequests ==
  { PubkeyRequest(path, TRUE, FALSE, 1029) : path \in Paths }
  \cup { PubkeyRequest(Usual, TRUE, TRUE, id) : id \in Ids }
  \cup { PubkeyRequest(Usual, FALSE, chaincode, 0) : chaincode \in BOOLEAN }
  \cup { TxRequest(Usual, chainid, MCAddress(3)) :
           chainid \in { << >>, << 1 >>, << 0, 1 >>, << 4, 5 >>, << 255, 255 >>,
                         << 1, 4, 5 >>, << 2, 0, 0, 10 >>, << 0, 0, 0, 0, 9 >> } }
  \cup { TxRequest(Usual, << 4, 5 >>, destination) :
           destination \in { << >>, [i \in 1..20 |-> 0], [i \in 1..20 |-> 255] } }
  \cup { PersonalRequest(Usual, 1029, length, 7) :
           length \in { 0, 9, 10, 12345, 32767, 32768, 65535 } }
  \cup { PersonalRequest(<< 0 >>, id, 1, 31) : id \in { 1, 65535 } }

\* Full without and with a sign, and short by one byte.
MCScalars ==
  { [i \in 1..32 |-> 100 + i], [i \in 1..32 |-> 255 - i],
    [i \in 1..32 |-> IF i = 1 THEN 0 ELSE 100] }
============================================================================
