---------------------------- MODULE MCTxDisplay ----------------------------
(***************************************************************************)
(* Transactions for TLC, with numbers of 28 bits in bytes of seven: around *)
(* the powers of two and ten, where carries, digits and lengths change.    *)
(***************************************************************************)
EXTENDS TxDisplayProps

\* n in so many bytes, or in as few as possible.
BytesOf(n, length) ==
  [i \in 1..length |-> (n \div 2^(ByteBits * (length - i))) % 2^ByteBits]

Minimal(n) == BytesOf(n, Min({ k \in 0..INT256_LENGTH : n < 2^(ByteBits * k) }))

Around(n) == { n - 1, n, n + 1 }

Interesting ==
  { 0, 1, 9, 10, 11, 19, 20, 99, 100, 101, 110, 120, 1000, 1230, 10203, 70000,
    98765, 123450, 999999, 1000000, 90000001, 123456789, 2^28 - 1 }
  \cup UNION { Around(2^k) : k \in { 7, 14, 21, 27 } }

Factors == { 0, 1, 127, 999, 16383, 30000 }

Tx(value, gasprice, gaslimit, storagelimit, nonce, chainid) ==
  [ value |-> Minimal(value), gasprice |-> Minimal(gasprice),
    gaslimit |-> Minimal(gaslimit), storagelimit |-> Minimal(storagelimit),
    nonce |-> Minimal(nonce), chainid |-> chainid, data |-> << >> ]

MCTxs ==
  { Tx(n, 1, 1, 0, 0, << 1 >>) : n \in Interesting }
  \cup { Tx(1, 1, n, 0, 12, << 2 >>) : n \in Interesting }
  \cup { Tx(1, 0, 0, 0, n, << 3 >>) : n \in Interesting }
  \cup { Tx(1, a, b, c, 7, << 2 >>) :
           a \in Factors, b \in Factors, c \in { 0, 3, 5000000 } }
  \cup { Tx(1, 0, 0, 0, 1, << n >>) : n \in { 0, 1, 5, 9, 10, 42, 99, 100, 127 } }
  \cup { Tx(1, 0, 0, 0, 1, << n, 77 >>) : n \in { 0, 1, 5, 9 } }
  \cup { [Tx(1, 0, 0, 0, 1, << >>) EXCEPT !.value = BytesOf(n, 4), !.nonce = BytesOf(n, 3)] :
           n \in 0..12 }
  \cup { [Tx(1, 0, 0, 0, 1, << 1 >>) EXCEPT !.data = [i \in 1..n |-> (50 * i) % 128]] :
           n \in { 1, 2, 3, 4, 127, 128, 129, 130, 131 } }

ASSUME PowersOfTen == \A n \in 0..9 : TenTo(n) = 10^n

MCTicker == << 67 >>
============================================================================
