---------------------------- MODULE MCRlpParser ----------------------------
(***************************************************************************)
(* Streams for TLC: transactions, encoded canonically and otherwise, and   *)
(* sequences that are no transaction.                                      *)
(***************************************************************************)
EXTENDS RlpParserProps, SequencesExt

\* Headers of strings, canonical and with the length in one or two bytes of
\* its own; and of lists.
Head1(s) == IF Len(s) = 1 /\ s[1] <= 127 THEN << >> ELSE << 128 + Len(s) >>
LongHead(s) == << 184, Len(s) >>
WideHead(s) == << 185, 0, Len(s) >>

List(n)     == << 192 + n >>
LongList(n) == << 248, n >>
WideList(n) == << 251, 0, 0, 0, n >>

Str(s) == Head1(s) \o s

\* Fields that are not varied are the number 1 or empty, the others are varied
\* with what follows them.
Values(nonce, to, data) ==
  << << >>, nonce, << 1 >>, << 1 >>, to, << 200, 7 >>, << >>, << 1 >>, << 4, 5 >>, data >>

Total(sequences) == FoldSeq(LAMBDA s, n : Len(s) + n, 0, sequences)

\* head is used for the address, the chain id and the data.
Laid(value, head(_), listHead(_), rest) ==
  LET heads  == [i \in 2..10 |->
                   IF i \in { 5, 9, 10 } THEN head(value[i]) ELSE Head1(value[i])]
      length == Total(value) + Total([i \in 1..9 |-> heads[i + 1]]) + Len(rest)
      all    == [i \in Items |-> IF i = 1 THEN listHead(length) ELSE heads[i]]
  IN [ head |-> all \o << >>, value |-> value, list |-> length, rest |-> rest,
       at |-> [i \in 1..11 |-> Total(SubSeq(all, 1, i - 1)) + Total(SubSeq(value, 1, i - 1))]
                \o << >> ]

Encodings(value, rest) ==
  { Laid(value, Head1, List, rest), Laid(value, LongHead, LongList, rest),
    Laid(value, WideHead, WideList, rest) }

One == Values(<< 5 >>, << >>, << >>)

VRS == Str(<< 27 >>) \o Str(<< 1, 2 >>) \o Str(<< >>)

\* The last ones: v longer than its array; bytes behind the end; a list longer
\* than announced.
MCTransactions ==
  UNION { Encodings(Values(nonce, to, << >>), << >>) :
            nonce \in { << >>, << 5 >>, << 1, 200 >> }, to \in { << >>, << 9, 0 >> } }
  \cup
  UNION { Encodings(Values(<< >>, << >>, data), rest) :
            data \in { << >>, << 0 >>, << 7 >>, << 7, 0 >>, << 0, 7, 8 >> },
            rest \in { << >>, VRS } }
  \cup
  { Laid(One, Head1, List, Str(<< 1, 2, 3 >>)),
    Laid(One, Head1, List, << 1, 1, 1, 9, 9 >>),
    [Laid(One, Head1, LAMBDA n : List(1), << >>) EXCEPT !.list = 1] }

StreamOf(t) == FlattenSeq([i \in Items |-> t.head[i] \o t.value[i]]) \o t.rest

\* Not a list; a list for a number; a number and an address too long; lengths
\* of more than 32 bits.
Others ==
  { << 5, 5 >>,
    << 195, 5, 193, 1 >>,
    << 196, 131, 1, 2, 3 >>,
    << 199, 5, 1, 1, 131, 1, 2, 3 >>,
    << 191, 0, 0, 0, 0, 0 >>,
    << 193, 188, 0, 0, 0, 0, 1 >> }

MCStreams == { StreamOf(t) : t \in MCTransactions } \cup Others

-----------------------------------------------------------------------------
\* Claims the code does not keep.

\* The same transaction sent in two chunks (COMMANDS.md) has the same nonce.
NonceDecoded ==
  Finished => \A t \in Transactions : Encodes(stream, t) => Holds("nonce", t.value[2])

\* data_present is false only for a transaction without data.
DataNoticed ==
  Finished => \A t \in Transactions : Encodes(stream, t) /\ ~NoDataSent(t) => dataPresent

\* "Make sure we do not copy more than the size of v."
VFits == DOMAIN cells["v"] \subseteq 0..(V_SIZE - 1)
============================================================================
