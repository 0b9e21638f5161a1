--------------------------- MODULE RlpParserProps ---------------------------
(***************************************************************************)
(* What the parser promises for every stream and every way to cut it.      *)
(***************************************************************************)
EXTENDS RlpParser

CONSTANT Transactions     \* what hosts mean by the streams they send

-----------------------------------------------------------------------------
\* RLP, as an encoder sees it.  A transaction is the header of the list and
\* nine strings: each item t.value[i] behind its header t.head[i], at t.at[i]
\* in the stream.  Whatever follows the data is left open.
Items == 1..10

ByteFromEnd(head, i) == IF Len(head) - i >= 2 THEN head[Len(head) - i] ELSE 0

\* The number in the bytes behind the first, of which there are at most four.
BigEndian(head) ==
  256 * (256 * (256 * ByteFromEnd(head, 3) + ByteFromEnd(head, 2)) + ByteFromEnd(head, 1))
    + ByteFromEnd(head, 0)

\* A header for n bytes, with leading zeros or without.
Announces(head, base, n) ==
  \/ n <= 55 /\ head = << base + n >>
  \/ Len(head) \in 2..5 /\ head[1] = base + 54 + Len(head) /\ n = BigEndian(head)

IsString(head, s) ==
  \/ head = << >> /\ Len(s) = 1 /\ s[1] <= 127
  \/ Announces(head, 128, Len(s))

ASSUME TransactionsAssumption ==
  \A t \in Transactions :
    /\ t.head \in [Items -> Seq(Bytes)] /\ t.value \in [Items -> Seq(Bytes)]
    /\ t.list \in Nat /\ Announces(t.head[1], 192, t.list) /\ t.value[1] = << >>
    /\ \A i \in 2..10 : IsString(t.head[i], t.value[i])
    /\ t.at \in [1..11 -> Nat] /\ t.at[1] = 0
    /\ \A i \in Items : t.at[i + 1] = t.at[i] + Len(t.head[i]) + Len(t.value[i])

Encodes(s, t) ==
  /\ t.at[11] <= Len(s)
  /\ \A i \in Items :
       /\ \A j \in DOMAIN t.head[i] : s[t.at[i] + j] = t.head[i][j]
       /\ \A j \in DOMAIN t.value[i] : s[t.at[i] + Len(t.head[i]) + j] = t.value[i][j]

-----------------------------------------------------------------------------
\* The variables keep their types; rlpBuffer holds at most four bytes when
\* another one is to be appended.
TypeOK ==
  /\ stream \in Seq(Bytes)
  /\ limit \in 0..Len(stream)
  /\ work \in 0..limit
  /\ pc \in { "wait", "loop", "field" }
  /\ result \in { "PROCESSING", "FINISHED", "FAULT" }
  /\ entry \in [phase : Phases, n : Nat, data : BOOLEAN]
  /\ currentField \in 1..DONE
  /\ fieldLength \in Nat /\ fieldPos \in Nat
  /\ isList \in BOOLEAN /\ processing \in BOOLEAN /\ single \in BOOLEAN
  /\ rlpBuffer \in Seq(Bytes)
  /\ result # "FAULT" => Len(rlpBuffer) <= 4
  /\ dataLength \in Nat
  /\ hashed \in Seq(Bytes)
  /\ DOMAIN cells = Arrays /\ \A f \in Arrays : DOMAIN cells[f] \subseteq Nat
  /\ lengths \in [Arrays -> Bytes]
  /\ dataPresent \in BOOLEAN

\* What is hashed is the stream itself, each byte once and in order, although
\* parseRLP puts self-encoded bytes back and fields are read in pieces; until
\* the last field is done, nothing that was delivered is missing.
HashIsPrefix ==
  /\ hashed = SubSeq(stream, 1, Len(hashed))
  /\ pc = "wait" /\ result # "FAULT" /\ currentField # DONE => Len(hashed) = limit

\* No number and no address is written outside its array, in whatever pieces
\* it arrives.
CopiesFit ==
  \A f \in Numbers \cup {"to"} : DOMAIN cells[f] \subseteq 0..(SizeOf(f) - 1)

\* Seen by the handlers, each call does what TxPhases says; only a call that
\* starts ahead of V, with data, changes data_present.
KeepsOutcomes ==
  pc = "wait" =>
    /\ [phase |-> PhaseOf(currentField), status |-> result]
         \in TxOutcomes(entry.phase, entry.n)
    /\ entry.phase # "head" \/ entry.n = 0 => dataPresent = entry.data

\* The first n bytes of s are in the array.
StoredUpTo(f, s, n) ==
  \A j \in 1..n : j - 1 \in DOMAIN cells[f] /\ cells[f][j - 1] = s[j]

Holds(f, s) == lengths[f] = Len(s) /\ StoredUpTo(f, s, Len(s))

Finished == pc = "wait" /\ result = "FINISHED"

\* However the stream was cut, a completed transaction holds the numbers, the
\* address and the selector that were sent (the nonce aside); of the length of
\* the data the low byte is kept.
FieldsDecoded ==
  Finished =>
    \A t \in Transactions :
      Encodes(stream, t) =>
        /\ \A i \in 3..9 : Holds(FieldNames[i], t.value[i])
        /\ lengths["data"] = Len(t.value[10]) % 256
        /\ StoredUpTo("data", t.value[10], Least(SELECTOR_LENGTH, Len(t.value[10])))

\* A transaction without data is never taken for one with data.
NoDataSent(t) == t.value[10] \in { << >>, << 0 >> }

PlainTransfersPass ==
  Finished => \A t \in Transactions : Encodes(stream, t) /\ NoDataSent(t) => ~dataPresent

\* Every call returns.
Returns == pc # "wait" ~> pc = "wait"

-----------------------------------------------------------------------------
\* Inductive strengthenings.

\* The field that is being read.
FieldInv ==
  /\ processing => fieldPos <= fieldLength /\ currentField # DONE
  /\ pc = "field" => processing /\ fieldPos = 0
  /\ pc = "field" /\ single => ~isList /\ fieldLength = 1 /\ work < limit
  /\ pc # "field" /\ processing /\ result # "FAULT" => ~single
  /\ pc # "wait" => result # "FAULT"

\* Bytes read: the one put back counts until it is taken.
BytesRead == work + (IF pc = "field" /\ single THEN 1 ELSE 0)

HashInv ==
  /\ Len(hashed) <= Len(stream)
  /\ hashed = SubSeq(stream, 1, Len(hashed))
  /\ result # "FAULT" /\ currentField # DONE =>
       /\ Len(hashed) = BytesRead
       /\ pc = "wait" => work = limit

\* The call under way, against where it started.
CallInv ==
  /\ entry.phase # "none"
  /\ pc # "wait" =>
       /\ PhaseOf(currentField) \in Onwards(entry.phase)
       /\ entry.n = 0 =>
            PhaseOf(currentField) = entry.phase /\ pc = "loop" /\ work = limit
       /\ entry.phase # "head" \/ entry.n = 0 => dataPresent = entry.data

\* Where the parser is in a transaction: in a header or behind one, ...
HeaderPosition(t, i) ==
  /\ work = t.at[i] + Len(rlpBuffer)
  /\ rlpBuffer = << >> \/ Len(rlpBuffer) < Len(t.head[i])
  /\ \A j \in 1..Len(rlpBuffer) : rlpBuffer[j] = t.head[i][j]

ItemPosition(t, i) ==
  /\ work = t.at[i] + Len(t.head[i]) + fieldPos
  /\ rlpBuffer = << >>
  /\ isList = (i = 1)
  /\ IF i = 1 THEN fieldPos = 0 ELSE fieldLength = Len(t.value[i])

Position(t) ==
  currentField \in Items =>
    IF processing THEN ItemPosition(t, currentField) ELSE HeaderPosition(t, currentField)

\* ... and what it has stored of the numbers and the address, ...
NumbersStored(t) ==
  \A i \in 3..9 :
    /\ i < currentField => Holds(FieldNames[i], t.value[i])
    /\ i = currentField /\ processing => StoredUpTo(FieldNames[i], t.value[i], fieldPos)

\* ... of the data, ...
DataStored(t) ==
  LET data == t.value[10] IN
  /\ currentField > 10 \/ data = << >> => lengths["data"] = Len(data) % 256
  /\ currentField > 10 => StoredUpTo("data", data, Least(SELECTOR_LENGTH, Len(data)))
  /\ currentField = 10 /\ processing =>
       /\ StoredUpTo("data", data, Least(SELECTOR_LENGTH, fieldPos))
       /\ fieldPos > 0 => lengths["data"] = Len(data) % 256

\* ... and of the flag, which is set when a call ends behind the header of the data.
FlagKept(t) ==
  NoDataSent(t) =>
    ~dataPresent \/ (currentField = 10 /\ processing /\ fieldPos = 0 /\ Len(t.value[10]) = 1)

Decoding(t) == Position(t) /\ NumbersStored(t) /\ DataStored(t) /\ FlagKept(t)

DecodeInv ==
  /\ result = "FINISHED" => currentField >= V
  /\ result # "FAULT" => \A t \in Transactions : Encodes(stream, t) => Decoding(t)
============================================================================
