----------------------------- MODULE RlpParser -----------------------------
(***************************************************************************)
(* The streaming parser of a transaction (src/eth/rlp_parser.c) with the   *)
(* decoding of RLP headers it uses (src/eth/ethUtils.c).  The host cuts    *)
(* the RLP stream into chunks as it likes; process_tx_chunk works through  *)
(* a chunk, hashing what it reads, and parser_context carries whatever is  *)
(* half read to the next call: a header of up to five bytes, or a field.   *)
(*                                                                         *)
(* Each action is one turn of the loop of processTxInternal or of the loop *)
(* of parseRLP.  Memory is modelled as the cells written: an array of      *)
(* transaction_t is a function whose domain is the indices stored to.      *)
(***************************************************************************)
EXTENDS TxPhases, Integers, Sequences

CONSTANTS
  Streams,          \* the byte sequences the host may send
  MaxChunk,         \* bound: bytes in a chunk
  MAX_INT256,       \* sizes of the arrays in transaction_t
  MAX_ADDRESS,
  SELECTOR_LENGTH,
  V_SIZE

Bytes == 0..255

ASSUME StreamsAssumption == Streams \subseteq Seq(Bytes)
ASSUME SizesAssumption ==
  /\ MaxChunk \in Nat
  /\ MAX_INT256 \in 1..255 /\ MAX_ADDRESS \in 1..255
  /\ SELECTOR_LENGTH \in 1..255 /\ V_SIZE \in 1..255

VARIABLES
  stream,        \* what the host sends, over all chunks
  limit,         \* bytes of it delivered so far
  work,          \* bytes of it ahead of workBuffer
  pc,            \* "wait" for a chunk, "loop" head, "field" header just read
  result,        \* what process_tx_chunk returned last
  entry,         \* phase, data flag and bytes at hand when it was called
  currentField,
  fieldLength, fieldPos, isList, processing, single,   \* currentField*, ...
  rlpBuffer,     \* the header bytes read so far
  dataLength,    \* length of the list
  hashed,        \* what went into the hash, in order
  cells,         \* the arrays of transaction_t
  lengths,       \* their length members
  dataPresent

position == << limit, work >>
control  == << pc, result, entry >>
header   == << fieldLength, isList, single, rlpBuffer >>
content  == << cells, lengths, dataPresent >>
vars == << stream, position, control, header, currentField, fieldPos,
           processing, dataLength, hashed, content >>

-----------------------------------------------------------------------------
\* rlp_conflux_tx_field_e.
FieldNames ==
  << "content", "nonce", "gasprice", "gaslimit", "to", "value",
     "storagelimit", "epochheight", "chainid", "data", "v", "r", "s" >>
V    == 11
DONE == 14

Numbers == { "nonce", "gasprice", "gaslimit", "value",
             "storagelimit", "epochheight", "chainid" }
Arrays  == Numbers \cup { "to", "data", "v" }

SizeOf(f) ==
  CASE f \in Numbers -> MAX_INT256
    [] f = "to"      -> MAX_ADDRESS
    [] f = "data"    -> SELECTOR_LENGTH
    [] OTHER         -> V_SIZE

Field == IF currentField \in DOMAIN FieldNames THEN FieldNames[currentField] ELSE "done"

PhaseOf(i) ==
  IF i < V THEN "head" ELSE IF i = V THEN "v" ELSE IF i < DONE THEN "tail" ELSE "done"

Least(m, n) == IF m <= n THEN m ELSE n

commandLength == limit - work

-----------------------------------------------------------------------------
\* rlpCanDecode, rlpDecodeLength.

\* Bytes of a header that starts with b.
HeaderLength(b) ==
  IF b <= 183 THEN 1
  ELSE IF b <= 191 THEN 1 + (b - 183)
  ELSE IF b <= 247 THEN 1
  ELSE 1 + (b - 247)

CanDecode(buf) == Len(buf) >= HeaderLength(buf[1])

\* "arbitrary 32 bits length limitation"
ValidHeader(buf) == buf[1] \notin 188..191 \cup 252..255

SelfEncoded(buf) == buf[1] <= 127
IsListHeader(buf) == buf[1] >= 192

\* The length in the bytes after the first, big endian.
LongLength(buf) ==
  CASE HeaderLength(buf[1]) = 2 -> buf[2]
    [] HeaderLength(buf[1]) = 3 -> 256 * buf[2] + buf[3]
    [] HeaderLength(buf[1]) = 4 -> 256 * (256 * buf[2] + buf[3]) + buf[4]
    [] OTHER -> 256 * (256 * (256 * buf[2] + buf[3]) + buf[4]) + buf[5]

DecodeLength(buf) ==
  IF SelfEncoded(buf) THEN 1
  ELSE IF HeaderLength(buf[1]) > 1 THEN LongLength(buf)
  ELSE IF IsListHeader(buf) THEN buf[1] - 192 ELSE buf[1] - 128

-----------------------------------------------------------------------------
Leave(status) == pc' = "wait" /\ result' = status /\ UNCHANGED entry

\* THROW, or a fault reported by the loop: the call ends.
Fault ==
  /\ Leave("FAULT")
  /\ UNCHANGED << stream, limit, currentField, fieldPos, processing,
                  dataLength, content >>

\* process_tx_chunk with the next n bytes.
Chunk(n) ==
  /\ pc = "wait"
  /\ result # "FAULT"
  /\ limit + n <= Len(stream)
  /\ work' = limit
  /\ limit' = limit + n
  /\ pc' = "loop"
  /\ entry' = [phase |-> PhaseOf(currentField), n |-> n, data |-> dataPresent]
  /\ UNCHANGED << stream, result, header, currentField, fieldPos, processing,
                  dataLength, hashed, content >>

\* A seeded fault: the cut ahead of v, r, s is made ahead of r or s as well.
SkippableAll == currentField >= V

Skippable == currentField = V

\* The checks at the head of the loop that end the call.
Stop ==
  /\ pc = "loop"
  /\ \/ /\ currentField = DONE
        /\ Leave("FINISHED")
        /\ UNCHANGED lengths
     \/ /\ currentField # DONE /\ commandLength = 0 /\ Skippable
        /\ Leave("FINISHED")
        /\ lengths' = [lengths EXCEPT !["v"] = 0]
     \/ /\ currentField # DONE /\ commandLength = 0 /\ ~Skippable
        /\ Leave("PROCESSING")
        /\ UNCHANGED lengths
  /\ UNCHANGED << stream, position, header, currentField, fieldPos, processing,
                  dataLength, hashed, cells, dataPresent >>

Reading == pc = "loop" /\ currentField # DONE /\ commandLength > 0

\* A seeded fault: no check that the header fits rlpBuffer.
NeverFull(buf) == FALSE

\* rlpBufferPos == sizeof(rlpBuffer)
BufferFull(buf) == Len(buf) = 5

\* One byte in parseRLP.
ReadHeader ==
  /\ Reading
  /\ ~processing
  /\ LET buf == Append(rlpBuffer, stream[work + 1])
     IN /\ hashed' = Append(hashed, stream[work + 1])
        /\ \/ /\ CanDecode(buf) /\ ValidHeader(buf)
              /\ pc' = "field"
              /\ fieldLength' = DecodeLength(buf)
              /\ isList' = IsListHeader(buf)
              /\ single' = SelfEncoded(buf)
              /\ rlpBuffer' = << >>
              /\ fieldPos' = 0
              /\ processing' = TRUE
              \* a byte that encodes itself is put back
              /\ work' = IF SelfEncoded(buf) THEN work ELSE work + 1
              /\ UNCHANGED << stream, limit, result, entry, currentField,
                              dataLength, content >>
           \/ /\ IF CanDecode(buf) THEN ~ValidHeader(buf) ELSE BufferFull(buf)
              /\ Fault
              /\ work' = work + 1
              /\ rlpBuffer' = buf
              /\ UNCHANGED << fieldLength, isList, single >>
           \/ /\ ~CanDecode(buf) /\ ~BufferFull(buf)
              /\ rlpBuffer' = buf
              /\ work' = work + 1
              /\ IF commandLength = 1
                 THEN Leave("PROCESSING")
                 ELSE UNCHANGED control
              /\ UNCHANGED << stream, limit, fieldLength, isList, single,
                              currentField, fieldPos, processing, dataLength,
                              content >>

-----------------------------------------------------------------------------
\* processConfluxTx.

InField == pc = "field" \/ (Reading /\ processing)

CopySize == Least(commandLength, fieldLength - fieldPos)

\* A seeded fault: an empty field is never complete.
CompletedByCopy(n) == n > 0 /\ fieldPos + n = fieldLength

Completed(n) == fieldPos + n = fieldLength

NextField ==
  /\ currentField' = currentField + 1
  /\ processing' = FALSE

\* A seeded fault: a byte that was put back is hashed again.
TakeTwice(n) ==
  /\ pc' = "loop"
  /\ work' = work + n
  /\ hashed' = hashed \o SubSeq(stream, work + 1, work + n)
  /\ fieldPos' = fieldPos + n
  /\ IF Completed(n) THEN NextField ELSE UNCHANGED << currentField, processing >>
  /\ UNCHANGED << stream, limit, result, entry, header, dataLength >>

\* copyTxData of n bytes, and the step to the next field.
Take(n) ==
  /\ pc' = "loop"
  /\ work' = work + n
  /\ hashed' = IF single THEN hashed
               ELSE hashed \o SubSeq(stream, work + 1, work + n)
  /\ fieldPos' = fieldPos + n
  /\ IF Completed(n) THEN NextField ELSE UNCHANGED << currentField, processing >>
  /\ UNCHANGED << stream, limit, result, entry, header, dataLength >>

\* n bytes of the chunk stored from index at on.
Write(array, at, n) ==
  [i \in DOMAIN array \cup at..(at + n - 1) |->
     IF i \in at..(at + n - 1) THEN stream[work + 1 + i - at] ELSE array[i]]

LengthMember(f, n) ==
  IF Completed(n) THEN [lengths EXCEPT ![f] = fieldLength % 256] ELSE lengths

ProcessContent ==
  /\ InField /\ Field = "content" /\ isList
  /\ dataLength' = fieldLength
  /\ pc' = "loop"
  /\ NextField
  /\ UNCHANGED << stream, position, result, entry, header, fieldPos, hashed,
                  content >>

\* A seeded fault: a number or address one byte longer than its array passes.
TooLongByOne == Field \in Numbers \cup {"to"} /\ fieldLength > SizeOf(Field) + 1

TooLong == Field \in Numbers \cup {"to"} /\ fieldLength > SizeOf(Field)

WrongField ==
  /\ InField
  /\ IF Field = "content" THEN ~isList ELSE isList \/ TooLong
  /\ Fault
  /\ UNCHANGED << work, hashed, header >>

\* A seeded fault: every piece of a field is stored at its start.
PieceAtStart == 0

\* Where a piece is stored; processNonce does not add currentFieldPos.
PieceOffset == IF Field = "nonce" THEN 0 ELSE fieldPos

\* processNonce .. processChainID, processTo.
ProcessNumber ==
  /\ InField /\ Field \in Numbers \cup {"to"} /\ ~isList /\ ~TooLong
  /\ cells' = [cells EXCEPT ![Field] = Write(@, PieceOffset, CopySize)]
  /\ lengths' = LengthMember(Field, CopySize)
  /\ Take(CopySize)
  /\ UNCHANGED dataPresent

\* A seeded fault: a single zero byte counts as data.
NeverNoData == FALSE

\* "If there is no data, set data_present to false."
NoData == CopySize = 1 /\ stream[work + 1] = 0

\* processData keeps the selector and the length, and whether there is data.
ProcessData ==
  /\ InField /\ Field = "data" /\ ~isList
  /\ IF fieldPos < SELECTOR_LENGTH /\ fieldLength > 0
     THEN /\ lengths' = [lengths EXCEPT !["data"] = fieldLength % 256]
          /\ cells' = [cells EXCEPT !["data"] = Write(@, fieldPos,
               Least(commandLength, Least(fieldLength, SELECTOR_LENGTH - fieldPos)))]
     ELSE UNCHANGED << lengths, cells >>
  /\ dataPresent' = IF fieldPos < fieldLength THEN ~NoData ELSE dataPresent
  /\ Take(CopySize)

\* processV: at most sizeof(v) bytes at a time.
ProcessV ==
  /\ InField /\ Field = "v" /\ ~isList
  /\ LET n == Least(CopySize, V_SIZE)
     IN /\ cells' = [cells EXCEPT !["v"] = Write(@, fieldPos, n)]
        /\ lengths' = LengthMember("v", n)
        /\ Take(n)
  /\ UNCHANGED dataPresent

ProcessAndDiscard ==
  /\ InField /\ Field \in {"r", "s"} /\ ~isList
  /\ Take(CopySize)
  /\ UNCHANGED content

-----------------------------------------------------------------------------
\* init_parser, with transaction_t in a zeroed context.
Init ==
  /\ stream \in Streams
  /\ limit = 0 /\ work = 0
  /\ pc = "wait" /\ result = "PROCESSING"
  /\ entry = [phase |-> "head", n |-> 0, data |-> FALSE]
  /\ currentField = 1
  /\ fieldLength = 0 /\ fieldPos = 0
  /\ isList = FALSE /\ processing = FALSE /\ single = FALSE
  /\ rlpBuffer = << >>
  /\ dataLength = 0
  /\ hashed = << >>
  /\ cells = [f \in Arrays |-> << >>]
  /\ lengths = [f \in Arrays |-> 0]
  /\ dataPresent = FALSE

\* processTxInternal
Parse ==
  \/ Stop \/ ReadHeader \/ WrongField
  \/ ProcessContent \/ ProcessNumber \/ ProcessData \/ ProcessV
  \/ ProcessAndDiscard

Next == Parse \/ \E n \in 0..MaxChunk : Chunk(n)

Spec == Init /\ [][Next]_vars

\* The call runs on by itself; the host owes no further chunk.
FairSpec == Spec /\ WF_vars(Parse)
============================================================================
