-------------------------- MODULE RlpParserProofs ---------------------------
(***************************************************************************)
(* Theorems about the transaction parser, for every set of transactions and *)
(* encodings, every size of the arrays and every cut into chunks.  Types and *)
(* the field being read are inductive together; the hash, the arrays and the *)
(* results of a call each add one invariant on top of them.  The last one, *)
(* DecodeInv, says where in the transaction the parser is and what it has  *)
(* stored of it: the fields that are kept are the fields that were sent.   *)
(***************************************************************************)
EXTENDS RlpParserProps, SequenceTheorems, TLAPS

Typed == TypeOK /\ FieldInv

-----------------------------------------------------------------------------
\* Headers.

\* A header takes one to nine bytes, at most five if it is valid, and the
\* ranges of the first byte that encode themselves, strings and lists are apart.
LEMMA FirstByte ==
  \A b \in Bytes :
    /\ HeaderLength(b) \in 1..9
    /\ b \notin 188..191 \cup 252..255 => HeaderLength(b) <= 5
    /\ b <= 127 => ~(b >= 192)
    /\ b > 127 => b - 128 \in Nat
    /\ b >= 192 => b - 192 \in Nat
    /\ b <= 127 \/ b > 127
BY DEF HeaderLength, Bytes

\* A decodable and valid header yields a natural number, and the number 1 if
\* the byte encodes itself.
LEMMA DecodeLengthType ==
  ASSUME NEW buf \in Seq(Bytes), Len(buf) >= 1,
         CanDecode(buf), ValidHeader(buf)
  PROVE  /\ DecodeLength(buf) \in Nat
         /\ SelfEncoded(buf) => DecodeLength(buf) = 1 /\ ~IsListHeader(buf)
<1>1. \A i \in 1..Len(buf) : buf[i] \in Nat
  <2>1. \A i \in 1..Len(buf) : buf[i] \in Bytes
    OBVIOUS
  <2>2. Bytes \subseteq Nat
    BY DEF Bytes
  <2> QED
    BY <2>1, <2>2
<1>2. buf[1] \in Bytes
  OBVIOUS
<1> DEFINE b == buf[1]
           h == HeaderLength(b)
<1>3. /\ h \in 1..5 /\ h <= Len(buf)
      /\ b <= 127 => ~(b >= 192)
      /\ b > 127 => b - 128 \in Nat
      /\ b >= 192 => b - 192 \in Nat
      /\ b <= 127 \/ b > 127
  <2>1. h <= Len(buf) /\ b \notin 188..191 \cup 252..255
    BY DEF CanDecode, ValidHeader
  <2> QED
    BY <1>2, <2>1, FirstByte, SMTT(30)
<1> DEFINE p == buf[2]
           q == buf[3]
           r == buf[4]
           t == buf[5]
<1>4. /\ h >= 2 => p \in Nat
      /\ h >= 3 => q \in Nat
      /\ h >= 4 => r \in Nat
      /\ h >= 5 => t \in Nat
  <2>1. Len(buf) \in Nat /\ \A i \in 1..5 : h >= i => i \in 1..Len(buf)
    BY <1>3
  <2>2. \A i \in 1..5 : h >= i => buf[i] \in Nat
    BY <1>1, <2>1
  <2> QED
    BY <2>2
<1>5. h > 1 => LongLength(buf) \in Nat
  <2>1. h = 2 => LongLength(buf) = p
    BY DEF LongLength
  <2>2. h = 3 => LongLength(buf) = 256 * p + q
    BY DEF LongLength
  <2>3. h = 4 => LongLength(buf) = 256 * (256 * p + q) + r
    BY DEF LongLength
  <2>4. h = 5 => LongLength(buf) = 256 * (256 * (256 * p + q) + r) + t
    BY DEF LongLength
  <2>5. h \in 1..5
    BY <1>3
  <2> HIDE DEF p, q, r, t, h
  <2> QED
    BY <1>4, <2>1, <2>2, <2>3, <2>4, <2>5
<1>6. SelfEncoded(buf) => DecodeLength(buf) = 1 /\ ~IsListHeader(buf)
  <2>1. SelfEncoded(buf) => DecodeLength(buf) = 1
    BY DEF DecodeLength
  <2>2. SelfEncoded(buf) => ~IsListHeader(buf)
    BY <1>3 DEF SelfEncoded, IsListHeader
  <2> QED
    BY <2>1, <2>2
<1>7. ~SelfEncoded(buf) => DecodeLength(buf) \in Nat
  <2>1. CASE h > 1 /\ ~SelfEncoded(buf)
    BY <1>5, <2>1, Zenon DEF DecodeLength
  <2>2. CASE ~(h > 1) /\ IsListHeader(buf) /\ ~SelfEncoded(buf)
    <3>1. DecodeLength(buf) = b - 192
      BY <2>2, Zenon DEF DecodeLength
    <3>2. b >= 192
      BY <2>2, Zenon DEF IsListHeader
    <3> QED
      BY <1>3, <3>1, <3>2
  <2>3. CASE ~(h > 1) /\ ~IsListHeader(buf) /\ ~SelfEncoded(buf)
    <3>1. DecodeLength(buf) = b - 128
      BY <2>3, Zenon DEF DecodeLength
    <3>2. b > 127
      BY <1>3, <2>3 DEF SelfEncoded
    <3> QED
      BY <1>3, <3>1, <3>2
  <2> QED
    BY <2>1, <2>2, <2>3
<1> QED
  BY <1>6, <1>7

\* Every array has at least one and at most 255 cells.
LEMMA SizesType ==
  \A f \in Arrays : SizeOf(f) \in 1..255
BY SizesAssumption DEF SizeOf, Arrays, Numbers

-----------------------------------------------------------------------------
\* Types.

\* The variables of the parser between two steps, without the transaction.
ControlOK ==
  /\ stream \in Seq(Bytes)
  /\ limit \in 0..Len(stream)
  /\ work \in 0..limit
  /\ pc \in { "wait", "loop", "field" }
  /\ result \in { "PROCESSING", "FINISHED", "FAULT" }
  /\ entry \in [phase : Phases, n : Nat, data : BOOLEAN]
  /\ currentField \in 1..DONE
  /\ fieldLength \in Nat /\ fieldPos \in Nat
  /\ isList \in BOOLEAN /\ processing \in BOOLEAN /\ single \in BOOLEAN
  /\ rlpBuffer \in Seq(Bytes)
  /\ result # "FAULT" => Len(rlpBuffer) <= 4
  /\ dataLength \in Nat
  /\ hashed \in Seq(Bytes)

\* transaction_t.
ContentOK ==
  /\ DOMAIN cells = Arrays /\ \A f \in Arrays : DOMAIN cells[f] \subseteq Nat
  /\ lengths \in [Arrays -> Bytes]
  /\ dataPresent \in BOOLEAN

\* The type invariant is these two.
LEMMA TypeParts == TypeOK <=> ControlOK /\ ContentOK
BY DEF TypeOK, ControlOK, ContentOK

\* While a field is read, its next piece is within the chunk and the field.
LEMMA PieceType ==
  ASSUME Typed, InField
  PROVE  /\ processing /\ currentField \in 1..(DONE - 1)
         /\ fieldPos <= fieldLength /\ commandLength \in Nat
         /\ CopySize \in 0..commandLength
         /\ fieldPos + CopySize <= fieldLength
         /\ single => CopySize = 1 /\ fieldPos = 0 /\ fieldLength = 1 /\ ~isList
                      /\ pc = "field"
BY DEF Typed, TypeOK, FieldInv, InField, Reading, CopySize, Least, commandLength, DONE

\* The bytes of a piece are bytes of the stream.
LEMMA PieceBytes ==
  ASSUME Typed, NEW n \in Nat, n <= commandLength
  PROVE  SubSeq(stream, work + 1, work + n) \in Seq(Bytes)
<1>1. \A i \in work + 1 .. work + n : stream[i] \in Bytes
  BY DEF Typed, TypeOK, commandLength
<1> QED
  BY <1>1, SubSeqProperties DEF Typed, TypeOK

\* Taking a piece keeps the types of everything but the transaction.
LEMMA TakeTyped ==
  ASSUME Typed, InField, NEW n \in Nat, n <= CopySize, single => n = 1, Take(n)
  PROVE  ControlOK' /\ FieldInv'
<1>1. hashed' \in Seq(Bytes)
  <2>1. SubSeq(stream, work + 1, work + n) \in Seq(Bytes)
    BY PieceBytes, PieceType DEF commandLength
  <2> QED
    BY <2>1, ConcatProperties DEF Take, Typed, TypeOK
<1>2. /\ currentField' \in 1..DONE
      /\ processing' \in BOOLEAN
      /\ processing' => ~single /\ currentField' # DONE /\ fieldPos' <= fieldLength'
  <2>1. /\ processing /\ currentField \in 1..(DONE - 1) /\ fieldPos <= fieldLength
        /\ fieldPos + n <= fieldLength /\ fieldPos \in Nat /\ fieldLength \in Nat
        /\ single => n = 1 /\ fieldPos = 0 /\ fieldLength = 1
    BY PieceType DEF Typed, TypeOK, commandLength
  <2>2. fieldLength' = fieldLength /\ fieldPos' = fieldPos + n
    BY DEF Take, header
  <2>3. CASE Completed(n)
    <3>1. currentField' = currentField + 1 /\ processing' = FALSE
      BY <2>3, Zenon DEF Take, NextField
    <3>2. currentField' \in 1..DONE
      BY <2>1, <3>1 DEF DONE
    <3> QED
      BY <3>1, <3>2, Zenon
  <2>4. CASE ~Completed(n)
    BY <2>1, <2>2, <2>4 DEF Take, Completed, DONE
  <2> QED
    BY <2>3, <2>4
<1>3. work' \in 0..limit' /\ fieldPos' \in Nat
  BY PieceType DEF Take, Typed, TypeOK, commandLength
<1> QED
  BY <1>1, <1>2, <1>3, PieceType
     DEF Take, ControlOK, FieldInv, Typed, TypeOK, header, InField, Reading

\* n bytes are stored in an array from an index on.
Stored(f, at, n) == cells' = [cells EXCEPT ![f] = Write(@, at, n)]

\* A piece stored from an index on keeps the indices natural numbers.
LEMMA WriteType ==
  ASSUME ContentOK, NEW f \in Arrays, NEW at \in Nat, NEW n \in Int,
         Stored(f, at, n)
  PROVE  /\ DOMAIN cells' = Arrays
         /\ \A g \in Arrays : DOMAIN cells'[g] =
              IF g = f THEN DOMAIN cells[f] \cup at..(at + n - 1) ELSE DOMAIN cells[g]
         /\ \A g \in Arrays : DOMAIN cells'[g] \subseteq Nat
<1>1. DOMAIN Write(cells[f], at, n) = DOMAIN cells[f] \cup at..(at + n - 1)
  BY DEF Write
<1>2. DOMAIN cells' = Arrays /\ cells'[f] = Write(cells[f], at, n)
  BY DEF ContentOK, Stored
<1>3. \A g \in Arrays : g # f => cells'[g] = cells[g]
  BY DEF ContentOK, Stored
<1> QED
  BY <1>1, <1>2, <1>3 DEF ContentOK

\* A length member receives the low byte of the length.
LEMMA LengthType ==
  ASSUME Typed, NEW f \in Arrays, NEW n
  PROVE  /\ LengthMember(f, n) \in [Arrays -> Bytes]
         /\ [lengths EXCEPT ![f] = fieldLength % 256] \in [Arrays -> Bytes]
<1>1. fieldLength % 256 \in Bytes
  BY DEF Typed, TypeOK, Bytes
<1> QED
  BY <1>1 DEF LengthMember, Typed, TypeOK

\* Init.
LEMMA TypedInit == Init => Typed
<1> SUFFICES ASSUME Init PROVE Typed
  OBVIOUS
<1>1. stream \in Seq(Bytes)
  BY StreamsAssumption DEF Init
<1>2. cells = [f \in Arrays |-> << >>] /\ lengths = [f \in Arrays |-> 0]
  BY DEF Init
<1>3. ContentOK
  <2>1. DOMAIN cells = Arrays /\ \A f \in Arrays : DOMAIN cells[f] = {}
    BY <1>2
  <2> QED
    <3>1. 0 \in Bytes
      BY DEF Bytes
    <3>2. lengths \in [Arrays -> Bytes]
      BY <1>2, <3>1
    <3>3. dataPresent \in BOOLEAN
      BY DEF Init
    <3> QED
      BY <2>1, <3>2, <3>3 DEF ContentOK
<1>4. ControlOK /\ FieldInv
  <2>1. [phase |-> "head", n |-> 0, data |-> FALSE]
          \in [phase : Phases, n : Nat, data : BOOLEAN]
    BY DEF Phases
  <2>2. << >> \in Seq(Bytes) /\ Len(<< >>) = 0 /\ Len(stream) \in Nat
    BY <1>1
  <2> QED
    <3>1. ControlOK
      <4>1. rlpBuffer \in Seq(Bytes) /\ Len(rlpBuffer) = 0 /\ hashed \in Seq(Bytes)
        BY <2>2 DEF Init
      <4>2. entry \in [phase : Phases, n : Nat, data : BOOLEAN]
        BY <2>1 DEF Init
      <4>3. limit \in 0..Len(stream) /\ work \in 0..limit
        BY <2>2 DEF Init
      <4>4. /\ pc \in { "wait", "loop", "field" }
            /\ result \in { "PROCESSING", "FINISHED", "FAULT" }
            /\ isList \in BOOLEAN /\ processing \in BOOLEAN /\ single \in BOOLEAN
        BY Zenon DEF Init
      <4>6. /\ currentField \in 1..DONE /\ fieldLength \in Nat /\ fieldPos \in Nat
            /\ dataLength \in Nat
        BY DEF Init, DONE
      <4>5. Len(rlpBuffer) <= 4
        BY <4>1
      <4> QED
        BY <1>1, <4>1, <4>2, <4>3, <4>4, <4>5, <4>6, Zenon
           DEF ControlOK
    <3>2. FieldInv
      BY DEF Init, FieldInv, DONE
    <3> QED
      BY <3>1, <3>2
<1> QED
  BY <1>3, <1>4, TypeParts DEF Typed

\* A new chunk.
LEMMA TypedChunk ==
  ASSUME Typed, NEW n \in 0..MaxChunk, Chunk(n)
  PROVE  Typed'
<1>1. PhaseOf(currentField) \in Phases
  BY DEF PhaseOf, Phases
<1>2. limit + n \in 0..Len(stream) /\ limit \in 0..(limit + n) /\ n \in Nat
  BY SizesAssumption DEF Chunk, Typed, TypeOK
<1>3. ControlOK' /\ FieldInv'
  BY <1>1, <1>2 DEF Chunk, Typed, TypeOK, ControlOK, FieldInv, header
<1>4. ContentOK'
  BY DEF Chunk, Typed, TypeOK, ContentOK, content
<1> QED
  BY <1>3, <1>4 DEF Typed, TypeOK, ControlOK, ContentOK

\* The end of a call.
LEMMA TypedStop ==
  ASSUME Typed, Stop
  PROVE  Typed'
<1>1. lengths' \in [Arrays -> Bytes]
  <2>1. lengths' = lengths \/ lengths' = [lengths EXCEPT !["v"] = 0]
    BY DEF Stop
  <2>2. lengths \in [Arrays -> Bytes] /\ 0 \in Bytes
    BY DEF Typed, TypeOK, Bytes
  <2> QED
    BY <2>1, <2>2
<1>2. ControlOK' /\ FieldInv'
  BY DEF Stop, Leave, Typed, TypeOK, ControlOK, FieldInv, header, position
<1>3. ContentOK'
  BY <1>1 DEF Stop, Typed, TypeOK, ContentOK
<1> QED
  BY <1>2, <1>3 DEF Typed, TypeOK, ControlOK, ContentOK

\* A header byte.
LEMMA TypedReadHeader ==
  ASSUME Typed, ReadHeader
  PROVE  Typed'
<1> DEFINE byte == stream[work + 1]
           buf == Append(rlpBuffer, byte)
<1>1. byte \in Bytes /\ work + 1 \in 1..limit /\ result # "FAULT"
  BY DEF ReadHeader, Reading, commandLength, Typed, TypeOK, FieldInv
<1>2. /\ buf \in Seq(Bytes) /\ Len(buf) = Len(rlpBuffer) + 1
      /\ hashed' \in Seq(Bytes)
  BY <1>1 DEF ReadHeader, Typed, TypeOK
<1>3. ContentOK'
  BY DEF ReadHeader, Fault, content, Typed, TypeOK, ContentOK
<1>4. CASE CanDecode(buf) /\ ValidHeader(buf) /\ pc' = "field"
  <2>1. /\ DecodeLength(buf) \in Nat
        /\ SelfEncoded(buf) => DecodeLength(buf) = 1 /\ ~IsListHeader(buf)
    <3>1. Len(buf) >= 1
      BY <1>2 DEF Typed, TypeOK
    <3> HIDE DEF buf, byte
    <3> QED
      BY <1>2, <1>4, <3>1, DecodeLengthType
  <2>2. SelfEncoded(buf) \in BOOLEAN /\ IsListHeader(buf) \in BOOLEAN
    BY DEF SelfEncoded, IsListHeader
  <2>3. /\ fieldLength' = DecodeLength(buf) /\ isList' = IsListHeader(buf)
        /\ single' = SelfEncoded(buf) /\ rlpBuffer' = << >> /\ fieldPos' = 0
        /\ processing' = TRUE
        /\ work' = IF SelfEncoded(buf) THEN work ELSE work + 1
        /\ UNCHANGED << stream, limit, result, entry, currentField, dataLength >>
    BY <1>4 DEF ReadHeader, Fault, Leave, Reading
  <2> HIDE DEF buf, byte
  <2>4. ControlOK'
    BY <1>1, <1>2, <1>4, <2>1, <2>2, <2>3 DEF Typed, TypeOK, ControlOK
  <2>5. currentField # DONE /\ work < limit
    BY <1>1 DEF ReadHeader, Reading, Typed, TypeOK
  <2>6. FieldInv'
    BY <1>1, <1>4, <2>1, <2>2, <2>3, <2>5 DEF Typed, TypeOK, FieldInv
  <2> QED
    BY <1>3, <2>4, <2>6 DEF Typed, TypeOK, ControlOK, ContentOK
<1>5. CASE Fault /\ work' = work + 1 /\ rlpBuffer' = buf
           /\ UNCHANGED << fieldLength, isList, single >>
  <2> HIDE DEF buf, byte
  <2>1. ControlOK' /\ FieldInv'
    BY <1>1, <1>2, <1>5 DEF Fault, Leave, Typed, TypeOK, ControlOK, FieldInv
  <2> QED
    BY <1>3, <2>1 DEF Typed, TypeOK, ControlOK, ContentOK
<1>6. CASE /\ ~BufferFull(buf) /\ rlpBuffer' = buf /\ work' = work + 1
           /\ Leave("PROCESSING") \/ UNCHANGED control
           /\ UNCHANGED << stream, limit, fieldLength, isList, single,
                           currentField, fieldPos, processing, dataLength >>
  <2>1. Len(buf) <= 4
    BY <1>1, <1>2, <1>6 DEF BufferFull, Typed, TypeOK
  <2>2. ~processing /\ pc = "loop"
    BY DEF ReadHeader, Reading
  <2> HIDE DEF buf, byte
  <2>3. ControlOK' /\ FieldInv'
    BY <1>1, <1>2, <1>6, <2>1, <2>2
       DEF Leave, control, Typed, TypeOK, ControlOK, FieldInv
  <2> QED
    BY <1>3, <2>3 DEF Typed, TypeOK, ControlOK, ContentOK
<1> QED
  BY <1>4, <1>5, <1>6 DEF ReadHeader

\* A field that is refused.
LEMMA TypedWrongField ==
  ASSUME Typed, WrongField
  PROVE  Typed'
<1>1. result # "FAULT" => Len(rlpBuffer) <= 4
  BY DEF Typed, TypeOK
<1>2. ControlOK' /\ FieldInv' /\ ContentOK'
  BY <1>1 DEF WrongField, Fault, Leave, header, content,
         Typed, TypeOK, ControlOK, ContentOK, FieldInv
<1> QED
  BY <1>2 DEF Typed, TypeOK, ControlOK, ContentOK

\* The header of the list.
LEMMA TypedProcessContent ==
  ASSUME Typed, ProcessContent
  PROVE  Typed'
<1>1. currentField + 1 \in 1..DONE
  BY PieceType DEF ProcessContent, DONE
<1>2. pc \in {"loop", "field"} /\ result # "FAULT"
  BY DEF ProcessContent, InField, Reading, Typed, FieldInv
<1>3. ControlOK' /\ FieldInv' /\ ContentOK'
  BY <1>1, <1>2 DEF ProcessContent, NextField, header, content, position,
         Typed, TypeOK, ControlOK, ContentOK, FieldInv
<1> QED
  BY <1>3 DEF Typed, TypeOK, ControlOK, ContentOK

\* A piece of a number or of the address.
LEMMA TypedProcessNumber ==
  ASSUME Typed, ProcessNumber
  PROVE  Typed'
<1>1. Field \in Arrays /\ PieceOffset \in Nat
  BY DEF ProcessNumber, Arrays, PieceOffset, Typed, TypeOK
<1>2. CopySize \in Nat /\ CopySize \in Int
  BY PieceType DEF ProcessNumber
<1>3. ControlOK' /\ FieldInv'
  BY <1>2, TakeTyped, PieceType DEF ProcessNumber
<1>4. DOMAIN cells' = Arrays /\ \A g \in Arrays : DOMAIN cells'[g] \subseteq Nat
  <2>1. Stored(Field, PieceOffset, CopySize) /\ ContentOK
    BY TypeParts DEF ProcessNumber, Typed, Stored
  <2> QED
    BY <1>1, <1>2, <2>1, WriteType
<1>5. lengths' \in [Arrays -> Bytes]
  BY <1>1, LengthType DEF ProcessNumber
<1>6. ContentOK'
  BY <1>4, <1>5 DEF ProcessNumber, ContentOK, Typed, TypeOK
<1> QED
  BY <1>3, <1>6 DEF Typed, TypeOK, ControlOK, ContentOK

\* A piece of the data.
LEMMA TypedProcessData ==
  ASSUME Typed, ProcessData
  PROVE  Typed'
<1>1. CopySize \in Nat
  BY PieceType DEF ProcessData
<1>2. ControlOK' /\ FieldInv'
  BY <1>1, TakeTyped, PieceType DEF ProcessData
<1>3. "data" \in Arrays
  BY DEF Arrays
<1>4. DOMAIN cells' = Arrays /\ \A g \in Arrays : DOMAIN cells'[g] \subseteq Nat
  <2> DEFINE n == Least(commandLength, Least(fieldLength, SELECTOR_LENGTH - fieldPos))
  <2>1. n \in Int /\ fieldPos \in Nat
    BY PieceType, SizesAssumption DEF ProcessData, Least, Typed, TypeOK
  <2>4. ContentOK
    BY TypeParts DEF Typed
  <2>2. CASE cells' = cells
    BY <2>2 DEF Typed, TypeOK
  <2>3. CASE Stored("data", fieldPos, n)
    <3> HIDE DEF n
    <3> QED
      BY <1>3, <2>1, <2>3, <2>4, WriteType
  <2> QED
    BY <2>2, <2>3 DEF ProcessData, Stored
<1>5. lengths' \in [Arrays -> Bytes]
  <2>1. \/ lengths' = [lengths EXCEPT !["data"] = fieldLength % 256]
        \/ lengths' = lengths
    BY Zenon DEF ProcessData
  <2>2. [lengths EXCEPT !["data"] = fieldLength % 256] \in [Arrays -> Bytes]
    BY <1>3, LengthType
  <2>3. lengths \in [Arrays -> Bytes]
    BY DEF Typed, TypeOK
  <2> QED
    BY <2>1, <2>2, <2>3, Zenon
<1>6. dataPresent' \in BOOLEAN
  BY DEF ProcessData, NoData, Typed, TypeOK
<1>7. ContentOK'
  BY <1>4, <1>5, <1>6 DEF ContentOK
<1> QED
  BY <1>2, <1>7 DEF Typed, TypeOK, ControlOK, ContentOK

\* A piece of v.
LEMMA TypedProcessV ==
  ASSUME Typed, ProcessV
  PROVE  Typed'
<1> DEFINE n == Least(CopySize, V_SIZE)
<1>1. n \in Nat /\ n \in Int /\ n <= CopySize /\ (single => n = 1) /\ fieldPos \in Nat
  BY PieceType, SizesAssumption DEF ProcessV, Least, Typed, TypeOK
<1>2. "v" \in Arrays
  BY DEF Arrays
<1>3. /\ Stored("v", fieldPos, n)
      /\ lengths' = LengthMember("v", n)
      /\ Take(n) /\ InField
      /\ UNCHANGED dataPresent
  BY DEF ProcessV, Stored
<1> HIDE DEF n
<1>4. ControlOK' /\ FieldInv'
  BY <1>1, <1>3, TakeTyped
<1>5. DOMAIN cells' = Arrays /\ \A g \in Arrays : DOMAIN cells'[g] \subseteq Nat
  <2>1. ContentOK
    BY TypeParts DEF Typed
  <2> QED
    BY <1>1, <1>2, <1>3, <2>1, WriteType
<1>6. lengths' \in [Arrays -> Bytes]
  BY <1>2, <1>3, LengthType
<1>7. ContentOK'
  BY <1>3, <1>5, <1>6 DEF ContentOK, Typed, TypeOK
<1> QED
  BY <1>4, <1>7 DEF Typed, TypeOK, ControlOK, ContentOK

\* A piece of r or s.
LEMMA TypedDiscard ==
  ASSUME Typed, ProcessAndDiscard
  PROVE  Typed'
<1>1. ControlOK' /\ FieldInv'
  BY TakeTyped, PieceType DEF ProcessAndDiscard
<1>2. ContentOK'
  BY DEF ProcessAndDiscard, content, Typed, TypeOK, ContentOK
<1> QED
  BY <1>1, <1>2 DEF Typed, TypeOK, ControlOK, ContentOK

\* Every step keeps the types.
LEMMA TypedNext == Typed /\ [Next]_vars => Typed'
<1> SUFFICES ASSUME Typed, [Next]_vars PROVE Typed'
  OBVIOUS
<1>1. CASE UNCHANGED vars
  BY <1>1 DEF vars, position, control, header, content, Typed, TypeOK, FieldInv
<1>2. CASE Next
  BY <1>2, TypedChunk, TypedStop, TypedReadHeader, TypedWrongField,
     TypedProcessContent, TypedProcessNumber, TypedProcessData, TypedProcessV,
     TypedDiscard DEF Next, Parse
<1> QED
  BY <1>1, <1>2

\* Types, and the field being read, are invariant.
LEMMA TypedInvariant == Spec => []Typed
<1> QED
  BY TypedInit, TypedNext, PTL DEF Spec

\* rlpBuffer, the counters and the members of transaction_t keep their
\* types for every stream and every cut; in particular the header never
\* outgrows rlpBuffer.
THEOREM ParserTypes == Spec => []TypeOK
<1>1. Typed => TypeOK
  BY DEF Typed
<1> QED
  BY <1>1, TypedInvariant, PTL

-----------------------------------------------------------------------------
\* The arrays.

\* A number or address that is not refused is stored within its array: the
\* piece ends where the field ends at the latest.
LEMMA NumberFits ==
  ASSUME Typed, CopiesFit, ProcessNumber
  PROVE  CopiesFit'
<1>1. /\ Field \in Arrays /\ PieceOffset \in Nat /\ CopySize \in Nat
      /\ CopySize \in Int /\ PieceOffset <= fieldPos
      /\ fieldPos + CopySize <= fieldLength /\ fieldLength \in Nat
      /\ fieldPos \in Nat
  BY PieceType DEF ProcessNumber, PieceOffset, Arrays, Typed, TypeOK
<1>2. SizeOf(Field) \in 1..255 /\ fieldLength <= SizeOf(Field)
  BY <1>1, SizesType DEF ProcessNumber, TooLong
<1>3. Stored(Field, PieceOffset, CopySize) /\ ContentOK
  BY TypeParts DEF ProcessNumber, Typed, Stored
<1>4. \A g \in Arrays : DOMAIN cells'[g] =
        IF g = Field THEN DOMAIN cells[Field] \cup PieceOffset..(PieceOffset + CopySize - 1)
        ELSE DOMAIN cells[g]
  BY <1>1, <1>3, WriteType
<1>5. PieceOffset..(PieceOffset + CopySize - 1) \subseteq 0..(SizeOf(Field) - 1)
  BY <1>1, <1>2
<1> QED
  BY <1>4, <1>5 DEF CopiesFit, Arrays

\* Data and v are stored elsewhere.
LEMMA OthersFit ==
  ASSUME Typed, CopiesFit, ProcessData \/ ProcessV
  PROVE  CopiesFit'
<1>1. \A g \in Arrays \ {"data", "v"} : cells'[g] = cells[g]
  BY DEF ProcessData, ProcessV, Typed, TypeOK
<1>2. Numbers \cup {"to"} \subseteq Arrays \ {"data", "v"}
  BY DEF Numbers, Arrays
<1> QED
  BY <1>1, <1>2 DEF CopiesFit

\* The handlers of numbers and of the address never store outside the array,
\* in whatever pieces the host sends the field.
THEOREM CopiesFitAlways == Spec => []CopiesFit
<1>1. Init => CopiesFit
  <2> SUFFICES ASSUME Init PROVE CopiesFit
    OBVIOUS
  <2>1. \A f \in Arrays : DOMAIN cells[f] = {}
    BY DEF Init
  <2> QED
    BY <2>1 DEF CopiesFit, Arrays
<1>2. Typed /\ CopiesFit /\ [Next]_vars => CopiesFit'
  <2> SUFFICES ASSUME Typed, CopiesFit, [Next]_vars PROVE CopiesFit'
    OBVIOUS
  <2>1. CASE ProcessNumber
    BY <2>1, NumberFits
  <2>2. CASE ProcessData \/ ProcessV
    BY <2>2, OthersFit
  <2>3. CASE UNCHANGED cells
    BY <2>3 DEF CopiesFit
  <2>4. Next /\ ~ProcessNumber /\ ~ProcessData /\ ~ProcessV => UNCHANGED cells
    BY DEF Next, Parse, Chunk, Stop, ReadHeader, WrongField, Fault, ProcessContent,
           ProcessAndDiscard, content
  <2>5. UNCHANGED vars => UNCHANGED cells
    BY DEF vars, content
  <2> QED
    BY <2>1, <2>2, <2>3, <2>4, <2>5
<1> QED
  BY <1>1, <1>2, TypedInvariant, PTL DEF Spec

-----------------------------------------------------------------------------
\* The hash.

\* A prefix of the stream grows by the bytes that follow it.
LEMMA PrefixGrows ==
  ASSUME NEW s \in Seq(Bytes), NEW k \in Nat, NEW n \in Nat, k + n <= Len(s)
  PROVE  /\ SubSeq(s, 1, k) \o SubSeq(s, k + 1, k + n) = SubSeq(s, 1, k + n)
         /\ Len(SubSeq(s, 1, k + n)) = k + n
<1>1. Len(s) \in Nat /\ 1 \in 1..(Len(s) + 1) /\ k \in 0..Len(s) /\ k + n \in k..Len(s)
  OBVIOUS
<1>2. 1 - 1 = 0
  OBVIOUS
<1>3. SubSeq(s, 1, k) \o SubSeq(s, k + 1, k + n) = SubSeq(s, 1, k + n)
  BY <1>1, <1>2, ConcatAdjacentSubSeq
<1>4. \A i \in 1..(k + n) : s[i] \in Bytes
  BY <1>1
<1>5. Len(SubSeq(s, 1, k + n)) = IF 1 <= k + n THEN k + n - 1 + 1 ELSE 0
  BY <1>1, <1>4, SubSeqProperties
<1> QED
  BY <1>1, <1>3, <1>5

\* A prefix of the stream grows by one byte.
LEMMA PrefixGrowsByOne ==
  ASSUME NEW s \in Seq(Bytes), NEW k \in Nat, k < Len(s)
  PROVE  /\ Append(SubSeq(s, 1, k), s[k + 1]) = SubSeq(s, 1, k + 1)
         /\ Len(SubSeq(s, 1, k + 1)) = k + 1
<1>1. Len(s) \in Nat /\ k + 1 \in 1..Len(s) /\ 1 \in 1..Len(s) /\ k + 1 - 1 = k
  OBVIOUS
<1>2. SubSeq(s, 1, k + 1) = SubSeq(s, 1, k) \o << s[k + 1] >>
  BY <1>1, SubSeqRecursiveSecond
<1>3. s[k + 1] \in Bytes /\ \A i \in 1..(k + 1) : s[i] \in Bytes
  BY <1>1
<1>4. SubSeq(s, 1, k) \in Seq(Bytes)
  BY <1>1, <1>3, SubSeqProperties
<1>5. Append(SubSeq(s, 1, k), s[k + 1]) = SubSeq(s, 1, k) \o << s[k + 1] >>
  BY <1>3, <1>4, AppendIsConcat
<1>6. Len(SubSeq(s, 1, k + 1)) = k + 1
  BY <1>1, <1>3, SubSeqProperties
<1> QED
  BY <1>2, <1>5, <1>6

\* Init.
LEMMA HashInit == Init => HashInv
<1> SUFFICES ASSUME Init PROVE HashInv
  OBVIOUS
<1>1. hashed = << >> /\ Len(hashed) = 0 /\ stream \in Seq(Bytes)
  BY StreamsAssumption DEF Init
<1>2. SubSeq(stream, 1, Len(hashed)) = << >>
  BY <1>1, SubSeqEmpty
<1>3. work = 0 /\ limit = 0 /\ pc = "wait"
  BY DEF Init
<1> QED
  BY <1>1, <1>2, <1>3 DEF HashInv, BytesRead

\* A header byte is hashed when it is read.
LEMMA HashHeader ==
  ASSUME Typed, HashInv, ReadHeader
  PROVE  HashInv'
<1>1. /\ work \in Nat /\ work < Len(stream) /\ work < limit /\ limit \in Nat
      /\ result # "FAULT" /\ currentField # DONE /\ pc = "loop" /\ stream \in Seq(Bytes)
  BY SMTT(30) DEF ReadHeader, Reading, commandLength, Typed, TypeOK, FieldInv
<1>2. Len(hashed) = work /\ hashed = SubSeq(stream, 1, work)
  BY <1>1 DEF HashInv, BytesRead
<1>3. hashed' = Append(hashed, stream[work + 1]) /\ stream' = stream
  BY DEF ReadHeader, Fault
<1>4. hashed' = SubSeq(stream, 1, work + 1) /\ Len(hashed') = work + 1
  BY <1>1, <1>2, <1>3, PrefixGrowsByOne
<1>5. Len(hashed') <= Len(stream') /\ hashed' = SubSeq(stream', 1, Len(hashed'))
  BY <1>1, <1>3, <1>4
<1> DEFINE buf == Append(rlpBuffer, stream[work + 1])
<1>6. \/ result' = "FAULT"
      \/ /\ pc' = "field" /\ single' = SelfEncoded(buf)
         /\ work' = IF SelfEncoded(buf) THEN work ELSE work + 1
      \/ /\ pc' = "loop" \/ (pc' = "wait" /\ commandLength = 1)
         /\ work' = work + 1 /\ limit' = limit
  <2>1. \/ /\ pc' = "field" /\ single' = SelfEncoded(buf)
           /\ work' = IF SelfEncoded(buf) THEN work ELSE work + 1
        \/ Fault
        \/ /\ work' = work + 1 /\ limit' = limit
           /\ IF commandLength = 1 THEN Leave("PROCESSING") ELSE UNCHANGED control
    BY Zenon DEF ReadHeader
  <2>2. Fault => result' = "FAULT"
    BY DEF Fault, Leave
  <2>3. (IF commandLength = 1 THEN Leave("PROCESSING") ELSE UNCHANGED control)
          => pc' = "loop" \/ (pc' = "wait" /\ commandLength = 1)
    <3>1. Leave("PROCESSING") => pc' = "wait"
      BY DEF Leave
    <3>2. UNCHANGED control => pc' = "loop"
      BY <1>1 DEF control
    <3>3. CASE commandLength = 1
      BY <3>1, <3>3
    <3>4. CASE commandLength # 1
      BY <3>2, <3>4, Zenon
    <3> QED
      BY <3>3, <3>4
  <2> HIDE DEF buf
  <2> QED
    BY <2>1, <2>2, <2>3
<1>7. result' # "FAULT" =>
        Len(hashed') = BytesRead' /\ (pc' = "wait" => work' = limit')
  <2> HIDE DEF buf
  <2> QED
    BY <1>1, <1>4, <1>6 DEF BytesRead, commandLength
<1> QED
  BY <1>5, <1>7 DEF HashInv

\* A piece of a field is hashed when it is taken, unless its one byte was.
LEMMA HashTake ==
  ASSUME Typed, HashInv, InField, NEW n \in Nat, n <= CopySize, single => n = 1,
         Take(n)
  PROVE  HashInv'
<1>1. /\ work \in Nat /\ work + n <= Len(stream) /\ currentField # DONE
      /\ result # "FAULT" /\ stream \in Seq(Bytes) /\ Len(hashed) = BytesRead
      /\ hashed = SubSeq(stream, 1, Len(hashed)) /\ Len(hashed) <= Len(stream)
  <2>1. result # "FAULT" /\ currentField # DONE
    BY PieceType DEF InField, Reading, Typed, FieldInv, DONE
  <2>2. work \in Nat /\ limit \in Nat /\ Len(stream) \in Nat /\ limit <= Len(stream)
        /\ stream \in Seq(Bytes)
    BY DEF Typed, TypeOK
  <2>3. CopySize \in 0..commandLength
    BY PieceType
  <2>4. work + n <= Len(stream)
    BY <2>2, <2>3 DEF commandLength
  <2> QED
    BY <2>1, <2>2, <2>4 DEF HashInv
<1>2. /\ pc' = "loop" /\ work' = work + n /\ stream' = stream
      /\ BytesRead' = work + n
  BY DEF Take, BytesRead
<1>3. Len(hashed') = work + n /\ hashed' = SubSeq(stream, 1, work + n)
  <2>1. CASE single
    <3>1. n = 1 /\ pc = "field" /\ hashed' = hashed
      BY <2>1, PieceType DEF Take
    <3>2. BytesRead = work + n
      BY <2>1, <3>1 DEF BytesRead
    <3> QED
      BY <1>1, <3>1, <3>2
  <2>2. CASE ~single
    <3>1. BytesRead = work
      BY <1>1, <2>2 DEF BytesRead
    <3>2. hashed' = hashed \o SubSeq(stream, work + 1, work + n)
      BY <2>2, Zenon DEF Take
    <3> QED
      BY <1>1, <3>1, <3>2, PrefixGrows, SMTT(30)
  <2> QED
    BY <2>1, <2>2
<1> QED
  BY <1>1, <1>2, <1>3 DEF HashInv

\* The steps that hash nothing.
LEMMA HashOthers ==
  ASSUME Typed, HashInv,
         Stop \/ WrongField \/ ProcessContent \/ \E n \in 0..MaxChunk : Chunk(n)
  PROVE  HashInv'
<1>1. hashed' = hashed /\ stream' = stream
  BY DEF Stop, WrongField, Fault, ProcessContent, Chunk, position
<1>2. CASE \E n \in 0..MaxChunk : Chunk(n)
  BY <1>1, <1>2 DEF Chunk, HashInv, BytesRead, Typed, TypeOK
<1>3. CASE Stop
  <2>1. /\ pc = "loop" /\ pc' = "wait" /\ work' = work /\ limit' = limit
        /\ currentField' = currentField /\ result # "FAULT"
        /\ currentField # DONE => commandLength = 0
    BY <1>3 DEF Stop, Leave, position, Typed, FieldInv
  <2> QED
    BY <1>1, <2>1 DEF HashInv, BytesRead, commandLength, Typed, TypeOK
<1>4. CASE WrongField
  BY <1>1, <1>4 DEF WrongField, Fault, Leave, HashInv
<1>5. CASE ProcessContent
  <2>1. pc' = "loop" /\ work' = work /\ result' = result
    BY <1>5 DEF ProcessContent, position
  <2>2. currentField # DONE /\ ~(pc = "field" /\ single) /\ pc # "wait"
    BY <1>5, PieceType DEF ProcessContent, InField, Reading, DONE
  <2> QED
    BY <1>1, <2>1, <2>2 DEF HashInv, BytesRead
<1> QED
  BY <1>2, <1>3, <1>4, <1>5

\* The three kinds of field that take a piece.
LEMMA TakesAPiece ==
  ASSUME Typed, ProcessNumber \/ ProcessData \/ ProcessV \/ ProcessAndDiscard
  PROVE  InField /\ \E n \in Nat : n <= CopySize /\ (single => n = 1) /\ Take(n)
<1>1. InField
  BY DEF ProcessNumber, ProcessData, ProcessV, ProcessAndDiscard
<1>2. CopySize \in Nat /\ (single => CopySize = 1)
  BY <1>1, PieceType
<1>3. CASE Take(CopySize)
  BY <1>1, <1>2, <1>3
<1>4. CASE ProcessV
  <2> DEFINE n == Least(CopySize, V_SIZE)
  <2>1. n \in Nat /\ n <= CopySize /\ (single => n = 1)
    BY <1>2, SizesAssumption DEF Least
  <2>2. Take(n)
    BY <1>4 DEF ProcessV
  <2> HIDE DEF n
  <2> QED
    BY <1>1, <2>1, <2>2
<1> QED
  BY <1>3, <1>4 DEF ProcessNumber, ProcessData, ProcessAndDiscard

\* The hash keeps up with the stream.
LEMMA HashInvariant == Spec => []HashInv
<1>1. Typed /\ HashInv /\ [Next]_vars => HashInv'
  <2> SUFFICES ASSUME Typed, HashInv, [Next]_vars PROVE HashInv'
    OBVIOUS
  <2>1. CASE ReadHeader
    BY <2>1, HashHeader
  <2>2. CASE ProcessNumber \/ ProcessData \/ ProcessV \/ ProcessAndDiscard
    BY <2>2, TakesAPiece, HashTake
  <2>3. CASE Stop \/ WrongField \/ ProcessContent \/ \E n \in 0..MaxChunk : Chunk(n)
    BY <2>3, HashOthers
  <2>4. CASE UNCHANGED vars
    BY <2>4 DEF vars, position, control, header, HashInv, BytesRead
  <2> QED
    BY <2>1, <2>2, <2>3, <2>4 DEF Next, Parse
<1> QED
  BY <1>1, HashInit, TypedInvariant, PTL DEF Spec

\* What is hashed, and so signed, is a prefix of the stream, each byte once and
\* in order, and when a call returns nothing delivered is missing from it.
THEOREM HashIsPrefixAlways == Spec => []HashIsPrefix
<1>1. Typed /\ HashInv => HashIsPrefix
  <2> SUFFICES ASSUME Typed, HashInv PROVE HashIsPrefix
    OBVIOUS
  <2>1. hashed = SubSeq(stream, 1, Len(hashed))
    BY DEF HashInv
  <2>2. pc = "wait" /\ result # "FAULT" /\ currentField # DONE => Len(hashed) = limit
    BY DEF HashInv, BytesRead, Typed, TypeOK
  <2> QED
    BY <2>1, <2>2 DEF HashIsPrefix
<1> QED
  BY <1>1, HashInvariant, TypedInvariant, PTL

-----------------------------------------------------------------------------
\* The results of a call.

\* Onwards, phase by phase.
LEMMA OnwardsValues ==
  /\ Onwards("head") = { "head", "v", "tail", "done" }
  /\ Onwards("v") = { "v", "tail", "done" }
  /\ Onwards("tail") = { "tail", "done" }
  /\ Onwards("done") = { "done" }
  /\ Onwards("none") = { "done" }
BY Zenon DEF Onwards

\* The phases of the fields: each field's phase is onwards of itself, the next
\* field's is onwards of it, only DONE is done and only V is v.
LEMMA PhaseSteps ==
  ASSUME NEW i \in 1..DONE
  PROVE  /\ PhaseOf(i) \in Onwards(PhaseOf(i))
         /\ PhaseOf(i) \in { "head", "v", "tail", "done" }
         /\ PhaseOf(i) = "done" <=> i = DONE
         /\ PhaseOf(i) = "v" <=> i = V
         /\ i # DONE => PhaseOf(i + 1) \in Onwards(PhaseOf(i))
BY OnwardsValues DEF PhaseOf, V, DONE

\* Going onwards twice is going onwards; only head leads to head.
LEMMA OnwardsTwice ==
  ASSUME NEW p \in Phases, p # "none", NEW q \in Onwards(p), NEW r \in Onwards(q)
  PROVE  r \in Onwards(p) /\ (q = "head" => p = "head")
BY OnwardsValues DEF Phases

\* Where the call under way has got to.
LEMMA UnderWay ==
  ASSUME Typed, CallInv, pc # "wait"
  PROVE  /\ entry.phase \in Phases /\ entry.phase # "none" /\ entry.n \in Nat
         /\ PhaseOf(currentField) \in Onwards(entry.phase)
         /\ entry.n = 0 => PhaseOf(currentField) = entry.phase
         /\ commandLength > 0 \/ pc = "field" => entry.n # 0
         /\ entry.phase # "head" \/ entry.n = 0 => dataPresent = entry.data
BY DEF Typed, TypeOK, CallInv, commandLength

\* A call that ends where it is.
LEMMA LeaveKeeps ==
  ASSUME Typed, CallInv, pc # "wait", NEW status \in {"PROCESSING", "FINISHED", "FAULT"},
         Leave(status), UNCHANGED << currentField, dataPresent >>,
         status = "FINISHED" => currentField \in {V, DONE},
         status # "FINISHED" => currentField # DONE,
         status = "FAULT" => entry.n # 0,
         entry.n = 0 /\ currentField = V => status = "FINISHED"
  PROVE  CallInv' /\ KeepsOutcomes'
<1> DEFINE phase == PhaseOf(currentField)
           o == [phase |-> phase, status |-> status]
<1>1. pc' = "wait" /\ result' = status /\ entry' = entry
  BY DEF Leave
<1>2. currentField \in 1..DONE
  BY DEF Typed, TypeOK
<1>3. phase' = phase
  BY DEF PhaseOf
<1>4. /\ phase \in Onwards(entry.phase)
      /\ status = "FINISHED" => phase \in {"v", "done"}
      /\ status # "FINISHED" => phase # "done"
      /\ status = "FAULT" => entry.n > 0
      /\ entry.n = 0 => phase = entry.phase /\ (entry.phase = "v" => status = "FINISHED")
  BY <1>2, UnderWay, PhaseSteps
<1>5. o \in TxOutcomes(entry.phase, entry.n)
  <2> HIDE DEF phase
  <2>1. /\ o \in [phase : Onwards(entry.phase), status : {"PROCESSING", "FINISHED", "FAULT"}]
        /\ o.phase = phase /\ o.status = status
    BY <1>4
  <2> HIDE DEF o
  <2> QED
    BY <1>4, <2>1 DEF TxOutcomes
<1>6. entry.phase # "none" /\ (entry.phase # "head" \/ entry.n = 0 => dataPresent = entry.data)
  BY UnderWay
<1>7. CallInv'
  BY <1>1, <1>6 DEF CallInv
<1>8. KeepsOutcomes'
  BY <1>1, <1>3, <1>5, <1>6, Zenon DEF KeepsOutcomes
<1> QED
  BY <1>7, <1>8

\* A step within a call, on data that is there.
LEMMA GoesOn ==
  ASSUME Typed, CallInv, pc # "wait", pc' # "wait", entry' = entry, entry.n # 0,
         \/ currentField' = currentField
         \/ currentField # DONE /\ currentField' = currentField + 1,
         dataPresent' = dataPresent \/ Field = "data"
  PROVE  CallInv' /\ KeepsOutcomes'
<1>1. currentField \in 1..DONE
  BY DEF Typed, TypeOK
<1>2. PhaseOf(currentField)' \in Onwards(PhaseOf(currentField))
  BY <1>1, PhaseSteps DEF PhaseOf
<1>3. PhaseOf(currentField)' \in Onwards(entry.phase)
  BY <1>2, UnderWay, OnwardsTwice
<1>4. Field = "data" => entry.phase = "head"
  <2>1. Field = "data" => PhaseOf(currentField) = "head"
    BY <1>1 DEF Field, FieldNames, PhaseOf, V, DONE
  <2>2. PhaseOf(currentField) \in Onwards(PhaseOf(currentField))
    BY <1>1, PhaseSteps
  <2> QED
    BY <2>1, <2>2, UnderWay, OnwardsTwice
<1>5. CallInv'
  BY <1>3, <1>4, UnderWay DEF CallInv
<1>6. KeepsOutcomes'
  BY DEF KeepsOutcomes
<1> QED
  BY <1>5, <1>6

\* A call starts.
LEMMA CallStarts ==
  ASSUME Typed, CallInv, NEW n \in 0..MaxChunk, Chunk(n)
  PROVE  CallInv' /\ KeepsOutcomes'
<1>1. /\ pc' = "loop" /\ work' = limit /\ limit' = limit + n /\ limit \in Nat
      /\ currentField' = currentField /\ dataPresent' = dataPresent
      /\ entry' = [phase |-> PhaseOf(currentField), n |-> n, data |-> dataPresent]
  BY DEF Chunk, content, Typed, TypeOK
<1>2. currentField \in 1..DONE /\ PhaseOf(currentField)' = PhaseOf(currentField)
  BY <1>1 DEF Typed, TypeOK, PhaseOf
<1>3. /\ PhaseOf(currentField) \in Onwards(PhaseOf(currentField))
      /\ PhaseOf(currentField) # "none"
  BY <1>2, PhaseSteps
<1>4. /\ entry'.phase = PhaseOf(currentField) /\ entry'.n = n
      /\ entry'.data = dataPresent
  BY <1>1
<1>5. n = 0 => work' = limit'
  BY <1>1
<1> QED
  BY <1>1, <1>2, <1>3, <1>4, <1>5 DEF CallInv, KeepsOutcomes

\* The call ends, or reads a header byte.
LEMMA CallHeader ==
  ASSUME Typed, CallInv, Stop \/ ReadHeader \/ WrongField
  PROVE  CallInv' /\ KeepsOutcomes'
<1>1. CASE Stop
  <2>1. pc # "wait" /\ currentField' = currentField /\ dataPresent' = dataPresent
    BY <1>1 DEF Stop
  <2>2. \/ /\ currentField \in {V, DONE} /\ Leave("FINISHED")
        \/ /\ currentField # V /\ currentField # DONE /\ Leave("PROCESSING")
    BY <1>1 DEF Stop, Skippable
  <2> QED
    BY <2>1, <2>2, LeaveKeeps
<1>2. CASE ReadHeader
  <2>1. /\ pc = "loop" /\ currentField # DONE /\ commandLength > 0
        /\ currentField' = currentField /\ dataPresent' = dataPresent
    BY <1>2 DEF ReadHeader, Reading, Fault, content
  <2>2. entry.n # 0
    BY <2>1, UnderWay
  <2>3. \/ pc' = "field" /\ entry' = entry
        \/ Leave("FAULT")
        \/ Leave("PROCESSING")
        \/ UNCHANGED control
    BY <1>2, Zenon DEF ReadHeader, Fault
  <2>4. CASE pc' # "wait" /\ entry' = entry
    BY <2>1, <2>2, <2>4, GoesOn
  <2>5. CASE UNCHANGED control
    <3>1. pc' # "wait" /\ entry' = entry
      BY <2>1, <2>5 DEF control
    <3> QED
      BY <2>4, <3>1
  <2>6. CASE Leave("FAULT") \/ Leave("PROCESSING")
    BY <2>1, <2>2, <2>6, LeaveKeeps
  <2> QED
    BY <2>3, <2>4, <2>5, <2>6
<1>3. CASE WrongField
  <2>1. /\ InField /\ Leave("FAULT")
        /\ currentField' = currentField /\ dataPresent' = dataPresent
    BY <1>3 DEF WrongField, Fault, content
  <2>2. currentField # DONE
    BY <2>1, PieceType DEF DONE
  <2>3. pc # "wait" /\ (commandLength > 0 \/ pc = "field")
    BY <2>1 DEF InField, Reading
  <2> QED
    BY <2>1, <2>2, <2>3, UnderWay, LeaveKeeps
<1> QED
  BY <1>1, <1>2, <1>3

\* The call works on a field.
LEMMA CallField ==
  ASSUME Typed, CallInv,
         \/ ProcessContent \/ ProcessNumber \/ ProcessData \/ ProcessV
         \/ ProcessAndDiscard
  PROVE  CallInv' /\ KeepsOutcomes'
<1>1. InField /\ (dataPresent' = dataPresent \/ Field = "data")
  BY DEF ProcessContent, ProcessNumber, ProcessData, ProcessV, ProcessAndDiscard, content
<1>2. /\ pc' = "loop" /\ entry' = entry
      /\ currentField' = currentField \/ currentField' = currentField + 1
  <2>1. \A n : Take(n) => /\ pc' = "loop" /\ entry' = entry
                          /\ currentField' = currentField \/ currentField' = currentField + 1
    <3> SUFFICES ASSUME NEW n, Take(n)
                 PROVE  /\ pc' = "loop" /\ entry' = entry
                        /\ currentField' = currentField \/ currentField' = currentField + 1
      OBVIOUS
    <3>1. CASE Completed(n)
      BY <3>1, Zenon DEF Take, NextField
    <3>2. CASE ~Completed(n)
      BY <3>2, Zenon DEF Take
    <3> QED
      BY <3>1, <3>2
  <2>2. ProcessContent => /\ pc' = "loop" /\ entry' = entry
                          /\ currentField' = currentField + 1
    BY DEF ProcessContent, NextField
  <2> QED
    BY <2>1, <2>2 DEF ProcessNumber, ProcessData, ProcessV, ProcessAndDiscard
<1>3. currentField # DONE /\ pc # "wait" /\ (commandLength > 0 \/ pc = "field")
  BY <1>1, PieceType DEF InField, Reading, DONE
<1>4. entry.n # 0
  BY <1>3, UnderWay
<1> QED
  BY <1>1, <1>2, <1>3, <1>4, GoesOn

\* Every call ends in a phase, with a status and with a data flag the handlers
\* of the commands expect (TxPhases), so the summary ConfluxApp works with is
\* kept for every stream and every cut.
THEOREM KeepsOutcomesAlways == Spec => []KeepsOutcomes
<1>1. Init => CallInv /\ KeepsOutcomes
  <2> SUFFICES ASSUME Init PROVE CallInv /\ KeepsOutcomes
    OBVIOUS
  <2>1. /\ pc = "wait" /\ result = "PROCESSING" /\ dataPresent = FALSE
        /\ entry = [phase |-> "head", n |-> 0, data |-> FALSE] /\ currentField = 1
    BY DEF Init
  <2>2. /\ entry.phase = "head" /\ entry.n = 0 /\ entry.data = dataPresent
        /\ PhaseOf(currentField) = "head"
    <3>1. entry.phase = "head" /\ entry.n = 0 /\ entry.data = FALSE
      BY <2>1
    <3>2. PhaseOf(currentField) = "head"
      BY <2>1 DEF PhaseOf, V
    <3> QED
      BY <2>1, <3>1, <3>2, Zenon
  <2> DEFINE o == [phase |-> "head", status |-> "PROCESSING"]
  <2>3. /\ o \in [phase : Onwards("head"), status : {"PROCESSING", "FINISHED", "FAULT"}]
        /\ o.phase = "head" /\ o.status = "PROCESSING"
    BY OnwardsValues
  <2>4. o \in TxOutcomes("head", 0)
    <3> HIDE DEF o
    <3> QED
      BY <2>3 DEF TxOutcomes
  <2>5. CallInv
    BY <2>1, <2>2 DEF CallInv
  <2>6. KeepsOutcomes
    BY <2>1, <2>2, <2>4 DEF KeepsOutcomes
  <2> QED
    BY <2>5, <2>6
<1>2. Typed /\ CallInv /\ KeepsOutcomes /\ [Next]_vars => (CallInv /\ KeepsOutcomes)'
  <2> SUFFICES ASSUME Typed, CallInv, KeepsOutcomes, [Next]_vars
               PROVE  CallInv' /\ KeepsOutcomes'
    OBVIOUS
  <2>1. CASE \E n \in 0..MaxChunk : Chunk(n)
    BY <2>1, CallStarts
  <2>2. CASE Parse
    BY <2>2, CallHeader, CallField DEF Parse
  <2>3. CASE UNCHANGED vars
    BY <2>3 DEF vars, position, control, content, CallInv, KeepsOutcomes, PhaseOf
  <2> QED
    BY <2>1, <2>2, <2>3 DEF Next
<1> QED
  BY <1>1, <1>2, TypedInvariant, PTL DEF Spec

-----------------------------------------------------------------------------
\* Headers.

\* The number in a header of two to five bytes, as the parser reads it.
LEMMA LongHeader ==
  ASSUME NEW head \in Seq(Bytes), Len(head) \in 2..5,
         HeaderLength(head[1]) = Len(head)
  PROVE  LongLength(head) = BigEndian(head)
<1>1. \A i \in 1..Len(head) : head[i] \in Nat
  <2>1. \A i \in 1..Len(head) : head[i] \in Bytes
    OBVIOUS
  <2>2. Bytes \subseteq Nat
    BY DEF Bytes
  <2> QED
    BY <2>1, <2>2
<1>2. CASE Len(head) = 2
  BY <1>1, <1>2 DEF LongLength, BigEndian, ByteFromEnd
<1>3. CASE Len(head) = 3
  BY <1>1, <1>3 DEF LongLength, BigEndian, ByteFromEnd
<1>4. CASE Len(head) = 4
  BY <1>1, <1>4 DEF LongLength, BigEndian, ByteFromEnd
<1>5. CASE Len(head) = 5
  BY <1>1, <1>5 DEF LongLength, BigEndian, ByteFromEnd
<1> QED
  BY <1>2, <1>3, <1>4, <1>5

\* A header that announces n bytes is complete with its last byte, never
\* before, and is then read as a header for n bytes.
LEMMA HeaderRead ==
  ASSUME NEW head \in Seq(Bytes), NEW n \in Nat, NEW base, base = 128 \/ base = 192,
         Announces(head, base, n),
         NEW buf \in Seq(Bytes), Len(buf) \in 1..Len(head),
         \A j \in 1..Len(buf) : buf[j] = head[j]
  PROVE  /\ Len(head) \in 1..5
         /\ CanDecode(buf) <=> Len(buf) = Len(head)
         /\ CanDecode(buf) =>
              /\ ValidHeader(buf) /\ ~SelfEncoded(buf) /\ DecodeLength(buf) = n
              /\ IsListHeader(buf) <=> base = 192
<1>1. buf[1] = head[1] /\ Len(head) \in Nat /\ Len(buf) \in Nat
  OBVIOUS
<1>2. CASE n <= 55 /\ head = << base + n >>
  <2>1. Len(head) = 1 /\ head[1] = base + n /\ Len(buf) = 1
    BY <1>2
  <2>2. /\ HeaderLength(buf[1]) = 1 /\ buf[1] = base + n
        /\ buf[1] \notin 188..191 \cup 252..255 /\ ~(buf[1] <= 127)
        /\ buf[1] >= 192 <=> base = 192
    BY <1>1, <1>2, <2>1 DEF HeaderLength
  <2>3. DecodeLength(buf) = n
    BY <2>2 DEF DecodeLength, SelfEncoded, IsListHeader
  <2> QED
    BY <2>1, <2>2, <2>3 DEF CanDecode, ValidHeader, SelfEncoded, IsListHeader
<1>3. CASE Len(head) \in 2..5 /\ head[1] = base + 54 + Len(head) /\ n = BigEndian(head)
  <2> DEFINE b == buf[1]
  <2>0. b = base + 54 + Len(head) /\ b = head[1] /\ Len(head) \in 2..5
    BY <1>1, <1>3
  <2>1. /\ HeaderLength(b) = Len(head) /\ HeaderLength(head[1]) = Len(head)
        /\ b \notin 188..191 \cup 252..255 /\ ~(b <= 127)
        /\ b >= 192 <=> base = 192
    <3>1. /\ HeaderLength(head[1]) = Len(head)
          /\ head[1] \notin 188..191 \cup 252..255 /\ ~(head[1] <= 127)
          /\ head[1] >= 192 <=> base = 192
      <4> DEFINE k == Len(head)
                 c == head[1]
      <4>1. k \in 2..5 /\ c = base + 54 + k
        BY <1>3
      <4> HIDE DEF k, c
      <4>2. /\ HeaderLength(c) = k
            /\ c \notin 188..191 \cup 252..255 /\ ~(c <= 127)
            /\ c >= 192 <=> base = 192
        <5>1. CASE base = 128
          BY <4>1, <5>1 DEF HeaderLength
        <5>2. CASE base = 192
          BY <4>1, <5>2 DEF HeaderLength
        <5> QED
          BY <5>1, <5>2
      <4> QED
        BY <4>2 DEF k, c
    <3>2. b = head[1]
      BY <1>1
    <3> HIDE DEF b
    <3> QED
      BY <3>1, <3>2, Zenon
  <2>2. CanDecode(buf) <=> Len(buf) = Len(head)
    BY <1>1, <2>1 DEF CanDecode
  <2>3. CASE Len(buf) = Len(head)
    <3>1. buf = head
      BY <2>3
    <3>2. DecodeLength(buf) = LongLength(buf)
      <4>1. HeaderLength(b) > 1
        BY <1>3, <2>1, SMTT(30)
      <4> QED
        BY <2>1, <4>1, Zenon DEF DecodeLength, SelfEncoded
    <3>3. LongLength(buf) = n
      BY <1>3, <2>1, <3>1, LongHeader
    <3>4. ValidHeader(buf) /\ ~SelfEncoded(buf) /\ (IsListHeader(buf) <=> base = 192)
      BY <2>1, Zenon DEF ValidHeader, SelfEncoded, IsListHeader
    <3> QED
      <4>1. DecodeLength(buf) = n
        BY <3>2, <3>3, Zenon
      <4>2. Len(head) \in 1..5
        BY <1>3
      <4> QED
        BY <2>2, <3>4, <4>1, <4>2, Zenon
  <2> QED
    BY <1>3, <2>2, <2>3
<1> QED
  BY <1>2, <1>3 DEF Announces

\* A byte below 128 is a header and the string it announces.
LEMMA ByteRead ==
  ASSUME NEW buf \in Seq(Bytes), Len(buf) = 1, buf[1] <= 127
  PROVE  /\ CanDecode(buf) /\ ValidHeader(buf)
         /\ SelfEncoded(buf) /\ ~IsListHeader(buf) /\ DecodeLength(buf) = 1
<1> DEFINE b == buf[1]
<1>1. b \in Bytes /\ b <= 127
  <2>1. 1 \in 1..Len(buf)
    OBVIOUS
  <2>2. buf[1] \in Bytes
    BY <2>1, ElementOfSeq, Zenon
  <2> QED
    BY <2>2
<1>2. b \notin 188..191 \cup 252..255 /\ ~(b >= 192) /\ HeaderLength(b) = 1
  <2> HIDE DEF b
  <2> QED
    BY <1>1 DEF Bytes, HeaderLength
<1>3. ValidHeader(buf) /\ SelfEncoded(buf) /\ ~IsListHeader(buf)
  BY <1>1, <1>2, Zenon DEF ValidHeader, SelfEncoded, IsListHeader
<1>4. CanDecode(buf)
  BY <1>2 DEF CanDecode
<1>5. DecodeLength(buf) = 1
  BY <1>3 DEF DecodeLength
<1> QED
  BY <1>3, <1>4, <1>5

-----------------------------------------------------------------------------
\* Transactions and fields.

\* The parts of a transaction, item by item.
LEMMA Item ==
  ASSUME NEW t \in Transactions, NEW i \in Items
  PROVE  /\ t.head[i] \in Seq(Bytes) /\ t.value[i] \in Seq(Bytes)
         /\ t.at[i] \in Nat /\ t.at[i + 1] = t.at[i] + Len(t.head[i]) + Len(t.value[i])
         /\ i = 1 => t.at[1] = 0 /\ t.value[1] = << >>
         /\ i # 1 => IsString(t.head[i], t.value[i])
<1>1. /\ t.head \in [Items -> Seq(Bytes)] /\ t.value \in [Items -> Seq(Bytes)]
      /\ t.at \in [1..11 -> Nat] /\ t.at[1] = 0 /\ t.value[1] = << >>
      /\ \A k \in 2..10 : IsString(t.head[k], t.value[k])
      /\ \A k \in Items : t.at[k + 1] = t.at[k] + Len(t.head[k]) + Len(t.value[k])
  BY TransactionsAssumption, Zenon
<1>2. i \in 1..11 /\ (i # 1 => i \in 2..10)
  BY DEF Items
<1> QED
  BY <1>1, <1>2, Zenon

\* The field under work, by its number.
LEMMA FieldNumber ==
  ASSUME NEW i \in 1..13, currentField = i
  PROVE  /\ Field = FieldNames[i]
         /\ Field = "content" <=> i = 1
         /\ Field = "nonce" <=> i = 2
         /\ Field \in Numbers \cup {"to"} <=> i \in 2..9
         /\ Field = "data" <=> i = 10
         /\ Field = "v" <=> i = 11
BY DEF Field, FieldNames, Numbers

\* No array is used for two fields.
LEMMA FieldsApart ==
  /\ \A i \in 2..9 : FieldNames[i] \in Numbers \cup {"to"}
  /\ \A i \in 2..9 : FieldNames[i] \in Arrays \ {"data", "v"}
  /\ \A i, j \in 2..9 : FieldNames[i] = FieldNames[j] => i = j
BY DEF FieldNames, Numbers, Arrays

-----------------------------------------------------------------------------
\* The position.

\* The header that is being read, byte by byte: it is complete exactly when the
\* item's header is, and never outgrows rlpBuffer.
LEMMA HeaderByte ==
  ASSUME NEW t \in Transactions, Encodes(stream, t), Typed, Reading,
         NEW i \in Items, HeaderPosition(t, i),
         NEW buf \in Seq(Bytes), Len(buf) = Len(rlpBuffer) + 1,
         \A j \in 1..Len(rlpBuffer) : buf[j] = rlpBuffer[j],
         buf[Len(buf)] = stream[work + 1]
  PROVE  /\ ~CanDecode(buf) =>
              /\ Len(buf) < Len(t.head[i]) /\ Len(buf) = Len(rlpBuffer) + 1
              /\ \A j \in 1..Len(buf) : buf[j] = t.head[i][j]
         /\ CanDecode(buf) =>
              /\ ValidHeader(buf)
              /\ DecodeLength(buf) = Len(t.value[i]) \/ i = 1
              /\ IsListHeader(buf) <=> i = 1
              /\ (IF SelfEncoded(buf) THEN work ELSE work + 1) = t.at[i] + Len(t.head[i])
<1> DEFINE head == t.head[i]
           value == t.value[i]
           k == Len(rlpBuffer)
           p == t.at[i]
<1>1. head \in Seq(Bytes) /\ value \in Seq(Bytes) /\ t.at[i] \in Nat
  BY Item
<1>2. /\ \A j \in DOMAIN head : stream[t.at[i] + j] = head[j]
      /\ \A j \in DOMAIN value : stream[t.at[i] + Len(head) + j] = value[j]
  BY Zenon DEF Encodes
<1>3. /\ work = t.at[i] + k
      /\ rlpBuffer = << >> \/ k < Len(head)
      /\ \A j \in 1..k : rlpBuffer[j] = head[j]
  BY DEF HeaderPosition
<1>4. /\ k \in Nat /\ Len(buf) = k + 1 /\ buf[k + 1] = stream[work + 1]
      /\ \A j \in 1..k : buf[j] = rlpBuffer[j]
  BY DEF Typed, TypeOK
<1>5. CASE head = << >>
  <2>1. Len(head) = 0 /\ k = 0 /\ Len(value) = 1 /\ value[1] <= 127 /\ i # 1
    <3>1. Len(head) = 0
      BY <1>5
    <3>2. ~Announces(head, 128, Len(value)) /\ ~Announces(head, 192, t.list)
      <4> SUFFICES ASSUME NEW base, NEW n, Announces(head, base, n) PROVE FALSE
        OBVIOUS
      <4>1. head = << base + n >> \/ Len(head) \in 2..5
        BY DEF Announces
      <4>2. Len(<< base + n >>) = 1
        OBVIOUS
      <4> HIDE DEF head
      <4> QED
        BY <3>1, <4>1, <4>2
    <3>3. i # 1
      BY <3>2, TransactionsAssumption, Zenon
    <3> QED
      BY <1>3, <1>4, <3>1, <3>2, <3>3, Item DEF IsString
  <2>2. buf[1] = value[1] /\ Len(buf) = 1
    <3>1. 1 \in DOMAIN value
      BY <1>1, <2>1
    <3>2. stream[t.at[i] + Len(head) + 1] = value[1]
      BY <1>2, <3>1
    <3>3. t.at[i] + Len(head) + 1 = work + 1
      BY <1>1, <1>3, <2>1
    <3> QED
      BY <1>4, <2>1, <3>2, <3>3
  <2>3. buf[1] <= 127
    BY <2>1, <2>2
  <2>4. CanDecode(buf) /\ ValidHeader(buf) /\ SelfEncoded(buf) /\ ~IsListHeader(buf)
        /\ DecodeLength(buf) = 1
    BY <1>4, <2>2, <2>3, ByteRead
  <2>5. work = t.at[i] + Len(head)
    BY <1>3, <2>1
  <2> QED
    BY <2>1, <2>4, <2>5
<1>6. CASE head # << >>
  <2>1. PICK n \in Nat, base \in {128, 192} :
          /\ base = 128 \/ base = 192
          /\ base = 192 <=> i = 1
          /\ Announces(head, base, n)
          /\ n = Len(value) \/ i = 1
    <3>1. CASE i = 1
      <4>1. t.list \in Nat /\ Announces(t.head[1], 192, t.list)
        BY TransactionsAssumption, Zenon
      <4> QED
        BY <3>1, <4>1
    <3>2. CASE i # 1
      <4>1. Announces(head, 128, Len(value)) /\ Len(value) \in Nat
        BY <1>1, <1>6, <3>2, Item DEF IsString
      <4> QED
        BY <3>2, <4>1
    <3> QED
      BY <3>1, <3>2
  <2>2. k < Len(head)
    <3>1. Len(head) # 0
      BY <1>1, <1>6, EmptySeq
    <3> QED
      BY <1>1, <1>3, <1>4, <3>1
  <2>3. \A j \in 1..Len(buf) : buf[j] = head[j]
    <3>1. k + 1 \in DOMAIN head
      BY <1>1, <1>4, <2>2
    <3>2. stream[t.at[i] + (k + 1)] = head[k + 1]
      BY <1>2, <3>1
    <3>3. t.at[i] + (k + 1) = work + 1
      <4>1. work = p + k /\ k \in Nat /\ p \in Nat
        BY <1>1, <1>3, <1>4
      <4> HIDE DEF k, p
      <4>2. p + (k + 1) = work + 1
        BY <4>1
      <4> QED
        BY <4>2 DEF p
    <3> QED
      BY <1>3, <1>4, <3>2, <3>3
  <2>4. Len(buf) \in 1..Len(head)
    BY <1>1, <1>4, <2>2
  <2> HIDE DEF head
  <2>5. /\ CanDecode(buf) <=> Len(buf) = Len(head)
        /\ CanDecode(buf) =>
             /\ ValidHeader(buf) /\ ~SelfEncoded(buf) /\ DecodeLength(buf) = n
             /\ IsListHeader(buf) <=> base = 192
    <3>1. head \in Seq(Bytes) /\ n \in Nat /\ (base = 128 \/ base = 192)
          /\ Announces(head, base, n) /\ Len(buf) \in 1..Len(head)
      BY <1>1, <2>1, <2>4
    <3> QED
      BY <2>3, <3>1, HeaderRead
  <2>6. CanDecode(buf) => work + 1 = t.at[i] + Len(head)
    <3>1. work = p + k /\ k \in Nat /\ p \in Nat /\ Len(buf) = k + 1
      BY <1>1, <1>3, <1>4
    <3> HIDE DEF k, p
    <3>2. Len(buf) = Len(head) => work + 1 = p + Len(head)
      BY <3>1
    <3> QED
      BY <2>5, <3>2 DEF p
  <2> QED
    BY <1>1, <1>4, <2>1, <2>3, <2>4, <2>5, <2>6 DEF head
<1> QED
  BY <1>5, <1>6

\* A header byte moves the parser on within the header, or to the item behind it.
LEMMA PositionHeader ==
  ASSUME NEW t \in Transactions, Encodes(stream, t), Typed, Position(t),
         ReadHeader, result' # "FAULT"
  PROVE  /\ Position(t)' /\ currentField' = currentField
         /\ \/ UNCHANGED << processing, fieldPos >>
            \/ ~processing /\ processing' /\ fieldPos' = 0
<1> DEFINE buf == Append(rlpBuffer, stream[work + 1])
<1>1. Reading /\ ~processing
  BY DEF ReadHeader
<1>2. /\ buf \in Seq(Bytes) /\ Len(buf) = Len(rlpBuffer) + 1
      /\ \A j \in 1..Len(rlpBuffer) : buf[j] = rlpBuffer[j]
      /\ buf[Len(buf)] = stream[work + 1]
  <2>1. rlpBuffer \in Seq(Bytes) /\ stream[work + 1] \in Bytes
    BY <1>1 DEF Reading, commandLength, Typed, TypeOK
  <2> QED
    BY <2>1, AppendProperties
<1>3. \/ /\ CanDecode(buf) /\ fieldLength' = DecodeLength(buf)
         /\ isList' = IsListHeader(buf) /\ rlpBuffer' = << >>
         /\ fieldPos' = 0 /\ processing' = TRUE
         /\ work' = IF SelfEncoded(buf) THEN work ELSE work + 1
         /\ UNCHANGED currentField
      \/ /\ ~CanDecode(buf) /\ rlpBuffer' = buf /\ work' = work + 1
         /\ UNCHANGED << currentField, fieldPos, processing >>
  <2>1. ~Fault
    BY DEF Fault, Leave
  <2> QED
    BY <2>1, Zenon DEF ReadHeader
<1> HIDE DEF buf
<1>4. SUFFICES ASSUME NEW i \in Items, currentField = i
               PROVE  IF processing' THEN ItemPosition(t, i)' ELSE HeaderPosition(t, i)'
  BY <1>1, <1>3 DEF Position
<1>5. HeaderPosition(t, i)
  BY <1>1, <1>4 DEF Position
<1>6. /\ ~CanDecode(buf) =>
           /\ Len(buf) < Len(t.head[i]) /\ Len(buf) = Len(rlpBuffer) + 1
           /\ \A j \in 1..Len(buf) : buf[j] = t.head[i][j]
      /\ CanDecode(buf) =>
           /\ DecodeLength(buf) = Len(t.value[i]) \/ i = 1
           /\ IsListHeader(buf) <=> i = 1
           /\ (IF SelfEncoded(buf) THEN work ELSE work + 1) = t.at[i] + Len(t.head[i])
  BY <1>1, <1>2, <1>5, HeaderByte
<1>7. t.at[i] \in Nat /\ Len(t.head[i]) \in Nat
  BY Item
<1>8. CASE CanDecode(buf)
  <2>1. processing' /\ fieldPos' = 0 /\ rlpBuffer' = << >>
        /\ fieldLength' = DecodeLength(buf)
    BY <1>3, <1>8
  <2>2. isList' = (i = 1)
    BY <1>3, <1>6, <1>8 DEF IsListHeader
  <2>3. work' = t.at[i] + Len(t.head[i]) + fieldPos'
    BY <1>3, <1>6, <1>7, <1>8, <2>1
  <2>4. IF i = 1 THEN fieldPos' = 0 ELSE fieldLength' = Len(t.value[i])
    BY <1>6, <1>8, <2>1
  <2> QED
    BY <2>1, <2>2, <2>3, <2>4, Zenon DEF ItemPosition
<1>9. CASE ~CanDecode(buf)
  <2>1. work' = t.at[i] + Len(rlpBuffer')
    <3>1. work = t.at[i] + Len(rlpBuffer) /\ Len(rlpBuffer) \in Nat
      BY <1>5 DEF HeaderPosition, Typed, TypeOK
    <3>2. work' = work + 1 /\ Len(rlpBuffer') = Len(rlpBuffer) + 1
      BY <1>2, <1>3, <1>9
    <3> QED
      BY <1>7, <3>1, <3>2
  <2>2. /\ Len(rlpBuffer') < Len(t.head[i]) /\ ~processing'
        /\ \A j \in 1..Len(rlpBuffer') : rlpBuffer'[j] = t.head[i][j]
    BY <1>1, <1>3, <1>6, <1>9
  <2> QED
    BY <2>1, <2>2 DEF HeaderPosition
<1> QED
  BY <1>8, <1>9

\* A piece of an item moves the parser on within the item, or to the next one,
\* and its bytes are those of the item.
LEMMA PositionPiece ==
  ASSUME NEW t \in Transactions, Encodes(stream, t), Typed, Position(t),
         InField, NEW i \in 2..10, currentField = i,
         NEW n \in Nat, n <= CopySize, Take(n)
  PROVE  /\ Position(t)'
         /\ fieldLength = Len(t.value[i]) /\ fieldPos + n <= fieldLength
         /\ \A k \in 0..(n - 1) : stream[work + 1 + k] = t.value[i][fieldPos + 1 + k]
         /\ fieldPos' = fieldPos + n
         /\ Completed(n) => currentField' = i + 1 /\ ~processing'
         /\ ~Completed(n) => currentField' = i /\ processing' = processing
<1> DEFINE head == t.head[i]
           value == t.value[i]
           p == t.at[i]
<1>1. /\ i \in Items /\ i # 1 /\ head \in Seq(Bytes) /\ value \in Seq(Bytes) /\ p \in Nat
      /\ Len(head) \in Nat /\ Len(value) \in Nat
      /\ t.at[i + 1] = p + Len(head) + Len(value)
  <2>1. i \in Items /\ i # 1
    BY DEF Items
  <2> QED
    BY <2>1, Item
<1>2. /\ processing /\ fieldPos \in Nat /\ fieldLength \in Nat
      /\ fieldPos + n <= fieldLength
  BY PieceType DEF Typed, TypeOK
<1>3. /\ work = p + Len(head) + fieldPos /\ rlpBuffer = << >>
      /\ isList = FALSE /\ fieldLength = Len(value)
  BY <1>1, <1>2 DEF Position, ItemPosition
<1>4. \A k \in 0..(n - 1) : stream[work + 1 + k] = value[fieldPos + 1 + k]
  <2>1. \A j \in DOMAIN value : stream[p + Len(head) + j] = value[j]
    BY <1>1, Zenon DEF Encodes
  <2>2. DOMAIN value = 1..Len(value)
    BY <1>1
  <2> HIDE DEF value, head, p
  <2> SUFFICES ASSUME NEW k \in 0..(n - 1)
               PROVE  stream[work + 1 + k] = value[fieldPos + 1 + k]
    OBVIOUS
  <2>3. fieldPos + 1 + k \in DOMAIN value
    BY <1>1, <1>2, <1>3, <2>2
  <2>4. stream[p + Len(head) + (fieldPos + 1 + k)] = value[fieldPos + 1 + k]
    BY <2>1, <2>3
  <2>5. p + Len(head) + (fieldPos + 1 + k) = work + 1 + k
    BY <1>1, <1>2, <1>3
  <2> QED
    BY <2>4, <2>5
<1>5. /\ work' = work + n /\ fieldPos' = fieldPos + n
      /\ fieldLength' = fieldLength /\ isList' = isList /\ rlpBuffer' = rlpBuffer
      /\ IF Completed(n) THEN NextField ELSE UNCHANGED << currentField, processing >>
  BY Zenon DEF Take, header
<1>6. /\ Completed(n) => currentField' = i + 1 /\ ~processing'
      /\ ~Completed(n) => currentField' = i /\ processing' = processing
  BY <1>5 DEF NextField
<1>7. CASE Completed(n)
  <2>1. work' = t.at[i + 1]
    <3> HIDE DEF p, head, value
    <3> QED
      BY <1>1, <1>2, <1>3, <1>5, <1>7 DEF Completed
  <2>2. Len(rlpBuffer') = 0 /\ rlpBuffer' = << >>
    BY <1>3, <1>5
  <2>3. i + 1 \in Items => t.at[i + 1] \in Nat
    BY Item
  <2>4. i + 1 \in Items => HeaderPosition(t, i + 1)'
    BY <2>1, <2>2, <2>3 DEF HeaderPosition
  <2> QED
    BY <1>2, <1>3, <1>4, <1>5, <1>6, <1>7, <2>4 DEF Position
<1>8. CASE ~Completed(n)
  <2>1. work' = t.at[i] + Len(t.head[i]) + fieldPos'
    <3>1. work' = p + Len(head) + fieldPos'
      <4> HIDE DEF p, head, value
      <4> QED
        BY <1>1, <1>2, <1>3, <1>5
    <3> QED
      BY <3>1
  <2>2. ItemPosition(t, i)'
    BY <1>1, <1>3, <1>5, <2>1 DEF ItemPosition
  <2> QED
    BY <1>2, <1>3, <1>4, <1>5, <1>6, <1>8, <2>2 DEF Position
<1> QED
  BY <1>7, <1>8

\* Between two steps of a call, and between two calls, the parser stays where
\* it is: a call that returns has read all that was delivered.
LEMMA PositionStays ==
  ASSUME NEW t \in Transactions, Typed, HashInv, Position(t),
         Stop \/ UNCHANGED vars \/ \E n \in 0..MaxChunk : Chunk(n)
  PROVE  /\ Position(t)'
         /\ UNCHANGED << stream, currentField, processing, fieldPos >>
<1>1. UNCHANGED << stream, header, currentField, processing, fieldPos >>
  BY DEF Stop, Chunk, vars
<1>2. work' = work \/ currentField \notin Items
  <2>1. CASE \E n \in 0..MaxChunk : Chunk(n)
    <3>1. pc = "wait" /\ result # "FAULT" /\ work' = limit
      BY <2>1 DEF Chunk
    <3>2. currentField \in Items => currentField # DONE
      BY DEF Items, DONE
    <3> QED
      BY <3>1, <3>2 DEF HashInv
  <2>2. CASE Stop \/ UNCHANGED vars
    BY <2>2 DEF Stop, vars, position
  <2> QED
    BY <2>1, <2>2
<1> QED
  BY <1>1, <1>2 DEF Position, HeaderPosition, ItemPosition, header

\* Behind the header of the list comes the first item.
LEMMA PositionList ==
  ASSUME NEW t \in Transactions, Typed, Position(t), ProcessContent
  PROVE  Position(t)' /\ currentField = 1 /\ currentField' = 2 /\ ~processing'
<1>1. InField /\ processing /\ currentField \in 1..13
  BY PieceType DEF ProcessContent, DONE
<1>2. currentField = 1
  BY <1>1, FieldNumber DEF ProcessContent
<1>3. /\ work' = work /\ rlpBuffer' = rlpBuffer /\ currentField' = 2 /\ ~processing'
  BY <1>2 DEF ProcessContent, NextField, position, header
<1>4. 1 \in Items /\ 1 + 1 = 2
  BY DEF Items
<1>5. /\ t.at[1] \in Nat /\ t.at[2] = t.at[1] + Len(t.head[1]) + Len(t.value[1])
      /\ t.value[1] = << >> /\ t.head[1] \in Seq(Bytes)
  <2>1. /\ t.at[1] \in Nat /\ t.at[1 + 1] = t.at[1] + Len(t.head[1]) + Len(t.value[1])
        /\ t.value[1] = << >> /\ t.head[1] \in Seq(Bytes)
    BY <1>4, Item
  <2> QED
    BY <1>4, <2>1
<1>6. /\ work = t.at[1] + Len(t.head[1]) + fieldPos /\ rlpBuffer = << >> /\ fieldPos = 0
  BY <1>1, <1>2, <1>4 DEF Position, ItemPosition
<1>7. work' = t.at[2]
  <2> DEFINE p == t.at[1]
             q == t.at[2]
             h == Len(t.head[1])
  <2>1. p \in Nat /\ h \in Nat /\ q = p + h + 0 /\ work = p + h + 0 /\ work' = work
    BY <1>3, <1>5, <1>6
  <2> HIDE DEF p, q, h
  <2>2. work' = q
    BY <2>1
  <2> QED
    BY <2>2 DEF q
<1>8. HeaderPosition(t, 2)'
  <2>1. t.at[2] \in Nat
    BY Item DEF Items
  <2>2. rlpBuffer' = << >> /\ Len(rlpBuffer') = 0
    BY <1>3, <1>6
  <2> QED
    BY <1>7, <2>1, <2>2 DEF HeaderPosition
<1> QED
  BY <1>2, <1>3, <1>8 DEF Position

-----------------------------------------------------------------------------
\* What is stored.

\* A piece stored behind what is there already, the first m bytes of which
\* continue the string.
LEMMA StoredGrows ==
  ASSUME Typed, NEW f \in Arrays, NEW s, NEW at \in Nat, NEW n \in Int, NEW m \in Nat,
         m <= n, Stored(f, at, n), StoredUpTo(f, s, at),
         \A k \in 0..(m - 1) : stream[work + 1 + k] = s[at + 1 + k]
  PROVE  StoredUpTo(f, s, at + m)'
<1> DEFINE old == cells[f]
           new == cells'[f]
<1>1. new = Write(old, at, n)
  BY DEF Stored, Typed, TypeOK
<1>2. /\ DOMAIN new = DOMAIN old \cup at..(at + n - 1)
      /\ \A i \in at..(at + n - 1) : new[i] = stream[work + 1 + i - at]
      /\ \A i \in DOMAIN old \ (at..(at + n - 1)) : new[i] = old[i]
  <2> HIDE DEF old, new
  <2> QED
    BY <1>1 DEF Write
<1>3. \A j \in 1..at : j - 1 \in DOMAIN old /\ old[j - 1] = s[j]
  BY DEF StoredUpTo
<1>4. ASSUME NEW j \in 1..(at + m)
      PROVE  j - 1 \in DOMAIN new /\ new[j - 1] = s[j]
  <2> HIDE DEF old, new
  <2>1. CASE j - 1 < at
    <3>1. j \in 1..at /\ j - 1 \notin at..(at + n - 1)
      BY <2>1
    <3> QED
      BY <1>2, <1>3, <3>1
  <2>2. CASE ~(j - 1 < at)
    <3> DEFINE k == j - 1 - at
    <3>1. /\ j - 1 \in at..(at + n - 1) /\ k \in 0..(m - 1)
          /\ work + 1 + (j - 1) - at = work + 1 + k /\ at + 1 + k = j
      <4>1. work \in Int
        BY DEF Typed, TypeOK
      <4>2. j \in Int /\ j >= at + 1 /\ j <= at + m
        BY <2>2
      <4> QED
        BY <4>1, <4>2
    <3>2. new[j - 1] = stream[work + 1 + (j - 1) - at]
      BY <1>2, <3>1
    <3> HIDE DEF k
    <3>3. stream[work + 1 + k] = s[at + 1 + k]
      BY <3>1
    <3> QED
      BY <1>2, <3>1, <3>2, <3>3
  <2> QED
    BY <2>1, <2>2
<1> QED
  BY <1>4 DEF StoredUpTo

\* The arrays a step leaves alone hold what they held.
LEMMA HoldsOn ==
  ASSUME NEW f, cells'[f] = cells[f], lengths'[f] = lengths[f], NEW s, NEW n
  PROVE  /\ StoredUpTo(f, s, n) => StoredUpTo(f, s, n)'
         /\ Holds(f, s) => Holds(f, s)'
BY DEF StoredUpTo, Holds

\* Steps that store nothing of the first ten items, and begin or end none that
\* is stored.
LEMMA ContentStays ==
  ASSUME NEW t \in Transactions, Typed, Decoding(t),
         \A f \in Arrays \ {"v"} : cells'[f] = cells[f] /\ lengths'[f] = lengths[f],
         dataPresent' = dataPresent,
         \/ UNCHANGED << currentField, processing, fieldPos >>
         \/ currentField' = currentField /\ ~processing /\ processing' /\ fieldPos' = 0
         \/ currentField = 1 /\ currentField' = 2
         \/ currentField > 10 /\ currentField' \in {currentField, currentField + 1}
  PROVE  NumbersStored(t)' /\ DataStored(t)' /\ FlagKept(t)'
<1>1. currentField \in 1..DONE
  BY DEF Typed, TypeOK
<1>5. \/ UNCHANGED << currentField, processing, fieldPos >>
      \/ fieldPos' = 0
      \/ currentField' \notin 3..10
  <2>1. CASE currentField > 10 /\ currentField' \in {currentField, currentField + 1}
    BY <1>1, <2>1
  <2> QED
    BY <2>1
<1>2. NumbersStored(t)'
  <2> SUFFICES ASSUME NEW i \in 3..9
               PROVE  /\ i < currentField' => Holds(FieldNames[i], t.value[i])'
                      /\ i = currentField' /\ processing' =>
                           StoredUpTo(FieldNames[i], t.value[i], fieldPos)'
    BY DEF NumbersStored
  <2> DEFINE f == FieldNames[i]
             value == t.value[i]
  <2>1. f \in Arrays \ {"v"}
    BY FieldsApart
  <2>2. cells'[f] = cells[f] /\ lengths'[f] = lengths[f]
    BY <2>1
  <2>3. /\ i < currentField => Holds(f, value)
        /\ i = currentField /\ processing => StoredUpTo(f, value, fieldPos)
    BY DEF Decoding, NumbersStored
  <2> HIDE DEF f, value
  <2>4. i < currentField' => Holds(f, value)'
    <3>1. i < currentField' => i < currentField
      BY <1>1
    <3> QED
      BY <2>2, <2>3, <3>1, HoldsOn
  <2>5. i = currentField' /\ processing' => StoredUpTo(f, value, fieldPos)'
    <3>1. CASE UNCHANGED << currentField, processing, fieldPos >>
      <4>1. StoredUpTo(f, value, fieldPos) => StoredUpTo(f, value, fieldPos)'
        BY <2>2, <3>1 DEF StoredUpTo
      <4> QED
        BY <2>3, <3>1, <4>1
    <3>2. CASE fieldPos' = 0
      BY <3>2 DEF StoredUpTo
    <3>3. CASE currentField' \notin 3..10
      <4>1. i # currentField'
        BY <3>3
      <4> QED
        BY <4>1
    <3> QED
      BY <1>5, <3>1, <3>2, <3>3, Zenon
  <2> QED
    BY <2>4, <2>5 DEF f, value
<1>3. DataStored(t)'
  <2> DEFINE data == t.value[10]
             all == Least(SELECTOR_LENGTH, Len(data))
  <2>1. "data" \in Arrays \ {"v"}
    BY DEF Arrays
  <2>2. cells'["data"] = cells["data"] /\ lengths'["data"] = lengths["data"]
    BY <2>1
  <2>3. /\ currentField > 10 \/ data = << >> => lengths["data"] = Len(data) % 256
        /\ currentField > 10 => StoredUpTo("data", data, all)
        /\ currentField = 10 /\ processing =>
             /\ StoredUpTo("data", data, Least(SELECTOR_LENGTH, fieldPos))
             /\ fieldPos > 0 => lengths["data"] = Len(data) % 256
    BY DEF Decoding, DataStored
  <2> HIDE DEF data, all
  <2>4. currentField' > 10 => currentField > 10
    BY <1>1
  <2>5. currentField' > 10 \/ data = << >> => lengths'["data"] = Len(data) % 256
    BY <2>2, <2>3, <2>4
  <2>6. currentField' > 10 => StoredUpTo("data", data, all)'
    BY <2>2, <2>3, <2>4, HoldsOn
  <2>7. currentField' = 10 /\ processing' =>
          /\ StoredUpTo("data", data, Least(SELECTOR_LENGTH, fieldPos))'
          /\ fieldPos' > 0 => lengths'["data"] = Len(data) % 256
    <3>1. CASE UNCHANGED << currentField, processing, fieldPos >>
      <4>1. Least(SELECTOR_LENGTH, fieldPos)' = Least(SELECTOR_LENGTH, fieldPos)
        BY <3>1
      <4>2. StoredUpTo("data", data, Least(SELECTOR_LENGTH, fieldPos)) =>
              StoredUpTo("data", data, Least(SELECTOR_LENGTH, fieldPos))'
        BY <2>2, <4>1, Zenon DEF StoredUpTo
      <4> QED
        BY <2>2, <2>3, <3>1, <4>2
    <3>2. CASE fieldPos' = 0
      <4>1. Least(SELECTOR_LENGTH, fieldPos)' = 0
        BY <3>2, SizesAssumption DEF Least
      <4>2. StoredUpTo("data", data, Least(SELECTOR_LENGTH, fieldPos))'
        BY <4>1 DEF StoredUpTo
      <4> QED
        BY <3>2, <4>2
    <3>3. CASE currentField' \notin 3..10
      BY <3>3
    <3> QED
      BY <1>5, <3>1, <3>2, <3>3, Zenon
  <2> QED
    BY <2>5, <2>6, <2>7 DEF DataStored, data, all
<1>4. FlagKept(t)'
  <2>1. NoDataSent(t) =>
          ~dataPresent \/ (currentField = 10 /\ processing /\ fieldPos = 0 /\ Len(t.value[10]) = 1)
    BY DEF Decoding, FlagKept
  <2> QED
    BY <2>1 DEF FlagKept
<1> QED
  BY <1>2, <1>3, <1>4

\* A piece of a number or of the address.
LEMMA DecodingNumber ==
  ASSUME NEW t \in Transactions, Encodes(stream, t), Typed, Decoding(t), ProcessNumber,
         NEW i, i = currentField, NEW p, p = fieldPos, NEW n, n = CopySize
  PROVE  Decoding(t)'
<1>1. /\ InField /\ processing /\ i \in 1..13 /\ n \in Nat /\ n \in Int
      /\ p \in Nat /\ p + n <= fieldLength
  BY PieceType DEF ProcessNumber, DONE, Typed, TypeOK
<1>2. i \in 2..9 /\ Field = FieldNames[i]
  BY <1>1, FieldNumber DEF ProcessNumber
<1>3. /\ Position(t)'
      /\ fieldLength = Len(t.value[i])
      /\ \A k \in 0..(n - 1) : stream[work + 1 + k] = t.value[i][p + 1 + k]
      /\ fieldPos' = p + n
      /\ Completed(n) => currentField' = i + 1 /\ ~processing'
      /\ ~Completed(n) => currentField' = i /\ processing' = processing
  <2>1. Position(t) /\ Take(n) /\ i \in 2..10 /\ n <= CopySize
    BY <1>1, <1>2 DEF Decoding, ProcessNumber
  <2> QED
    BY <1>1, <2>1, PositionPiece
<1>4. fieldLength \in 0..255
  <2>1. Field \in Numbers \cup {"to"} /\ Field \in Arrays /\ ~TooLong
    BY <1>2, FieldsApart DEF ProcessNumber
  <2>2. SizeOf(Field) \in 1..255
    BY <2>1, SizesType, Zenon
  <2>3. ~(fieldLength > SizeOf(Field))
    BY <2>1, Zenon DEF TooLong
  <2>4. fieldLength \in Nat
    BY DEF Typed, TypeOK
  <2> DEFINE size == SizeOf(Field)
  <2>5. size \in 1..255 /\ ~(fieldLength > size)
    BY <2>2, <2>3
  <2> HIDE DEF size
  <2> QED
    BY <2>4, <2>5
<1>5. /\ \A g \in Arrays : g # Field => cells'[g] = cells[g] /\ lengths'[g] = lengths[g]
      /\ Completed(n) => lengths'[Field] = fieldLength
  <2>1. Field \in Arrays
    BY <1>2, FieldsApart
  <2>2. Completed(n) => lengths' = [lengths EXCEPT ![Field] = fieldLength % 256]
    BY Zenon DEF ProcessNumber, LengthMember
  <2>3. ~Completed(n) => lengths' = lengths
    BY Zenon DEF ProcessNumber, LengthMember
  <2>4. fieldLength % 256 = fieldLength
    BY <1>4
  <2>5. \A g \in Arrays : g # Field => cells'[g] = cells[g]
    BY DEF ProcessNumber, Typed, TypeOK
  <2>6. lengths \in [Arrays -> Bytes]
    BY DEF Typed, TypeOK
  <2> QED
    BY <2>1, <2>2, <2>3, <2>4, <2>5, <2>6
<1>6. ASSUME NEW j \in 3..9, j # i
      PROVE  /\ j < currentField' => Holds(FieldNames[j], t.value[j])'
             /\ j = currentField' /\ processing' =>
                  StoredUpTo(FieldNames[j], t.value[j], fieldPos)'
  <2>1. FieldNames[j] \in Arrays /\ FieldNames[j] # Field
    BY <1>2, <1>6, FieldsApart
  <2>2. cells'[FieldNames[j]] = cells[FieldNames[j]]
        /\ lengths'[FieldNames[j]] = lengths[FieldNames[j]]
    BY <1>5, <2>1
  <2>3. j < currentField' => j < i
    BY <1>2, <1>3, <1>6
  <2>4. ~(j = currentField' /\ processing')
    BY <1>2, <1>3, <1>6
  <2>5. j < i => Holds(FieldNames[j], t.value[j])
    BY DEF Decoding, NumbersStored
  <2> QED
    BY <2>2, <2>3, <2>4, <2>5, HoldsOn
<1>7. ASSUME i \in 3..9
      PROVE  /\ i < currentField' => Holds(FieldNames[i], t.value[i])'
             /\ i = currentField' /\ processing' =>
                  StoredUpTo(FieldNames[i], t.value[i], fieldPos)'
  <2> DEFINE f == FieldNames[i]
             value == t.value[i]
  <2>1. f \in Arrays /\ f = Field /\ f # "nonce"
    BY <1>2, <1>7 DEF FieldNames, Arrays, Numbers
  <2>2. Stored(f, p, n)
    <3>1. Stored(Field, fieldPos, CopySize)
      BY <2>1, Zenon DEF ProcessNumber, PieceOffset, Stored
    <3> QED
      BY <2>1, <3>1
  <2>3. StoredUpTo(f, value, p)
    BY <1>1, <1>7 DEF Decoding, NumbersStored
  <2>4. \A k \in 0..(n - 1) : stream[work + 1 + k] = value[p + 1 + k]
    BY <1>3
  <2> HIDE DEF f, value
  <2>5. StoredUpTo(f, value, p + n)'
    BY <1>1, <2>1, <2>2, <2>3, <2>4, StoredGrows
  <2>6. i < currentField' => Holds(f, value)'
    <3>1. i < currentField' => Completed(n)
      BY <1>2, <1>3
    <3>2. Completed(n) => p + n = Len(value) /\ lengths'[f] = Len(value)
      BY <1>3, <1>5, <2>1 DEF Completed, value
    <3>3. p + n = Len(value) => StoredUpTo(f, value, Len(value))'
      BY <2>5
    <3> QED
      BY <3>1, <3>2, <3>3 DEF Holds
  <2>7. StoredUpTo(f, value, fieldPos)'
    BY <1>3, <2>5
  <2> QED
    BY <2>6, <2>7 DEF f, value
<1>8. NumbersStored(t)'
  BY <1>6, <1>7 DEF NumbersStored
<1>9. cells'["data"] = cells["data"] /\ lengths'["data"] = lengths["data"]
  <2>1. "data" \in Arrays /\ "data" # Field
    BY <1>2, FieldsApart DEF Arrays
  <2> QED
    BY <1>5, <2>1
<1>10. DataStored(t)'
  <2>1. ~(currentField' > 10) /\ ~(currentField' = 10 /\ processing')
    BY <1>2, <1>3
  <2>2. t.value[10] = << >> => lengths["data"] = Len(t.value[10]) % 256
    BY DEF Decoding, DataStored
  <2> QED
    BY <1>9, <2>1, <2>2 DEF DataStored
<1>11. FlagKept(t)'
  <2>1. dataPresent' = dataPresent /\ currentField # 10
    BY <1>2 DEF ProcessNumber
  <2> QED
    BY <2>1 DEF Decoding, FlagKept
<1> QED
  BY <1>3, <1>8, <1>10, <1>11 DEF Decoding

\* A piece of the data.
LEMMA DecodingData ==
  ASSUME NEW t \in Transactions, Encodes(stream, t), Typed, Decoding(t), ProcessData,
         NEW p, p = fieldPos, NEW n, n = CopySize
  PROVE  Decoding(t)'
<1> DEFINE data == t.value[10]
           sel == SELECTOR_LENGTH
<1>1. /\ InField /\ processing /\ currentField \in 1..13 /\ n \in Nat
      /\ p \in Nat /\ p + n <= fieldLength /\ fieldLength \in Nat
      /\ commandLength \in Nat /\ sel \in Nat /\ sel > 0
      /\ n = Least(commandLength, fieldLength - p)
  BY PieceType, SizesAssumption DEF ProcessData, DONE, Typed, TypeOK, CopySize
<1>2. currentField = 10
  BY <1>1, FieldNumber DEF ProcessData
<1>3. /\ Position(t)'
      /\ fieldLength = Len(data)
      /\ \A k \in 0..(n - 1) : stream[work + 1 + k] = data[p + 1 + k]
      /\ fieldPos' = p + n
      /\ Completed(n) => currentField' = 11 /\ ~processing'
      /\ ~Completed(n) => currentField' = 10 /\ processing' = processing
  <2>1. Position(t) /\ Take(n) /\ 10 \in 2..10 /\ n <= CopySize /\ 10 + 1 = 11
    BY <1>1, <1>2 DEF Decoding, ProcessData
  <2> QED
    BY <1>1, <1>2, <2>1, PositionPiece
<1>4. /\ data = << >> => lengths["data"] = Len(data) % 256
      /\ StoredUpTo("data", data, Least(sel, p))
      /\ p > 0 => lengths["data"] = Len(data) % 256
  BY <1>1, <1>2 DEF Decoding, DataStored
<1>5. \A g \in Arrays : g # "data" => cells'[g] = cells[g] /\ lengths'[g] = lengths[g]
  BY DEF ProcessData, Typed, TypeOK
<1>6. /\ p < sel /\ fieldLength > 0 =>
           /\ lengths'["data"] = Len(data) % 256
           /\ Stored("data", p, Least(commandLength, Least(fieldLength, sel - p)))
      /\ ~(p < sel /\ fieldLength > 0) => UNCHANGED << lengths, cells >>
  <2>1. "data" \in Arrays /\ lengths \in [Arrays -> Bytes]
    BY DEF Arrays, Typed, TypeOK
  <2>2. CASE p < sel /\ fieldLength > 0
    <3>1. lengths' = [lengths EXCEPT !["data"] = fieldLength % 256]
      BY <2>2, Zenon DEF ProcessData
    <3>2. Stored("data", fieldPos, Least(commandLength, Least(fieldLength, sel - fieldPos)))
      BY <2>2, Zenon DEF ProcessData, Stored
    <3>3. lengths'["data"] = fieldLength % 256
      BY <2>1, <3>1
    <3>4. Stored("data", p, Least(commandLength, Least(fieldLength, sel - p)))
      BY <3>2, Zenon
    <3> HIDE DEF data
    <3> QED
      BY <1>3, <2>2, <3>3, <3>4
  <2>3. CASE ~(p < sel /\ fieldLength > 0)
    BY <2>3, Zenon DEF ProcessData
  <2> QED
    BY <2>2, <2>3
<1>7. lengths'["data"] = Len(data) % 256
  <2>1. fieldLength = 0 => data = << >>
    <3>1. 10 \in Items
      BY DEF Items
    <3>2. data \in Seq(Bytes)
      BY <3>1, Item
    <3> HIDE DEF data
    <3> QED
      BY <1>3, <3>2, EmptySeq
  <2>2. CASE ~(p < sel /\ fieldLength > 0)
    <3>1. data = << >> \/ p > 0
      BY <1>1, <2>1, <2>2
    <3> QED
      BY <1>4, <1>6, <2>2, <3>1
  <2> QED
    BY <1>6, <2>2
<1>8. StoredUpTo("data", data, Least(sel, p + n))'
  <2> HIDE DEF data
  <2>1. CASE p < sel /\ fieldLength > 0
    <3> DEFINE w == Least(commandLength, Least(fieldLength, sel - p))
               m == Least(w, n)
    <3>1. w \in Int /\ m \in Nat /\ m <= w /\ m <= n /\ Least(sel, p) = p
          /\ Least(sel, p + n) <= p + m
      BY <1>1, <2>1 DEF Least
    <3>2. Stored("data", p, w)
      BY <1>6, <2>1
    <3>3. \A k \in 0..(m - 1) : stream[work + 1 + k] = data[p + 1 + k]
      <4> HIDE DEF m
      <4>1. m \in Nat /\ m <= n /\ n \in Nat
        BY <1>1, <3>1
      <4>2. \A k \in 0..(m - 1) : k \in 0..(n - 1)
        BY <4>1
      <4> QED
        BY <1>3, <4>2
    <3>4. StoredUpTo("data", data, p) /\ "data" \in Arrays
      BY <1>4, <3>1 DEF Arrays
    <3>5. PICK x \in Int, y \in Nat : x = w /\ y = m
      BY <3>1
    <3>6. StoredUpTo("data", data, p + y)'
      <4> HIDE DEF w, m
      <4> QED
        BY <1>1, <3>1, <3>2, <3>3, <3>4, <3>5, StoredGrows
    <3>7. \A j \in 1..Least(sel, p + n) : j \in 1..(p + y)
      BY <1>1, <3>1, <3>5 DEF Least
    <3> QED
      <4>1. \A j \in 1..(p + y) : j - 1 \in DOMAIN cells'["data"] /\ cells'["data"][j - 1] = data[j]
        BY <3>6 DEF StoredUpTo
      <4>2. \A j \in 1..Least(sel, p + n) :
              j - 1 \in DOMAIN cells'["data"] /\ cells'["data"][j - 1] = data[j]
        BY <3>7, <4>1
      <4> QED
        BY <4>2 DEF StoredUpTo
  <2>2. CASE ~(p < sel /\ fieldLength > 0)
    <3>1. cells'["data"] = cells["data"]
      BY <1>6, <2>2
    <3>2. Least(sel, p + n) = Least(sel, p)
      BY <1>1, <2>2 DEF Least
    <3>3. PICK z : z = Least(sel, p + n)
      OBVIOUS
    <3>4. StoredUpTo("data", data, z)
      BY <1>4, <3>2, <3>3
    <3>5. StoredUpTo("data", data, z)'
      BY <3>1, <3>4 DEF StoredUpTo
    <3> QED
      BY <3>3, <3>5
  <2> QED
    BY <2>1, <2>2
<1>9. DataStored(t)'
  <2>1. currentField' > 10 => StoredUpTo("data", data, Least(sel, Len(data)))'
    <3>1. currentField' > 10 => p + n = Len(data)
      BY <1>2, <1>3 DEF Completed
    <3> QED
      BY <1>8, <3>1
  <2>2. StoredUpTo("data", data, Least(sel, fieldPos))'
    BY <1>3, <1>8
  <2> QED
    BY <1>7, <2>1, <2>2 DEF DataStored
<1>10. NumbersStored(t)'
  <2> SUFFICES ASSUME NEW j \in 3..9
               PROVE  Holds(FieldNames[j], t.value[j])' /\ j # currentField'
    BY DEF NumbersStored
  <2>1. FieldNames[j] \in Arrays /\ FieldNames[j] # "data"
    BY FieldsApart
  <2>2. Holds(FieldNames[j], t.value[j])
    BY <1>2 DEF Decoding, NumbersStored
  <2>3. j # currentField'
    BY <1>3
  <2> QED
    BY <1>5, <2>1, <2>2, <2>3, HoldsOn
<1>11. FlagKept(t)'
  <2> SUFFICES ASSUME NoDataSent(t)
               PROVE  \/ ~dataPresent'
                      \/ currentField' = 10 /\ processing' /\ fieldPos' = 0 /\ Len(data) = 1
    BY DEF FlagKept, NoDataSent
  <2>1. ~dataPresent \/ (p = 0 /\ Len(data) = 1)
    BY DEF Decoding, FlagKept
  <2>2. data = << >> \/ data = << 0 >>
    BY DEF NoDataSent
  <2> HIDE DEF data
  <2>3. /\ data = << >> => Len(data) = 0
        /\ data = << 0 >> => Len(data) = 1 /\ data[1] = 0
    OBVIOUS
  <2>4. CASE ~(p < fieldLength)
    <3>1. dataPresent' = dataPresent
      BY <2>4 DEF ProcessData
    <3>2. ~(p = 0 /\ Len(data) = 1)
      BY <1>3, <2>4
    <3> QED
      BY <2>1, <3>1, <3>2
  <2>5. CASE p < fieldLength
    <3>1. Len(data) = 1 /\ p = 0 /\ data[1] = 0
      BY <1>1, <1>3, <2>2, <2>3, <2>5
    <3>2. n \in {0, 1} /\ dataPresent' = ~NoData
      BY <1>1, <1>3, <2>5, <3>1 DEF ProcessData
    <3>3. CASE n = 1
      <4>1. stream[work + 1 + 0] = data[p + 1 + 0]
        BY <1>3, <3>3
      <4>2. NoData
        BY <3>1, <3>3, <4>1 DEF NoData, Typed, TypeOK
      <4> QED
        BY <3>2, <4>2
    <3>4. CASE n = 0
      <4>1. ~Completed(n) /\ fieldPos' = 0
        BY <1>3, <3>1, <3>4 DEF Completed
      <4> QED
        BY <1>1, <1>3, <3>1, <4>1
    <3> QED
      BY <3>2, <3>3, <3>4
  <2> QED
    BY <2>4, <2>5
<1> QED
  BY <1>3, <1>9, <1>10, <1>11 DEF Decoding

-----------------------------------------------------------------------------
\* The invariant.

\* Before the first chunk.
LEMMA DecodeInit == Init => DecodeInv
<1> SUFFICES ASSUME Init PROVE DecodeInv
  OBVIOUS
<1>1. /\ result = "PROCESSING" /\ work = 0 /\ currentField = 1 /\ ~processing
      /\ rlpBuffer = << >> /\ Len(rlpBuffer) = 0 /\ ~dataPresent /\ lengths["data"] = 0
  BY DEF Init, Arrays
<1>2. ASSUME NEW t \in Transactions
      PROVE  Decoding(t)
  <2>1. Position(t)
    <3>1. t.at[1] = 0
      BY Item DEF Items
    <3> QED
      BY <1>1, <3>1 DEF Position, HeaderPosition
  <2>2. NumbersStored(t)
    BY <1>1 DEF NumbersStored
  <2>3. DataStored(t)
    <3> DEFINE data == t.value[10]
    <3>1. data = << >> => Len(data) % 256 = 0
      <4>1. Len(<< >>) = 0 /\ 0 % 256 = 0
        OBVIOUS
      <4> HIDE DEF data
      <4> QED
        BY <4>1
    <3>2. ~(currentField > 10) /\ currentField # 10
      BY <1>1
    <3> HIDE DEF data
    <3>3. data = << >> => lengths["data"] = Len(data) % 256
      BY <1>1, <3>1
    <3> QED
      BY <3>2, <3>3, Zenon DEF DataStored, data
  <2>4. FlagKept(t)
    BY <1>1 DEF FlagKept
  <2> QED
    BY <2>1, <2>2, <2>3, <2>4 DEF Decoding
<1> QED
  BY <1>1, <1>2 DEF DecodeInv

\* A step keeps what is known of a transaction, unless it ends in a fault.
LEMMA DecodingNext ==
  ASSUME NEW t \in Transactions, Encodes(stream, t), Typed, HashInv, Decoding(t),
         [Next]_vars, result' # "FAULT"
  PROVE  Decoding(t)'
<1>1. CASE Stop \/ UNCHANGED vars \/ \E n \in 0..MaxChunk : Chunk(n)
  <2>1. /\ Position(t)' /\ UNCHANGED << currentField, processing, fieldPos >>
    BY <1>1, PositionStays DEF Decoding
  <2>2. /\ \A f \in Arrays \ {"v"} : cells'[f] = cells[f] /\ lengths'[f] = lengths[f]
        /\ dataPresent' = dataPresent
    <3>1. dataPresent' = dataPresent /\ cells' = cells
      BY <1>1 DEF Stop, Chunk, vars, content
    <3>2. lengths' = lengths \/ lengths' = [lengths EXCEPT !["v"] = 0]
      BY <1>1 DEF Stop, Chunk, vars, content
    <3>3. lengths \in [Arrays -> Bytes]
      BY DEF Typed, TypeOK
    <3> QED
      BY <3>1, <3>2, <3>3
  <2> QED
    BY <2>1, <2>2, ContentStays DEF Decoding
<1>2. CASE ReadHeader
  <2>1. /\ Position(t)' /\ currentField' = currentField
        /\ \/ UNCHANGED << processing, fieldPos >>
           \/ ~processing /\ processing' /\ fieldPos' = 0
    BY <1>2, PositionHeader DEF Decoding
  <2>2. UNCHANGED content
    BY <1>2, Zenon DEF ReadHeader, Fault
  <2>3. /\ \A f \in Arrays \ {"v"} : cells'[f] = cells[f] /\ lengths'[f] = lengths[f]
        /\ dataPresent' = dataPresent
    BY <2>2 DEF content
  <2> QED
    BY <2>1, <2>3, ContentStays DEF Decoding
<1>3. CASE ProcessContent
  <2>1. Position(t)' /\ currentField = 1 /\ currentField' = 2
    BY <1>3, PositionList DEF Decoding
  <2>2. /\ \A f \in Arrays \ {"v"} : cells'[f] = cells[f] /\ lengths'[f] = lengths[f]
        /\ dataPresent' = dataPresent
    BY <1>3 DEF ProcessContent, content
  <2> QED
    BY <2>1, <2>2, ContentStays DEF Decoding
<1>4. CASE ProcessV \/ ProcessAndDiscard
  <2>1. InField /\ currentField \in 1..13
    BY <1>4, PieceType DEF ProcessV, ProcessAndDiscard, DONE
  <2>2. currentField > 10
    <3>1. Field \in {"v", "r", "s"}
      BY <1>4 DEF ProcessV, ProcessAndDiscard
    <3> QED
      BY <2>1, <3>1 DEF Field, FieldNames
  <2>3. currentField' \in {currentField, currentField + 1}
    <3>1. PICK n \in Nat : Take(n)
      BY <1>4, TakesAPiece
    <3> QED
      BY <3>1 DEF Take, NextField
  <2>4. Position(t)'
    BY <2>1, <2>2, <2>3 DEF Position, Items
  <2>5. /\ \A f \in Arrays \ {"v"} : cells'[f] = cells[f] /\ lengths'[f] = lengths[f]
        /\ dataPresent' = dataPresent
    BY <1>4 DEF ProcessV, ProcessAndDiscard, LengthMember, content, Typed, TypeOK
  <2> QED
    BY <2>2, <2>3, <2>4, <2>5, ContentStays DEF Decoding
<1>5. CASE ProcessNumber
  BY <1>5, DecodingNumber
<1>6. CASE ProcessData
  BY <1>6, DecodingData
<1>7. ~WrongField
  BY DEF WrongField, Fault, Leave
<1> QED
  BY <1>1, <1>2, <1>3, <1>4, <1>5, <1>6, <1>7 DEF Next, Parse

\* A call that finishes has read the data.
LEMMA FinishedNext ==
  ASSUME Typed, result = "FINISHED" => currentField >= V, [Next]_vars
  PROVE  result' = "FINISHED" => currentField' >= V
<1>1. currentField \in 1..DONE
  BY DEF Typed, TypeOK
<1>2. currentField' = currentField \/ currentField' = currentField + 1
  <2>1. CASE ProcessNumber \/ ProcessData \/ ProcessV \/ ProcessAndDiscard
    <3>1. PICK n \in Nat : Take(n)
      BY <2>1, TakesAPiece
    <3> QED
      BY <3>1 DEF Take, NextField
  <2>2. CASE ReadHeader
    BY <2>2, Zenon DEF ReadHeader, Fault
  <2> QED
    BY <2>1, <2>2 DEF Next, Parse, Stop, WrongField, Fault, ProcessContent, NextField,
                      Chunk, vars
<1>3. result' = "FINISHED" => result = "FINISHED" \/ (Stop /\ currentField \in {V, DONE})
  <2>1. CASE Stop
    BY <2>1 DEF Stop, Leave, Skippable
  <2>2. CASE ReadHeader
    <3>1. \/ result' = result
          \/ Leave("FAULT")
          \/ Leave("PROCESSING")
          \/ UNCHANGED control
      BY <2>2, Zenon DEF ReadHeader, Fault
    <3> QED
      BY <3>1 DEF Leave, control
  <2>3. CASE ProcessNumber \/ ProcessData \/ ProcessV \/ ProcessAndDiscard
    <3>1. PICK n \in Nat : Take(n)
      BY <2>3, TakesAPiece
    <3> QED
      BY <3>1 DEF Take
  <2> QED
    BY <2>1, <2>2, <2>3 DEF Next, Parse, WrongField, Fault, Leave, ProcessContent, Chunk,
                            vars, control
<1>4. Stop => currentField' = currentField
  BY DEF Stop
<1> QED
  BY <1>1, <1>2, <1>3, <1>4 DEF V, DONE

\* The parser keeps up with every transaction the stream may be.
LEMMA DecodeInvariant == Spec => []DecodeInv
<1>1. Typed /\ HashInv /\ DecodeInv /\ [Next]_vars => DecodeInv'
  <2> SUFFICES ASSUME Typed, HashInv, DecodeInv, [Next]_vars PROVE DecodeInv'
    OBVIOUS
  <2>1. result' = "FINISHED" => currentField' >= V
    BY FinishedNext DEF DecodeInv
  <2>2. stream' = stream /\ (result' # "FAULT" => result # "FAULT")
    <3>1. CASE ReadHeader
      BY <3>1, Zenon DEF ReadHeader, Reading, Fault, Typed, FieldInv
    <3>2. CASE ProcessNumber \/ ProcessData \/ ProcessV \/ ProcessAndDiscard
      <4>1. PICK n \in Nat : Take(n)
        BY <3>2, TakesAPiece
      <4> QED
        BY <4>1 DEF Take
    <3> QED
      BY <3>1, <3>2 DEF Next, Parse, Stop, Leave, WrongField, Fault, ProcessContent, Chunk,
                        vars, control, Typed, FieldInv
  <2>3. ASSUME result' # "FAULT", NEW t \in Transactions, Encodes(stream, t)
        PROVE  Decoding(t)'
    BY <2>2, <2>3, DecodingNext DEF DecodeInv
  <2> QED
    BY <2>1, <2>2, <2>3 DEF DecodeInv
<1> QED
  BY <1>1, DecodeInit, TypedInvariant, HashInvariant, PTL DEF Spec

\* A completed transaction holds the numbers, the address, the selector and the
\* length of the data that were sent, however it was encoded and cut.
THEOREM FieldsDecodedAlways == Spec => []FieldsDecoded
<1>1. Typed /\ DecodeInv => FieldsDecoded
  <2> SUFFICES ASSUME Typed, DecodeInv, Finished, NEW t \in Transactions,
                      Encodes(stream, t)
               PROVE  /\ \A i \in 3..9 : Holds(FieldNames[i], t.value[i])
                      /\ lengths["data"] = Len(t.value[10]) % 256
                      /\ StoredUpTo("data", t.value[10],
                                    Least(SELECTOR_LENGTH, Len(t.value[10])))
    BY DEF FieldsDecoded
  <2>1. Decoding(t) /\ currentField \in V..DONE
    BY DEF DecodeInv, Finished, Typed, TypeOK
  <2>2. currentField > 10 /\ \A i \in 3..9 : i < currentField
    BY <2>1 DEF V, DONE
  <2> QED
    BY <2>1, <2>2 DEF Decoding, NumbersStored, DataStored
<1> QED
  BY <1>1, DecodeInvariant, TypedInvariant, PTL

\* A transaction without data, or with a single zero byte, is never taken for
\* one with data, so a plain transfer is never refused for its data.
THEOREM PlainTransfersPassAlways == Spec => []PlainTransfersPass
<1>1. Typed /\ DecodeInv => PlainTransfersPass
  <2> SUFFICES ASSUME Typed, DecodeInv, Finished, NEW t \in Transactions,
                      Encodes(stream, t), NoDataSent(t)
               PROVE  ~dataPresent
    BY DEF PlainTransfersPass
  <2>1. Decoding(t) /\ currentField # 10
    BY DEF DecodeInv, Finished, Typed, TypeOK, V, DONE
  <2> QED
    BY <2>1 DEF Decoding, FlagKept
<1> QED
  BY <1>1, DecodeInvariant, TypedInvariant, PTL
=============================================================================
