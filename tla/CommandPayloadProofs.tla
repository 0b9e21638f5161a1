------------------------ MODULE CommandPayloadProofs ------------------------
(***************************************************************************)
(* For every set of commands and every buffer that holds the longest path: *)
(* the offset stays within the payload, and a path is read at most four    *)
(* bytes beyond it.  PathInv carries the argument: a path is only read at  *)
(* offset 1, right behind its length.                                      *)
(***************************************************************************)
EXTENDS CommandPayloadProps, TLAPS

\* The inductive invariant.
Inv == TypeOK /\ OffsetInPayload /\ SizeOfFrame /\ PathInv

\* A function on 1..n is a sequence of length n.
LEMMA SeqOfFunction ==
  ASSUME NEW S, NEW n \in Nat, NEW f \in [1..n -> S]
  PROVE  f \in Seq(S) /\ Len(f) = n
  OBVIOUS

\* The numbers of the invariant.
NumbersOK ==
  /\ size \in Nat /\ offset \in Nat /\ offset <= size
  /\ size \in Int /\ offset \in Int
  /\ pathLen \in Nat /\ pathLen \in Int

\* The lengths of the invariant.
LengthsOK ==
  /\ Len(frame) \in Nat /\ Len(frame) \in Int /\ Len(frame) <= BufferSize
  /\ Len(path) \in Nat /\ Len(path) \in Int

\* They are numbers.
LEMMA Numbers == Inv => NumbersOK /\ LengthsOK
<1> SUFFICES ASSUME Inv PROVE NumbersOK /\ LengthsOK
  OBVIOUS
<1>1. frame \in Seq(Bytes) /\ Len(frame) <= BufferSize
  BY DEF Inv, TypeOK
<1>2. path \in Seq(Words)
  BY DEF Inv, TypeOK
<1>3. size \in Nat /\ offset \in Nat /\ offset <= size /\ pathLen \in Bytes
  BY DEF Inv, TypeOK, OffsetInPayload
<1>4. Len(frame) \in Nat /\ Len(path) \in Nat
  BY <1>1, <1>2
<1> QED BY <1>1, <1>3, <1>4 DEF Bytes, NumbersOK, LengthsOK

\* Bytes of the buffer are numbers.
LEMMA ByteTyped ==
  ASSUME TypeOK, NEW i \in 0..(BufferSize - 1)
  PROVE  apdu[i] \in Bytes /\ apdu[i] \in Nat
<1>1. apdu \in [0..(BufferSize - 1) -> Bytes]
  BY DEF TypeOK
<1>2. apdu[i] \in Bytes
  BY <1>1
<1> QED BY <1>2 DEF Bytes

\* The buffer holds the header, the length of a path and the longest path.
LEMMA Sizes ==
  /\ MAX_BIP32_PATH \in Nat /\ MAX_BIP32_PATH \in Int
  /\ BufferSize \in Nat /\ BufferSize \in Int
  /\ BufferSize >= 6 + 4 * MAX_BIP32_PATH
  /\ OFFSET_LC \in 0..(BufferSize - 1)
  BY PathAssumption DEF OFFSET_CDATA, OFFSET_LC

\* read_u32_be stays in G_io_apdu_buffer and returns four bytes.
LEMMA WordTyped ==
  ASSUME TypeOK, NEW at \in Nat, OFFSET_CDATA + at + 4 <= BufferSize
  PROVE  WordAt(at) \in Words
<1>1. ASSUME NEW i \in 1..4 PROVE apdu[OFFSET_CDATA + at + i - 1] \in Bytes
  <2>1. OFFSET_CDATA + at + i - 1 \in 0..(BufferSize - 1)
    BY PathAssumption DEF OFFSET_CDATA
  <2> QED BY <2>1 DEF TypeOK
<1> QED BY <1>1 DEF WordAt, Words

\* A seek, failed or not, leaves the offset in the payload.
LEMMA SeekInPayload ==
  ASSUME size \in Nat, offset \in Nat, offset <= size, NEW n \in Nat
  PROVE  SeekCur(n) \in Nat /\ SeekCur(n) <= size
  BY DEF SeekCur

\* The first byte of a payload is read at offset 0, and the offset moves to 1.
LEMMA SeekOverLength ==
  ASSUME size \in Nat, size > 0, offset = 0
  PROVE  SeekCur(1) = 1 /\ CanRead(1)
  BY DEF CanRead,  SeekCur

\* A command may arrive in any state of the buffer.
LEMMA ReceiveKeepsInv == ASSUME Inv, NEW f \in Frames, Receive(f) PROVE Inv'
<1> USE DEF Receive, buffer
<1>1. f \in Seq(Bytes) /\ Len(f) <= BufferSize
  BY FramesAssumption
<1>2. apdu' \in [0..(BufferSize - 1) -> Bytes]
  BY <1>1, PathAssumption DEF Inv, TypeOK
<1>3. /\ pathLen' \in Bytes
      /\ path' = << >> /\ path' \in Seq(Words) /\ Len(path') = 0
      /\ chainId' \in Words /\ msgLength' \in Words
      /\ chunk' \in Seq(Bytes)
  <2>1. << 0, 0, 0, 0 >> \in Words
    BY DEF Words, Bytes
  <2> QED BY <2>1 DEF Bytes
<1>4. TypeOK'
  BY <1>1, <1>2, <1>3, PathAssumption DEF Inv, TypeOK
<1>5. OffsetInPayload' /\ SizeOfFrame' /\ PathInv'
  BY <1>3 DEF Inv, OffsetInPayload, SizeOfFrame, PathInv
<1> QED BY <1>4, <1>5 DEF Inv

\* The checked Lc is the length of the payload, which ends in the buffer.
LEMMA ParseFrameKeepsInv == ASSUME Inv, ParseFrame PROVE Inv'
<1>0. NumbersOK /\ LengthsOK
  BY Numbers
<1>1. pc = "frame" /\ path = << >>
  BY DEF Inv, PathInv, ParseFrame
<1>2. UNCHANGED << apdu, frame, pathLen, path, chainId, msgLength, chunk >>
  BY DEF ParseFrame, buffer, request, Finish, Goto
<1>3. apdu[OFFSET_LC] \in Nat
  BY Sizes, ByteTyped DEF Inv
<1>4. \/ pc' = "idle" /\ size' = size /\ offset' = offset /\ status' = "WRONG_DATA_LENGTH"
      \/ /\ size' = apdu[OFFSET_LC] /\ offset' = 0 /\ OFFSET_CDATA + size' = Len(frame)
         /\ \/ pc' = "path_length" /\ size' > 0 /\ status' = status
            \/ pc' = "idle" /\ status' \in { "INVALID_DATA", "WRONG_DATA_LENGTH" }
  <2>1. CASE Len(frame) >= OFFSET_CDATA /\ Len(frame) - OFFSET_CDATA = apdu[OFFSET_LC]
    <3>1. OFFSET_CDATA + apdu[OFFSET_LC] = Len(frame)
      BY <2>1, <1>0 DEF OFFSET_CDATA, LengthsOK
    <3>2. ~(Len(frame) < OFFSET_CDATA)
      BY <2>1, <1>0 DEF OFFSET_CDATA, LengthsOK
    <3> QED BY <2>1, <3>1, <3>2 DEF ParseFrame, Finish, Goto, buffer
  <2>2. CASE ~(Len(frame) >= OFFSET_CDATA /\ Len(frame) - OFFSET_CDATA = apdu[OFFSET_LC])
    BY <2>2 DEF ParseFrame, Finish, buffer
  <2> QED BY <2>1, <2>2
<1>5. size' \in Nat /\ offset' \in Nat /\ offset' <= size'
  BY <1>3, <1>4, <1>0 DEF NumbersOK
<1>6. TypeOK'
  <2>1. /\ pc' \in { "idle", "frame", "path_length", "path", "chain_id", "length", "rest" }
        /\ status' \in { "none", "OK", "WRONG_DATA_LENGTH", "INVALID_DATA" }
    BY <1>4 DEF Inv, TypeOK
  <2> QED BY <1>2, <1>5, <2>1 DEF Inv, TypeOK
<1>7. SizeOfFrame'
  BY <1>2, <1>4 DEF SizeOfFrame
<1>8. PathInv'
  BY <1>1, <1>2, <1>4 DEF PathInv
<1> QED BY <1>5, <1>6, <1>7, <1>8 DEF Inv, OffsetInPayload

\* The length of the path is one byte.
LEMMA ReadPathLenKeepsInv == ASSUME Inv, ReadPathLen PROVE Inv'
<1>0. NumbersOK /\ LengthsOK
  BY Numbers
<1>1. pc = "path_length" /\ size > 0 /\ offset = 0 /\ path = << >>
  BY DEF Inv, PathInv, ReadPathLen
<1>2. UNCHANGED << apdu, frame, size, path, chainId, msgLength, chunk >>
  BY DEF ReadPathLen, Finish, Goto
<1>3. CanRead(1) /\ SeekCur(1) = 1
  BY <1>1, <1>0, SeekOverLength DEF NumbersOK
<1>4. pathLen' = apdu[OFFSET_CDATA + offset] /\ offset' = 1 /\ pc' = "path" /\ status' = status
  BY <1>3 DEF ReadPathLen, Goto
<1>5. pathLen' \in Bytes
  <2>1. OFFSET_CDATA + offset \in 0..(BufferSize - 1)
    BY <1>1, Sizes DEF OFFSET_CDATA
  <2> QED BY <1>4, <2>1, ByteTyped DEF Inv
<1>6. TypeOK'
  BY <1>2, <1>4, <1>5 DEF Inv, TypeOK
<1>7. OffsetInPayload' /\ SizeOfFrame' /\ PathInv'
  <2>1. OffsetInPayload'
    BY <1>1, <1>2, <1>4, <1>0 DEF OffsetInPayload, NumbersOK
  <2>2. SizeOfFrame'
    BY <1>1, <1>2, <1>4 DEF Inv, SizeOfFrame
  <2>3. PathInv'
    BY <1>1, <1>2, <1>4 DEF PathInv
  <2> QED BY <2>1, <2>2, <2>3
<1> QED BY <1>6, <1>7 DEF Inv

\* All components but the last lie in the payload, and all in the buffer.
LEMMA ReadPathKeepsInv == ASSUME Inv, ReadPath PROVE Inv'
<1> USE DEF ReadPath, Finish, Goto
<1>0. NumbersOK /\ LengthsOK
  BY Numbers
<1>1. /\ pc = "path" /\ size > 0 /\ offset = 1 /\ path = << >>
      /\ OFFSET_CDATA + size = Len(frame)
  BY DEF Inv, PathInv, SizeOfFrame
<1>2. UNCHANGED << apdu, frame, size, pathLen, chainId, msgLength, chunk >>
  OBVIOUS
<1>3. CASE PathReadable(pathLen)
  <2>1. /\ path' = [i \in 1..pathLen |-> WordAt(offset + 4 * (i - 1))]
        /\ offset' = SeekCur(PathBytes)
        /\ pc' \in { "chain_id", "rest" } /\ status' = status
    BY <1>3
  <2>2. pathLen # 0 /\ pathLen <= MAX_BIP32_PATH /\ 4 * (pathLen - 1) <= size - 1
    BY <1>1, <1>3, <1>0 DEF PathReadable, NumbersOK
  <2>3. ASSUME NEW i \in 1..pathLen PROVE WordAt(offset + 4 * (i - 1)) \in Words
    <3>1. offset + 4 * (i - 1) \in Nat /\ OFFSET_CDATA + (offset + 4 * (i - 1)) + 4 <= BufferSize
      <4>1. i \in Int /\ 1 <= i /\ i <= pathLen
        BY <1>0 DEF NumbersOK
      <4>2. 1 + 4 * (i - 1) \in Nat /\ 5 + (1 + 4 * (i - 1)) + 4 <= BufferSize
        BY <2>2, <4>1, <1>0, Sizes DEF NumbersOK
      <4> QED BY <1>1, <4>2 DEF OFFSET_CDATA
    <3> QED BY <3>1, WordTyped DEF Inv
  <2>4. path' \in Seq(Words) /\ Len(path') = pathLen
    <3>1. path' \in [1..pathLen -> Words]
      BY <2>1, <2>3
    <3> QED BY <1>0, <3>1, SeqOfFunction DEF NumbersOK
  <2>5. PathBytes \in Nat
    BY <1>0 DEF PathBytes, NumbersOK
  <2>6. offset' \in Nat /\ offset' <= size
    BY <1>0, <2>1, <2>5, SeekInPayload DEF NumbersOK
  <2>7. TypeOK'
    BY <1>2, <2>1, <2>2, <2>4, <2>6 DEF Inv, TypeOK
  <2>8. OffsetInPayload' /\ SizeOfFrame' /\ PathInv'
    BY <1>1, <1>2, <2>1, <2>2, <2>4, <2>6 DEF OffsetInPayload, SizeOfFrame, PathInv
  <2> QED BY <2>7, <2>8 DEF Inv
<1>4. CASE ~PathReadable(pathLen)
  <2>1. UNCHANGED << path, offset >> /\ pc' = "idle" /\ status' = "WRONG_DATA_LENGTH"
    BY <1>4
  <2> QED BY <1>1, <1>2, <2>1 DEF Inv, TypeOK, OffsetInPayload, SizeOfFrame, PathInv
<1> QED BY <1>3, <1>4

\* A checked read of four bytes stays in the payload.
LEMMA WordInPayload ==
  ASSUME Inv, pc \notin { "idle", "frame" }, CanRead(4)
  PROVE  WordAt(offset) \in Words /\ SeekCur(4) \in Nat /\ SeekCur(4) <= size
<1>1. /\ size \in Nat /\ offset \in Nat /\ offset <= size
      /\ OFFSET_CDATA + size = Len(frame) /\ Len(frame) <= BufferSize
  BY DEF Inv, TypeOK, OffsetInPayload, SizeOfFrame
<1>2. OFFSET_CDATA + offset + 4 <= BufferSize
  BY <1>1, PathAssumption DEF CanRead, OFFSET_CDATA
<1> QED BY <1>1, <1>2, WordTyped, SeekInPayload DEF Inv

\* The chain id is read from the payload or the command is refused.
LEMMA ReadChainIdKeepsInv == ASSUME Inv, ReadChainId PROVE Inv'
<1> USE DEF ReadChainId, Finish, Goto
<1>1. UNCHANGED << apdu, frame, size, pathLen, path, msgLength, chunk >> /\ pc = "chain_id"
  OBVIOUS
<1>2. /\ pc' \in { "idle", "length", "rest" } /\ status' \in { status, "WRONG_DATA_LENGTH" }
      /\ chainId' \in Words /\ offset' \in Nat /\ offset' <= size
  BY <1>1, WordInPayload DEF Inv, TypeOK, OffsetInPayload
<1> QED BY <1>1, <1>2 DEF Inv, TypeOK, OffsetInPayload, SizeOfFrame, PathInv

\* The message length is read from the payload or the command is refused.
LEMMA ReadMsgLengthKeepsInv == ASSUME Inv, ReadMsgLength PROVE Inv'
<1> USE DEF ReadMsgLength, Finish, Goto
<1>1. UNCHANGED << apdu, frame, size, pathLen, path, chainId, chunk >> /\ pc = "length"
  OBVIOUS
<1>2. /\ pc' \in { "idle", "rest" } /\ status' \in { status, "INVALID_DATA" }
      /\ msgLength' \in Words /\ offset' \in Nat /\ offset' <= size
  BY <1>1, WordInPayload DEF Inv, TypeOK, OffsetInPayload
<1> QED BY <1>1, <1>2 DEF Inv, TypeOK, OffsetInPayload, SizeOfFrame, PathInv

\* The chunk is what the payload has left.
LEMMA TakeRestKeepsInv == ASSUME Inv, TakeRest PROVE Inv'
<1> USE DEF TakeRest, Finish, buffer
<1>1. /\ UNCHANGED << apdu, frame, size, offset, pathLen, path, chainId, msgLength >>
      /\ pc = "rest" /\ pc' = "idle" /\ status' = "OK"
  OBVIOUS
<1>2. /\ size \in Nat /\ offset \in Nat /\ offset <= size
      /\ OFFSET_CDATA + size = Len(frame) /\ Len(frame) <= BufferSize
  BY <1>1 DEF Inv, TypeOK, OffsetInPayload, SizeOfFrame
<1>3. chunk' \in Seq(Bytes)
  <2> DEFINE rest == [i \in 1..(size - offset) |-> apdu[OFFSET_CDATA + offset + i - 1]]
  <2>1. size - offset \in Nat
    BY <1>2
  <2>2. ASSUME NEW i \in 1..(size - offset) PROVE apdu[OFFSET_CDATA + offset + i - 1] \in Bytes
    BY <1>2, PathAssumption DEF Inv, TypeOK, OFFSET_CDATA
  <2>3. rest \in Seq(Bytes)
    BY <2>1, <2>2, SeqOfFunction
  <2>4. chunk' = rest \/ chunk' = << >>
    OBVIOUS
  <2> QED BY <2>3, <2>4
<1> QED BY <1>1, <1>3 DEF Inv, TypeOK, OffsetInPayload, SizeOfFrame, PathInv

\* The invariant holds in every state.
LEMMA Invariance == Spec => []Inv
<1>1. Init => Inv
  <2> SUFFICES ASSUME Init PROVE Inv
    OBVIOUS
  <2>1. << 0, 0, 0, 0 >> \in Words
    BY DEF Words, Bytes
  <2>2. apdu \in [0..(BufferSize - 1) -> Bytes]
    BY DEF Init, Bytes
  <2>3. TypeOK
    BY <2>1, <2>2, PathAssumption DEF Init, TypeOK, Bytes
  <2>4. OffsetInPayload /\ SizeOfFrame /\ PathInv
    BY DEF Init, OffsetInPayload, SizeOfFrame, PathInv
  <2> QED BY <2>3, <2>4 DEF Inv
<1>2. Inv /\ [Next]_vars => Inv'
  <2> SUFFICES ASSUME Inv, [Next]_vars PROVE Inv'
    OBVIOUS
  <2>1. CASE \E f \in Frames : Receive(f)
    BY <2>1, ReceiveKeepsInv
  <2>2. CASE Handle
    BY <2>2, ParseFrameKeepsInv, ReadPathLenKeepsInv, ReadPathKeepsInv, ReadChainIdKeepsInv,
       ReadMsgLengthKeepsInv, TakeRestKeepsInv DEF Handle
  <2>3. CASE UNCHANGED vars
    BY <2>3 DEF vars, buffer, request, Inv, TypeOK, OffsetInPayload, SizeOfFrame, PathInv
  <2> QED BY <2>1, <2>2, <2>3 DEF Next
<1> QED BY <1>1, <1>2, PTL DEF Spec

\* Every variable keeps its type; the path fits bip32_path[MAX_BIP32_PATH] and
\* every byte is read from within G_io_apdu_buffer.
THEOREM PayloadTypes == Spec => []TypeOK
<1>1. Inv => TypeOK
  BY DEF Inv
<1> QED BY <1>1, Invariance, PTL

\* size - offset never wraps around, although failed seeks are ignored.
THEOREM OffsetStays == Spec => []OffsetInPayload
<1>1. Inv => OffsetInPayload
  BY DEF Inv
<1> QED BY <1>1, Invariance, PTL

\* A path ends at most four bytes behind its payload.
THEOREM OverreadByOneWord == Spec => []OverreadBounded
<1>1. Inv => OverreadBounded
  <2> SUFFICES ASSUME Inv PROVE OverreadBounded
    OBVIOUS
  <2>0. NumbersOK /\ LengthsOK
    BY Numbers
  <2>1. CASE path = << >>
    BY <2>0, <2>1 DEF NumbersOK, LengthsOK, OverreadBounded
  <2>2. CASE path # << >>
    <3>1. 4 * (Len(path) - 1) <= size - 1
      BY <2>2 DEF Inv, PathInv
    <3> QED BY <2>0, <3>1 DEF NumbersOK, LengthsOK, OverreadBounded
  <2> QED BY <2>1, <2>2
<1> QED BY <1>1, Invariance, PTL

-----------------------------------------------------------------------------
\* Where the elements of two sequences are once they are one.
LEMMA Concatenated ==
  ASSUME NEW a \in Seq(Int), NEW b \in Seq(Int)
  PROVE  /\ a \o b \in Seq(Int) /\ Len(a \o b) = Len(a) + Len(b)
         /\ Len(a) \in Nat /\ Len(b) \in Nat
         /\ \A i \in 1..Len(a) : i \in 1..Len(a \o b) /\ (a \o b)[i] = a[i]
         /\ \A i \in 1..Len(b) :
              Len(a) + i \in 1..Len(a \o b) /\ (a \o b)[Len(a) + i] = b[i]
<1>1. Len(a) \in Nat /\ Len(b) \in Nat
  OBVIOUS
<1>2. a \o b \in Seq(Int) /\ Len(a \o b) = Len(a) + Len(b)
  OBVIOUS
<1>3. ASSUME NEW i \in 1..Len(a) PROVE i \in 1..Len(a \o b) /\ (a \o b)[i] = a[i]
  BY <1>1, <1>2
<1>4. ASSUME NEW i \in 1..Len(b)
      PROVE  Len(a) + i \in 1..Len(a \o b) /\ (a \o b)[Len(a) + i] = b[i]
  BY <1>1, <1>2
<1> QED BY <1>1, <1>2, <1>3, <1>4

\* Four bytes are a sequence.
LEMMA WordSeq ==
  ASSUME NEW w \in Words
  PROVE  w \in Seq(Int) /\ Len(w) = 4
<1>1. w \in [1..4 -> Int]
  BY DEF Words, Bytes
<1>2. PICK n \in Nat : n = 4
  OBVIOUS
<1>3. w \in [1..n -> Int]
  BY <1>1, <1>2
<1>4. w \in Seq(Int) /\ Len(w) = n
  BY <1>3, SeqOfFunction
<1> QED BY <1>2, <1>4

\* So are the bytes of a message.
LEMMA BytesAreInts ==
  ASSUME NEW s \in Seq(Bytes)
  PROVE  s \in Seq(Int) /\ Len(s) \in Nat
<1>1. Len(s) \in Nat /\ s \in [1..Len(s) -> Bytes]
  OBVIOUS
<1>2. Bytes \subseteq Int
  BY DEF Bytes
<1>3. s \in [1..Len(s) -> Int]
  BY <1>1, <1>2
<1> QED BY <1>1, <1>3, SeqOfFunction

\* The words of a path, one behind the other.
LEMMA FlatLayout ==
  ASSUME NEW p \in Seq(Words)
  PROVE  /\ Flat(p) \in Seq(Int) /\ Len(p) \in Nat /\ Len(Flat(p)) = 4 * Len(p)
         /\ \A k \in 1..Len(p), j \in 1..4 :
              4 * (k - 1) + j \in 1..(4 * Len(p)) /\ Flat(p)[4 * (k - 1) + j] = p[k][j]
<1>1. Len(p) \in Nat
  OBVIOUS
<1>2. ASSUME NEW k \in 1..Len(p), NEW j \in 1..4 PROVE p[k][j] \in Int
  <2>1. p[k] \in Words
    BY <1>1
  <2>2. p[k] \in Seq(Int) /\ Len(p[k]) = 4
    BY <2>1, WordSeq
  <2> QED BY <2>2
<1>3. ASSUME NEW i \in 1..(4 * Len(p))
      PROVE  (i - 1) \div 4 + 1 \in 1..Len(p) /\ ((i - 1) % 4) + 1 \in 1..4
  BY <1>1
<1>4. Flat(p) \in [1..(4 * Len(p)) -> Int]
  BY <1>2, <1>3 DEF Flat
<1>5. Flat(p) \in Seq(Int) /\ Len(Flat(p)) = 4 * Len(p)
  BY <1>1, <1>4, SeqOfFunction
<1>6. ASSUME NEW k \in 1..Len(p), NEW j \in 1..4
      PROVE  /\ 4 * (k - 1) + j \in 1..(4 * Len(p))
             /\ Flat(p)[4 * (k - 1) + j] = p[k][j]
  <2> DEFINE i == 4 * (k - 1) + j
  <2>1. i \in 1..(4 * Len(p)) /\ (i - 1) \div 4 + 1 = k /\ ((i - 1) % 4) + 1 = j
    BY <1>1
  <2>2. Flat(p)[i] = p[(i - 1) \div 4 + 1][((i - 1) % 4) + 1]
    BY <2>1 DEF Flat
  <2> QED BY <2>1, <2>2
<1> QED BY <1>1, <1>5, <1>6

\* A part of a payload that may be absent.
LEMMA IfSeq ==
  ASSUME NEW present \in BOOLEAN, NEW s \in Seq(Int)
  PROVE  /\ If(present, s) \in Seq(Int)
         /\ Len(If(present, s)) = IF present THEN Len(s) ELSE 0
         /\ present => If(present, s) = s
  BY DEF If

\* What is where in the payload of a request, counted from 1.
PayloadHolds(r, bytes) ==
  /\ bytes \in Seq(Int)
  /\ ChainAt(r) \in Nat /\ LengthAt(r) \in Nat /\ DataAt(r) \in Nat
  /\ Len(bytes) = DataAt(r) + (IF HasData(r.kind) THEN Len(r.chunk) ELSE 0)
  /\ bytes[1] = Len(r.path)
  /\ \A k \in 1..Len(r.path), j \in 1..4 : bytes[1 + 4 * (k - 1) + j] = r.path[k][j]
  /\ HasChain(r.kind) => \A j \in 1..4 : bytes[ChainAt(r) + j] = r.chain[j]
  /\ HasLength(r.kind) => \A j \in 1..4 : bytes[LengthAt(r) + j] = r.length[j]
  /\ HasData(r.kind) => \A j \in 1..Len(r.chunk) : bytes[DataAt(r) + j] = r.chunk[j]

\* The encoder puts it there.
LEMMA PayloadLayout == ASSUME NEW r \in Requests PROVE PayloadHolds(r, Payload(r))
<1> DEFINE n == Len(r.path)
           flat == Flat(r.path)
           chain == If(HasChain(r.kind), r.chain)
           length == If(HasLength(r.kind), r.length)
           data == If(HasData(r.kind), r.chunk)
<1>1. /\ r.path \in Seq(Words) /\ r.chain \in Words /\ r.length \in Words
      /\ r.chunk \in Seq(Bytes)
  BY RequestsAssumption
<1>2. /\ flat \in Seq(Int) /\ n \in Nat /\ Len(flat) = 4 * n
      /\ \A k \in 1..n, j \in 1..4 :
           4 * (k - 1) + j \in 1..(4 * n) /\ flat[4 * (k - 1) + j] = r.path[k][j]
  BY <1>1, FlatLayout
<1>3. /\ HasChain(r.kind) \in BOOLEAN /\ HasLength(r.kind) \in BOOLEAN
      /\ HasData(r.kind) \in BOOLEAN
  BY DEF HasChain, HasLength, HasData
<1>4. /\ chain \in Seq(Int) /\ Len(chain) = IF HasChain(r.kind) THEN 4 ELSE 0
      /\ HasChain(r.kind) => chain = r.chain
  BY <1>1, <1>3, WordSeq, IfSeq
<1>5. /\ length \in Seq(Int) /\ Len(length) = IF HasLength(r.kind) THEN 4 ELSE 0
      /\ HasLength(r.kind) => length = r.length
  BY <1>1, <1>3, WordSeq, IfSeq
<1>6. /\ data \in Seq(Int) /\ Len(data) = IF HasData(r.kind) THEN Len(r.chunk) ELSE 0
      /\ HasData(r.kind) => data = r.chunk
  <2>1. r.chunk \in Seq(Int)
    BY <1>1, BytesAreInts
  <2> QED BY <1>3, <2>1, IfSeq
<1>7. << n >> \in Seq(Int) /\ Len(<< n >>) = 1 /\ << n >>[1] = n
  BY <1>2
<1>8. Payload(r) = << n >> \o (flat \o (chain \o (length \o data)))
  BY DEF Payload
<1> HIDE DEF n, flat, chain, length, data
<1> DEFINE c == length \o data
           b == chain \o c
           a == flat \o b
<1>9. /\ c \in Seq(Int) /\ Len(c) = Len(length) + Len(data)
      /\ \A i \in 1..Len(length) : i \in 1..Len(c) /\ c[i] = length[i]
      /\ \A i \in 1..Len(data) :
            Len(length) + i \in 1..Len(c) /\ c[Len(length) + i] = data[i]
  BY <1>5, <1>6, Concatenated
<1> HIDE DEF c
<1>10. /\ b \in Seq(Int) /\ Len(b) = Len(chain) + Len(c)
       /\ \A i \in 1..Len(chain) : i \in 1..Len(b) /\ b[i] = chain[i]
       /\ \A i \in 1..Len(c) :
            Len(chain) + i \in 1..Len(b) /\ b[Len(chain) + i] = c[i]
  BY <1>4, <1>9, Concatenated
<1> HIDE DEF b
<1>11. /\ a \in Seq(Int) /\ Len(a) = Len(flat) + Len(b)
       /\ \A i \in 1..Len(flat) : i \in 1..Len(a) /\ a[i] = flat[i]
       /\ \A i \in 1..Len(b) :
            Len(flat) + i \in 1..Len(a) /\ a[Len(flat) + i] = b[i]
  BY <1>2, <1>10, Concatenated
<1> HIDE DEF a
<1> DEFINE P == << n >> \o a
<1>12. /\ P \in Seq(Int) /\ Len(P) = 1 + Len(a) /\ P[1] = n
       /\ \A i \in 1..Len(a) : P[1 + i] = a[i]
  BY <1>7, <1>11, Concatenated
<1>13. P = Payload(r)
  BY <1>8 DEF a, b, c
<1> HIDE DEF P
<1>14. Len(chain) \in Nat /\ Len(length) \in Nat /\ Len(data) \in Nat
  BY <1>4, <1>5, <1>6
<1>15. /\ ChainAt(r) = 1 + 4 * n /\ LengthAt(r) = 1 + 4 * n + Len(chain)
       /\ DataAt(r) = 1 + 4 * n + Len(chain) + Len(length)
  BY <1>2, <1>4, <1>5 DEF ChainAt, LengthAt, DataAt, n
<1>16. Len(P) = 1 + 4 * n + Len(chain) + Len(length) + Len(data)
  <2>1. /\ Len(P) = 1 + Len(a) /\ Len(a) = Len(flat) + Len(b) /\ Len(flat) = 4 * n
        /\ Len(b) = Len(chain) + Len(c) /\ Len(c) = Len(length) + Len(data)
    BY <1>2, <1>9, <1>10, <1>11, <1>12
  <2> QED BY <1>2, <1>14, <2>1
<1>17. ASSUME NEW k \in 1..n, NEW j \in 1..4 PROVE P[1 + 4 * (k - 1) + j] = r.path[k][j]
  <2> DEFINE i == 4 * (k - 1) + j
  <2>1. i \in 1..Len(flat) /\ flat[i] = r.path[k][j]
    BY <1>2
  <2>2. 1 + 4 * (k - 1) + j = 1 + i
    BY <1>2
  <2> HIDE DEF i
  <2>3. i \in 1..Len(a) /\ a[i] = r.path[k][j]
    BY <1>11, <2>1
  <2>4. P[1 + i] = r.path[k][j]
    BY <1>12, <2>3
  <2> QED BY <2>2, <2>4
<1>18. ASSUME NEW i \in 1..Len(b) PROVE P[1 + 4 * n + i] = b[i]
  <2>1. 4 * n + i \in 1..Len(a) /\ a[4 * n + i] = b[i]
    BY <1>2, <1>11
  <2>2. P[1 + (4 * n + i)] = b[i]
    BY <1>12, <2>1
  <2>3. 1 + (4 * n + i) = 1 + 4 * n + i
    BY <1>2, <1>10
  <2> QED BY <2>2, <2>3
<1>19. ASSUME NEW i \in 1..Len(c) PROVE P[1 + 4 * n + Len(chain) + i] = c[i]
  <2>1. Len(chain) + i \in 1..Len(b) /\ b[Len(chain) + i] = c[i]
    BY <1>10
  <2>2. P[1 + 4 * n + (Len(chain) + i)] = c[i]
    BY <1>18, <2>1
  <2>3. 1 + 4 * n + (Len(chain) + i) = 1 + 4 * n + Len(chain) + i
    BY <1>2, <1>9, <1>14
  <2> QED BY <2>2, <2>3
<1>20. ASSUME HasChain(r.kind), NEW j \in 1..4 PROVE P[ChainAt(r) + j] = r.chain[j]
  <2>1. j \in 1..Len(chain) /\ chain[j] = r.chain[j]
    BY <1>4, <1>20
  <2>2. j \in 1..Len(b) /\ b[j] = r.chain[j]
    BY <1>10, <2>1
  <2> QED BY <1>15, <1>18, <2>2
<1>21. ASSUME HasLength(r.kind), NEW j \in 1..4 PROVE P[LengthAt(r) + j] = r.length[j]
  <2>1. j \in 1..Len(length) /\ length[j] = r.length[j]
    BY <1>5, <1>21
  <2>2. j \in 1..Len(c) /\ c[j] = r.length[j]
    BY <1>9, <2>1
  <2> QED BY <1>15, <1>19, <2>2
<1>22. ASSUME HasData(r.kind), NEW j \in 1..Len(r.chunk) PROVE P[DataAt(r) + j] = r.chunk[j]
  <2>1. j \in 1..Len(data) /\ data[j] = r.chunk[j]
    BY <1>6, <1>22
  <2>2. Len(length) + j \in 1..Len(c) /\ c[Len(length) + j] = r.chunk[j]
    BY <1>9, <2>1
  <2>3. P[1 + 4 * n + Len(chain) + (Len(length) + j)] = r.chunk[j]
    BY <1>19, <2>2
  <2>4. 1 + 4 * n + Len(chain) + (Len(length) + j) = DataAt(r) + j
    BY <1>2, <1>14, <1>15, <2>1
  <2> QED BY <2>3, <2>4
<1>23. /\ ChainAt(r) \in Nat /\ LengthAt(r) \in Nat /\ DataAt(r) \in Nat
       /\ Len(P) = DataAt(r) + (IF HasData(r.kind) THEN Len(r.chunk) ELSE 0)
  BY <1>2, <1>6, <1>14, <1>15, <1>16
<1>24. P[1] = Len(r.path)
  BY <1>12 DEF n
<1>25. \A k \in 1..Len(r.path), j \in 1..4 : P[1 + 4 * (k - 1) + j] = r.path[k][j]
  BY <1>17 DEF n
<1>26. PayloadHolds(r, P)
  BY <1>12, <1>20, <1>21, <1>22, <1>23, <1>24, <1>25 DEF PayloadHolds
<1> QED BY <1>13, <1>26

-----------------------------------------------------------------------------
\* The command under way means r.
Requested(r) ==
  frame = FrameOf(r.kind, Payload(r)) /\ Len(r.path) <= MAX_BIP32_PATH

\* What the readers see of a request in the buffer.
Seen(r) ==
  /\ PayloadHolds(r, Payload(r))
  /\ Len(frame) = 5 + Len(Payload(r)) /\ Len(Payload(r)) \in Nat
  /\ apdu[1] = r.kind[1] /\ apdu[2] = r.kind[2] /\ apdu[4] = Len(Payload(r))
  /\ \A i \in 1..Len(Payload(r)) : apdu[4 + i] = Payload(r)[i]

\* A request lies in the buffer byte for byte.
LEMMA RequestSeen ==
  ASSUME NEW r \in Requests, Requested(r), FrameInv
  PROVE  Seen(r)
<1> DEFINE P == Payload(r)
           head == << 224, r.kind[1], r.kind[2], 0, Len(P) >>
<1>1. PayloadHolds(r, P) /\ P \in Seq(Int) /\ Len(P) \in Nat
  BY PayloadLayout DEF PayloadHolds
<1>2. r.kind[1] \in Int /\ r.kind[2] \in Int
  BY RequestsAssumption DEF Kinds, GET_PUBLIC_KEY, SIGN_TX, SIGN_PERSONAL
<1> HIDE DEF P
<1>3. /\ head \in Seq(Int) /\ Len(head) = 5
      /\ head[2] = r.kind[1] /\ head[3] = r.kind[2] /\ head[5] = Len(P)
  BY <1>1, <1>2
<1>4. frame = head \o P
  BY DEF Requested, FrameOf, P
<1> HIDE DEF head
<1>5. /\ Len(frame) = 5 + Len(P)
      /\ \A i \in 1..5 : i \in 1..Len(frame) /\ frame[i] = head[i]
      /\ \A i \in 1..Len(P) : 5 + i \in 1..Len(frame) /\ frame[5 + i] = P[i]
  <2> DEFINE f == head \o P
  <2>1. /\ Len(f) = Len(head) + Len(P)
        /\ \A i \in 1..Len(head) : i \in 1..Len(f) /\ f[i] = head[i]
        /\ \A i \in 1..Len(P) :
             Len(head) + i \in 1..Len(f) /\ f[Len(head) + i] = P[i]
    BY <1>1, <1>3, Concatenated
  <2>2. frame = f /\ Len(head) = 5
    BY <1>3, <1>4
  <2> HIDE DEF f
  <2> QED BY <2>1, <2>2
<1>6. \A i \in 1..5 : apdu[i - 1] = head[i]
  BY <1>5 DEF FrameInv
<1>7. apdu[2 - 1] = r.kind[1] /\ apdu[3 - 1] = r.kind[2] /\ apdu[5 - 1] = Len(P)
  BY <1>3, <1>6
<1>8. ASSUME NEW i \in 1..Len(P) PROVE apdu[4 + i] = P[i]
  <2>1. apdu[5 + i - 1] = P[i]
    BY <1>5 DEF FrameInv
  <2>2. 5 + i - 1 = 4 + i
    BY <1>1
  <2> QED BY <2>1, <2>2
<1> QED BY <1>1, <1>5, <1>7, <1>8 DEF Seen, P

\* The dispatcher takes the request for what it is.
LEMMA KindSeen ==
  ASSUME NEW r \in Requests, Seen(r)
  PROVE  /\ WithChainId = HasChain(r.kind)
         /\ WithLength = HasLength(r.kind)
         /\ WithData = HasData(r.kind)
         /\ HasLength(r.kind) => HasChain(r.kind)
<1>1. r.kind \in Kinds /\ apdu[1] = r.kind[1] /\ apdu[2] = r.kind[2]
  BY RequestsAssumption DEF Seen
<1>2. \A a, b : << a, b >>[1] = a /\ << a, b >>[2] = b
  OBVIOUS
<1> USE DEF WithChainId, WithLength, WithData, HasChain, HasLength, HasData,
            GET_PUBLIC_KEY, SIGN_TX, SIGN_PERSONAL
<1>3. CASE r.kind = << 2, 0 >>
  BY <1>1, <1>2, <1>3
<1>4. CASE r.kind = << 2, 1 >>
  BY <1>1, <1>2, <1>4
<1>5. CASE r.kind = << 3, 0 >>
  BY <1>1, <1>2, <1>5
<1>6. CASE r.kind = << 4, 0 >>
  BY <1>1, <1>2, <1>6
<1> QED BY <1>1, <1>3, <1>4, <1>5, <1>6 DEF Kinds

\* A word of the payload is read as it was written.
LEMMA WordSeen ==
  ASSUME NEW r \in Requests, Seen(r), NEW at \in Nat, NEW w \in Words,
         at + 4 <= Len(Payload(r)),
         \A j \in 1..4 : Payload(r)[at + j] = w[j]
  PROVE  WordAt(at) = w
<1>1. Len(Payload(r)) \in Nat /\ \A i \in 1..Len(Payload(r)) : apdu[4 + i] = Payload(r)[i]
  BY DEF Seen
<1>2. ASSUME NEW j \in 1..4 PROVE apdu[OFFSET_CDATA + at + j - 1] = w[j]
  <2>0. Len(Payload(r)) \in Nat
    BY <1>1
  <2>1. at + j \in 1..Len(Payload(r)) /\ OFFSET_CDATA + at + j - 1 = 4 + (at + j)
    BY <2>0 DEF OFFSET_CDATA
  <2>2. apdu[4 + (at + j)] = Payload(r)[at + j]
    BY <1>1, <2>1
  <2> QED BY <2>1, <2>2
<1>3. w = [j \in 1..4 |-> w[j]]
  BY DEF Words
<1> QED BY <1>2, <1>3 DEF WordAt

\* One reader's step with a request, from the state that the reader before
\* left.
StepInv == Inv /\ FrameInv /\ ProgressInv

\* What the steps rely on.
LEMMA Underway ==
  ASSUME NEW r \in Requests, Requested(r), StepInv
  PROVE  /\ Seen(r) /\ PayloadHolds(r, Payload(r)) /\ Progress(r)
         /\ Len(Payload(r)) \in Nat /\ NumbersOK
         /\ pc \notin { "idle", "frame" } => size = Len(Payload(r))
         /\ Len(r.path) \in Nat /\ Len(r.path) >= 1
         /\ r.path \in Seq(Words) /\ r.chain \in Words /\ r.length \in Words
         /\ r.chunk \in Seq(Bytes)
<1>1. Seen(r)
  BY RequestSeen DEF StepInv
<1>2. PayloadHolds(r, Payload(r)) /\ Len(Payload(r)) \in Nat
      /\ Len(frame) = 5 + Len(Payload(r))
  BY <1>1 DEF Seen
<1>3. Progress(r)
  BY DEF StepInv, ProgressInv, Requested
<1>4. NumbersOK
  BY Numbers DEF StepInv
<1>5. ASSUME pc \notin { "idle", "frame" } PROVE size = Len(Payload(r))
  <2>1. OFFSET_CDATA + size = Len(frame)
    BY <1>5 DEF StepInv, Inv, SizeOfFrame
  <2> QED BY <1>2, <1>4, <2>1 DEF OFFSET_CDATA, NumbersOK
<1>6. /\ r.path \in Seq(Words) /\ r.path # << >> /\ r.chain \in Words
      /\ r.length \in Words /\ r.chunk \in Seq(Bytes)
  BY RequestsAssumption
<1>7. Len(r.path) \in Nat /\ Len(r.path) >= 1
  BY <1>6
<1> QED BY <1>1, <1>2, <1>3, <1>4, <1>5, <1>6, <1>7

\* The parts of a payload follow one another.
LEMMA Positions ==
  ASSUME NEW r \in Requests, Len(r.path) \in Nat
  PROVE  /\ ChainAt(r) = 1 + 4 * Len(r.path)
         /\ LengthAt(r) >= ChainAt(r) /\ DataAt(r) >= LengthAt(r)
         /\ DataAt(r) >= 1 + 4 * Len(r.path)
<1>1. ChainAt(r) = 1 + 4 * Len(r.path) /\ ChainAt(r) \in Nat
  BY DEF ChainAt
<1>2. LengthAt(r) >= ChainAt(r) /\ LengthAt(r) \in Nat
  <2>1. LengthAt(r) = ChainAt(r) + 0 \/ LengthAt(r) = ChainAt(r) + 4
    BY DEF LengthAt
  <2> QED BY <1>1, <2>1
<1>3. DataAt(r) >= LengthAt(r) /\ DataAt(r) \in Nat
  <2>1. DataAt(r) = LengthAt(r) + 0 \/ DataAt(r) = LengthAt(r) + 4
    BY DEF DataAt
  <2> QED BY <1>2, <2>1
<1> QED BY <1>1, <1>2, <1>3

\* A command that was just received has not been read at all.
LEMMA ReceiveProgress ==
  ASSUME NEW f \in Frames, Receive(f), NEW r \in Requests
  PROVE  Progress(r)'
  BY DEF Receive, Progress

\* A whole request passes the frame check.
LEMMA ParseFrameProgress ==
  ASSUME StepInv, ParseFrame, NEW r \in Requests, Requested(r)
  PROVE  Progress(r)'
<1>1. /\ Len(Payload(r)) \in Nat
      /\ apdu[4] = Len(Payload(r)) /\ Len(frame) = 5 + Len(Payload(r))
  BY Underway DEF Seen
<1>2. Len(Payload(r)) >= 1
  <2>1. /\ DataAt(r) \in Nat /\ DataAt(r) >= 1
        /\ Len(Payload(r)) = DataAt(r) + (IF HasData(r.kind) THEN Len(r.chunk) ELSE 0)
    <3>1. /\ DataAt(r) \in Nat /\ Len(r.path) \in Nat
          /\ Len(Payload(r)) = DataAt(r) + (IF HasData(r.kind) THEN Len(r.chunk) ELSE 0)
      BY Underway DEF PayloadHolds
    <3> QED BY <3>1, Positions
  <2>2. Len(r.chunk) \in Nat
    BY Underway
  <2> QED BY <2>1, <2>2
<1>3. Len(frame) >= OFFSET_CDATA /\ Len(frame) - OFFSET_CDATA = apdu[OFFSET_LC]
  BY <1>1 DEF OFFSET_CDATA, OFFSET_LC
<1>4. ~(Len(frame) < OFFSET_CDATA)
  BY <1>1 DEF OFFSET_CDATA
<1>5. size' = apdu[OFFSET_LC] /\ apdu[OFFSET_LC] > 0
  BY <1>1, <1>2, <1>3, <1>4 DEF ParseFrame, OFFSET_LC
<1>6. pc' = "path_length"
  BY <1>3, <1>4, <1>5 DEF ParseFrame, Goto
<1> QED BY <1>6 DEF Progress

\* Its first byte is the number of components.
LEMMA ReadPathLenProgress ==
  ASSUME StepInv, ReadPathLen, NEW r \in Requests, Requested(r)
  PROVE  Progress(r)'
<1>1. pc = "path_length" /\ size > 0 /\ offset = 0 /\ size = Len(Payload(r))
  BY Underway DEF StepInv, Inv, PathInv, ReadPathLen
<1>2. CanRead(1)
  BY <1>1, Underway DEF CanRead, NumbersOK
<1>3. pathLen' = apdu[5] /\ pc' = "path"
  BY <1>1, <1>2 DEF ReadPathLen, Goto, OFFSET_CDATA
<1>4. apdu[5] = Len(r.path)
  <2>1. 1 \in 1..Len(Payload(r))
    BY <1>1, Underway
  <2>2. apdu[4 + 1] = Payload(r)[1]
    BY <2>1, Underway DEF Seen
  <2> QED BY <2>2, Underway DEF PayloadHolds
<1> QED BY <1>3, <1>4 DEF Progress

\* The components follow, word by word.
LEMMA ReadPathProgress ==
  ASSUME StepInv, ReadPath, NEW r \in Requests, Requested(r)
  PROVE  Progress(r)'
<1> DEFINE n == Len(r.path)
<1>1. pc = "path" /\ offset = 1 /\ pathLen = n /\ size = Len(Payload(r))
  BY Underway DEF StepInv, Inv, PathInv, ReadPath, Progress
<1>2. n \in Nat /\ n >= 1 /\ n <= MAX_BIP32_PATH /\ r.path \in Seq(Words)
  BY Underway DEF Requested
<1>3. /\ Len(Payload(r)) \in Nat /\ 1 + 4 * n <= Len(Payload(r))
      /\ ChainAt(r) = 1 + 4 * n
  <2>1. /\ DataAt(r) \in Nat /\ Len(Payload(r)) \in Nat
        /\ Len(Payload(r)) = DataAt(r) + (IF HasData(r.kind) THEN Len(r.chunk) ELSE 0)
    BY Underway DEF PayloadHolds
  <2>2. Len(r.chunk) \in Nat
    BY Underway
  <2>3. DataAt(r) >= 1 + 4 * n
    BY <1>2, Positions
  <2>4. Len(Payload(r)) >= DataAt(r)
    BY <2>1, <2>2
  <2> QED BY <1>2, <2>1, <2>3, <2>4 DEF ChainAt
<1>4. PathReadable(pathLen)
  BY <1>1, <1>2, <1>3, Sizes DEF PathReadable
<1>5. /\ path' = [i \in 1..n |-> WordAt(1 + 4 * (i - 1))]
      /\ offset' = SeekCur(PathBytes)
      /\ pc' = IF WithChainId THEN "chain_id" ELSE "rest"
  BY <1>1, <1>4 DEF ReadPath, Goto
<1>6. ASSUME NEW i \in 1..n PROVE WordAt(1 + 4 * (i - 1)) = r.path[i]
  <2> DEFINE at == 1 + 4 * (i - 1)
  <2>1. at \in Nat /\ at + 4 <= Len(Payload(r))
    BY <1>2, <1>3
  <2>2. \A j \in 1..4 : Payload(r)[at + j] = r.path[i][j]
    BY Underway DEF PayloadHolds
  <2>3. r.path[i] \in Words
    BY <1>2
  <2> HIDE DEF at
  <2>4. Seen(r)
    BY Underway
  <2>5. WordAt(at) = r.path[i]
    BY <2>1, <2>2, <2>3, <2>4, WordSeen
  <2> QED BY <2>5 DEF at
<1>7. path' = r.path
  <2>1. r.path = [i \in 1..n |-> r.path[i]]
    BY <1>2
  <2> HIDE DEF n
  <2> QED BY <1>5, <1>6, <2>1
<1>8. offset' = ChainAt(r)
  BY <1>1, <1>2, <1>3, <1>5 DEF SeekCur, PathBytes
<1>9. WithChainId = HasChain(r.kind) /\ (HasLength(r.kind) => HasChain(r.kind))
  BY Underway, KindSeen
<1>10. CASE HasChain(r.kind)
  <2>1. pc' = "chain_id"
    BY <1>5, <1>9, <1>10
  <2> QED BY <1>7, <1>8, <1>10, <2>1 DEF Progress, ChainAt
<1>11. CASE ~HasChain(r.kind)
  <2>1. pc' = "rest" /\ ~HasLength(r.kind)
    BY <1>5, <1>9, <1>11
  <2>2. DataAt(r) = ChainAt(r)
    BY <1>2, <1>11, <2>1 DEF DataAt, LengthAt, ChainAt
  <2> QED BY <1>7, <1>8, <1>11, <2>1, <2>2 DEF Progress, DataAt, LengthAt, ChainAt
<1> QED BY <1>10, <1>11

\* Then the chain id, of the commands that have one.
LEMMA ReadChainIdProgress ==
  ASSUME StepInv, ReadChainId, NEW r \in Requests, Requested(r)
  PROVE  Progress(r)'
<1>1. /\ pc = "chain_id" /\ size = Len(Payload(r)) /\ path = r.path
      /\ offset = ChainAt(r) /\ HasChain(r.kind)
  BY Underway DEF ReadChainId, Progress
<1>2. /\ ChainAt(r) \in Nat /\ LengthAt(r) = ChainAt(r) + 4
      /\ LengthAt(r) <= Len(Payload(r)) /\ Len(Payload(r)) \in Nat
  <2>1. /\ DataAt(r) \in Nat /\ ChainAt(r) \in Nat /\ Len(Payload(r)) \in Nat
        /\ Len(Payload(r)) = DataAt(r) + (IF HasData(r.kind) THEN Len(r.chunk) ELSE 0)
    BY Underway DEF PayloadHolds
  <2>2. Len(r.chunk) \in Nat
    BY Underway
  <2>3. LengthAt(r) = ChainAt(r) + 4
    BY <1>1 DEF LengthAt
  <2>4. DataAt(r) >= LengthAt(r)
    BY <2>1, <2>3 DEF DataAt
  <2> QED BY <2>1, <2>2, <2>3, <2>4
<1>3. CanRead(4) /\ SeekCur(4) = LengthAt(r)
  BY <1>1, <1>2 DEF CanRead, SeekCur
<1>4. WordAt(offset) = r.chain
  <2>1. \A j \in 1..4 : Payload(r)[ChainAt(r) + j] = r.chain[j]
    BY <1>1, Underway DEF PayloadHolds
  <2>2. Seen(r) /\ r.chain \in Words /\ ChainAt(r) + 4 <= Len(Payload(r))
    BY <1>2, Underway
  <2> QED BY <1>1, <1>2, <2>1, <2>2, WordSeen
<1>5. /\ chainId' = r.chain /\ offset' = LengthAt(r) /\ path' = r.path
      /\ pc' = IF WithLength THEN "length" ELSE "rest"
  BY <1>1, <1>3, <1>4 DEF ReadChainId, Goto
<1>6. WithLength = HasLength(r.kind)
  BY Underway, KindSeen
<1>7. CASE HasLength(r.kind)
  <2>1. pc' = "length"
    BY <1>5, <1>6, <1>7
  <2> QED BY <1>5, <1>7, <2>1 DEF Progress, LengthAt, ChainAt
<1>8. CASE ~HasLength(r.kind)
  <2>1. pc' = "rest"
    BY <1>5, <1>6, <1>8
  <2>2. DataAt(r) = LengthAt(r)
    BY <1>2, <1>8 DEF DataAt
  <2> QED BY <1>5, <1>8, <2>1, <2>2 DEF Progress, DataAt, LengthAt, ChainAt
<1> QED BY <1>7, <1>8

\* Then the length of the message.
LEMMA ReadMsgLengthProgress ==
  ASSUME StepInv, ReadMsgLength, NEW r \in Requests, Requested(r)
  PROVE  Progress(r)'
<1>1. /\ pc = "length" /\ size = Len(Payload(r)) /\ path = r.path
      /\ HasChain(r.kind) => chainId = r.chain
      /\ offset = LengthAt(r) /\ HasLength(r.kind)
  BY Underway DEF ReadMsgLength, Progress
<1>2. /\ LengthAt(r) \in Nat /\ DataAt(r) = LengthAt(r) + 4
      /\ DataAt(r) <= Len(Payload(r)) /\ Len(Payload(r)) \in Nat
  <2>1. /\ DataAt(r) \in Nat /\ LengthAt(r) \in Nat /\ Len(Payload(r)) \in Nat
        /\ Len(Payload(r)) = DataAt(r) + (IF HasData(r.kind) THEN Len(r.chunk) ELSE 0)
    BY Underway DEF PayloadHolds
  <2>2. Len(r.chunk) \in Nat
    BY Underway
  <2> QED BY <1>1, <2>1, <2>2 DEF DataAt
<1>3. CanRead(4) /\ SeekCur(4) = DataAt(r)
  BY <1>1, <1>2 DEF CanRead, SeekCur
<1>4. WordAt(offset) = r.length
  <2>1. \A j \in 1..4 : Payload(r)[LengthAt(r) + j] = r.length[j]
    BY <1>1, Underway DEF PayloadHolds
  <2>2. Seen(r) /\ r.length \in Words /\ LengthAt(r) + 4 <= Len(Payload(r))
    BY <1>2, Underway
  <2> QED BY <1>1, <1>2, <2>1, <2>2, WordSeen
<1>5. /\ msgLength' = r.length /\ offset' = DataAt(r) /\ pc' = "rest"
      /\ path' = path /\ chainId' = chainId
  BY <1>3, <1>4 DEF ReadMsgLength, Goto
<1> QED BY <1>1, <1>5 DEF Progress, DataAt, LengthAt, ChainAt

\* What is left is the first chunk.
LEMMA TakeRestProgress ==
  ASSUME StepInv, TakeRest, NEW r \in Requests, Requested(r)
  PROVE  Progress(r)'
<1>1. /\ pc = "rest" /\ size = Len(Payload(r)) /\ path = r.path
      /\ HasChain(r.kind) => chainId = r.chain
      /\ HasLength(r.kind) => msgLength = r.length
      /\ offset = DataAt(r)
  BY Underway DEF TakeRest, Progress
<1>2. /\ pc' = "idle" /\ status' = "OK"
      /\ UNCHANGED << path, chainId, msgLength >>
  BY DEF TakeRest, Finish
<1>3. ASSUME HasData(r.kind) PROVE chunk' = r.chunk
  <2>1. WithData
    BY <1>3, Underway, KindSeen
  <2>2. /\ DataAt(r) \in Nat /\ Len(Payload(r)) \in Nat
        /\ Len(Payload(r)) = DataAt(r) + Len(r.chunk)
        /\ \A j \in 1..Len(r.chunk) : Payload(r)[DataAt(r) + j] = r.chunk[j]
    BY <1>3, Underway DEF PayloadHolds
  <2>3. r.chunk \in Seq(Bytes) /\ Len(r.chunk) \in Nat
    BY Underway
  <2>4. size - offset = Len(r.chunk)
    BY <1>1, <2>2, <2>3
  <2>5. chunk' = [i \in 1..Len(r.chunk) |-> apdu[OFFSET_CDATA + offset + i - 1]]
    BY <2>1, <2>4 DEF TakeRest
  <2>6. ASSUME NEW i \in 1..Len(r.chunk)
        PROVE  apdu[OFFSET_CDATA + offset + i - 1] = r.chunk[i]
    <3> DEFINE at == DataAt(r) + i
    <3>1. Payload(r)[at] = r.chunk[i]
      BY <2>2
    <3>2. at \in 1..Len(Payload(r)) /\ OFFSET_CDATA + offset + i - 1 = 4 + at
      <4>1. DataAt(r) \in Nat /\ Len(Payload(r)) = DataAt(r) + Len(r.chunk)
        BY <2>2
      <4> QED BY <1>1, <2>3, <4>1 DEF OFFSET_CDATA
    <3> HIDE DEF at
    <3>3. apdu[4 + at] = Payload(r)[at]
      BY <3>2, Underway DEF Seen
    <3> QED BY <3>1, <3>2, <3>3
  <2>7. r.chunk = [i \in 1..Len(r.chunk) |-> r.chunk[i]]
    BY <2>3
  <2> QED BY <2>5, <2>6, <2>7
<1>4. Decoded(r)'
  BY <1>1, <1>2, <1>3 DEF Decoded
<1> QED BY <1>2, <1>4 DEF Progress, Decoded

\* Only a new command changes the buffer.
LEMMA BufferKept == ASSUME Handle PROVE UNCHANGED << apdu, frame >>
  BY DEF Handle, ParseFrame, ReadPathLen, ReadPath, ReadChainId, ReadMsgLength, TakeRest,
         Finish, Goto

\* It begins with the command.
LEMMA FrameInvKept == ASSUME StepInv, [Next]_vars PROVE FrameInv'
<1>1. CASE UNCHANGED << apdu, frame >>
  BY <1>1 DEF StepInv, FrameInv
<1>2. ASSUME NEW f \in Frames, Receive(f) PROVE FrameInv'
  <2>1. f \in Seq(Bytes) /\ Len(f) <= BufferSize /\ Len(f) \in Nat
    BY FramesAssumption
  <2>2. /\ frame' = f /\ apdu \in [0..(BufferSize - 1) -> Bytes]
        /\ apdu' = [i \in DOMAIN apdu |-> IF i < Len(f) THEN f[i + 1] ELSE apdu[i]]
    BY <1>2 DEF Receive, StepInv, Inv, TypeOK
  <2>3. ASSUME NEW i \in 1..Len(f) PROVE apdu'[i - 1] = f[i]
    <3>1. i - 1 \in 0..(BufferSize - 1) /\ i - 1 < Len(f) /\ (i - 1) + 1 = i
      BY <2>1, Sizes
    <3> QED BY <2>2, <3>1
  <2> QED BY <2>2, <2>3 DEF FrameInv
<1> QED BY <1>1, <1>2, BufferKept DEF Next, vars, buffer, request

\* Every step leaves a request where the next reader expects it.
LEMMA ProgressKept == ASSUME StepInv, [Next]_vars PROVE ProgressInv'
<1> SUFFICES ASSUME NEW r \in Requests, Requested(r)' PROVE Progress(r)'
  BY DEF ProgressInv, Requested
<1>1. ASSUME NEW f \in Frames, Receive(f) PROVE Progress(r)'
  BY <1>1, ReceiveProgress
<1>2. CASE Handle
  <2>1. Requested(r)
    BY <1>2, BufferKept DEF Requested
  <2> QED BY <1>2, <2>1, ParseFrameProgress, ReadPathLenProgress, ReadPathProgress,
             ReadChainIdProgress, ReadMsgLengthProgress, TakeRestProgress DEF Handle
<1>3. CASE UNCHANGED vars
  <2>1. Requested(r)
    BY <1>3 DEF Requested, vars
  <2>2. Progress(r)
    BY <2>1 DEF StepInv, ProgressInv, Requested
  <2> QED BY <1>3, <2>2 DEF vars, buffer, request, Progress, Decoded
<1> QED BY <1>1, <1>2, <1>3 DEF Next

\* The readers keep pace with every request.
LEMMA RequestInvariance == Spec => []StepInv
<1>1. Init /\ Inv => StepInv
  BY DEF Init, StepInv, FrameInv, ProgressInv, Progress
<1>2. StepInv /\ Inv' /\ [Next]_vars => StepInv'
  BY FrameInvKept, ProgressKept DEF StepInv
<1> QED BY <1>1, <1>2, Invariance, PTL DEF Spec

\* Every request of the documented form, of whatever path, chain id, length and
\* chunk, is accepted and read field by field, over whatever earlier commands
\* left in the buffer.
THEOREM EveryRequestDecoded == Spec => []RequestsDecoded
<1>1. StepInv => RequestsDecoded
  BY DEF StepInv, ProgressInv, Progress, RequestsDecoded
<1> QED BY <1>1, RequestInvariance, PTL
============================================================================
