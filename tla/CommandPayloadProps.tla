------------------------ MODULE CommandPayloadProps ------------------------
(***************************************************************************)
(* What the handlers may rely on once a payload has been read.             *)
(***************************************************************************)
EXTENDS CommandPayload

CONSTANT Requests      \* what hosts mean by the commands they send

\* INS and P1
Kinds == { << GET_PUBLIC_KEY, 0 >>, << GET_PUBLIC_KEY, 1 >>, << SIGN_TX, 0 >>, << SIGN_PERSONAL, 0 >> }

ASSUME RequestsAssumption ==
  \A r \in Requests :
    /\ r.kind \in Kinds
    /\ r.path \in Seq(Words) /\ r.path # << >>
    /\ r.chain \in Words /\ r.length \in Words
    /\ r.chunk \in Seq(Bytes)

\* The variables keep their types; in particular the path read fits
\* bip32_path[MAX_BIP32_PATH] of the context.
TypeOK ==
  /\ apdu \in [0..(BufferSize - 1) -> Bytes]
  /\ frame \in Seq(Bytes) /\ Len(frame) <= BufferSize
  /\ pc \in { "idle", "frame", "path_length", "path", "chain_id", "length", "rest" }
  /\ size \in Nat /\ offset \in Nat
  /\ pathLen \in Bytes
  /\ path \in Seq(Words) /\ Len(path) <= MAX_BIP32_PATH
  /\ chainId \in Words /\ msgLength \in Words
  /\ chunk \in Seq(Bytes)
  /\ status \in { "none", "OK", "WRONG_DATA_LENGTH", "INVALID_DATA" }

\* The offset never passes the end of the payload, although the readers
\* ignore a failed seek: size - offset, an unsigned subtraction that becomes
\* the length of the chunk, does not wrap around.
OffsetInPayload == offset <= size

\* The payload ends within the buffer, and agrees with the frame.
SizeOfFrame == pc \notin {"idle", "frame"} => OFFSET_CDATA + size = Len(frame)

\* What is read of a path ends at most four bytes behind the payload.
OverreadBounded == 4 * Len(path) <= size - 1 + 4

-----------------------------------------------------------------------------
\* The encoding of COMMANDS.md.
HasChain(kind)  == kind \in { << GET_PUBLIC_KEY, 1 >>, << SIGN_PERSONAL, 0 >> }
HasLength(kind) == kind[1] = SIGN_PERSONAL
HasData(kind)   == kind[1] \in { SIGN_TX, SIGN_PERSONAL }

\* The words of a path, one behind the other.
Flat(words) == [i \in 1..(4 * Len(words)) |-> words[(i - 1) \div 4 + 1][((i - 1) % 4) + 1]]

If(present, bytes) == IF present THEN bytes ELSE << >>

Payload(r) ==
  << Len(r.path) >> \o (Flat(r.path)
    \o (If(HasChain(r.kind), r.chain)
    \o (If(HasLength(r.kind), r.length)
    \o If(HasData(r.kind), r.chunk))))

FrameOf(kind, payload) == << 224, kind[1], kind[2], 0, Len(payload) >> \o payload

\* The request was read field by field.
Decoded(r) ==
  /\ status = "OK"
  /\ path = r.path
  /\ HasChain(r.kind) => chainId = r.chain
  /\ HasLength(r.kind) => msgLength = r.length
  /\ HasData(r.kind) => chunk = r.chunk

\* A request that fits and is encoded as documented is accepted and read
\* field by field, whatever earlier commands left in the buffer.
RequestsDecoded ==
  pc = "idle" /\ status # "none" =>
    \A r \in Requests :
      frame = FrameOf(r.kind, Payload(r)) /\ Len(r.path) <= MAX_BIP32_PATH => Decoded(r)

-----------------------------------------------------------------------------
\* Inductive strengthening: where the offset is when the path is read.
PathInv ==
  /\ pc = "frame" => path = << >>
  /\ pc = "path_length" => size > 0 /\ offset = 0 /\ path = << >>
  /\ pc = "path" => size > 0 /\ offset = 1 /\ path = << >>
  /\ path # << >> => 4 * (Len(path) - 1) <= size - 1

\* A command lies at the start of the buffer.
FrameInv == \A i \in 1..Len(frame) : apdu[i - 1] = frame[i]

\* How far a request has been read.
ChainAt(r)  == 1 + 4 * Len(r.path)
LengthAt(r) == ChainAt(r) + (IF HasChain(r.kind) THEN 4 ELSE 0)
DataAt(r)   == LengthAt(r) + (IF HasLength(r.kind) THEN 4 ELSE 0)

Progress(r) ==
  /\ pc = "path" => pathLen = Len(r.path)
  /\ pc \in { "chain_id", "length", "rest" } => path = r.path
  /\ pc = "chain_id" => offset = ChainAt(r) /\ HasChain(r.kind)
  /\ pc \in { "length", "rest" } /\ HasChain(r.kind) => chainId = r.chain
  /\ pc = "length" => offset = LengthAt(r) /\ HasLength(r.kind)
  /\ pc = "rest" /\ HasLength(r.kind) => msgLength = r.length
  /\ pc = "rest" => offset = DataAt(r)
  /\ pc = "idle" /\ status # "none" => Decoded(r)

ProgressInv ==
  \A r \in Requests :
    frame = FrameOf(r.kind, Payload(r)) /\ Len(r.path) <= MAX_BIP32_PATH => Progress(r)
============================================================================
