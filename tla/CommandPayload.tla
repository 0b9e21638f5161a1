--------------------------- MODULE CommandPayload ---------------------------
(***************************************************************************)
(* From the bytes of a command to the arguments of its handler: the frame  *)
(* check of src/apdu/parser.c, the buffer of src/common/buffer.c with its  *)
(* offset, and the reads the handlers make from it for the first command   *)
(* of a session: derivation path, chain id, message length, first chunk.   *)
(*                                                                         *)
(* All commands arrive in G_io_apdu_buffer, which is longer than a command *)
(* and keeps behind it what earlier commands left.  A 32-bit word is the   *)
(* sequence of its four bytes.                                             *)
(***************************************************************************)
EXTENDS Integers, Sequences

CONSTANTS
  Frames,           \* the byte sequences the host may send
  BufferSize,       \* sizeof(G_io_apdu_buffer)
  MAX_BIP32_PATH

Bytes == 0..255
OFFSET_LC    == 4
OFFSET_CDATA == 5

GET_PUBLIC_KEY == 2
SIGN_TX        == 3
SIGN_PERSONAL  == 4

\* Only the first commands of sessions that carry a payload.
ASSUME FramesAssumption ==
  \A f \in Frames :
    /\ f \in Seq(Bytes) /\ Len(f) <= BufferSize
    /\ Len(f) >= 3 => f[2] \in { GET_PUBLIC_KEY, SIGN_TX, SIGN_PERSONAL } /\ f[3] \in { 0, 1 }
ASSUME PathAssumption ==
  /\ MAX_BIP32_PATH \in Nat
  /\ BufferSize \in Nat
  /\ BufferSize >= OFFSET_CDATA + 1 + 4 * MAX_BIP32_PATH

VARIABLES
  apdu,      \* G_io_apdu_buffer
  frame,     \* the last command as the host sent it
  pc,        \* the next read
  size, offset,                       \* buffer_t of the payload
  pathLen, path, chainId, msgLength,  \* what the handler stored
  chunk,     \* what it processes as data
  status     \* "OK" once everything was read, or the status word thrown

buffer  == << size, offset >>
request == << pathLen, path, chainId, msgLength, chunk >>
vars    == << apdu, frame, pc, buffer, request, status >>

\* apdu_dispatcher: INS and P1 of the command that is being handled.
WithChainId == apdu[1] = SIGN_PERSONAL \/ (apdu[1] = GET_PUBLIC_KEY /\ apdu[2] = 1)
WithLength  == apdu[1] = SIGN_PERSONAL
WithData    == apdu[1] \in { SIGN_TX, SIGN_PERSONAL }

Words == [1..4 -> Bytes]

-----------------------------------------------------------------------------
\* buffer.c

CanRead(n) == size - offset >= n

\* A seeded fault: no check against the end of the payload.
SeekUnchecked(n) == offset + n

\* buffer_seek_cur, whose result the readers ignore.
SeekCur(n) == IF offset + n > size THEN offset ELSE offset + n

\* read_u32_be
WordAt(at) == [i \in 1..4 |-> apdu[OFFSET_CDATA + at + i - 1]]

\* Seeded faults: no upper bound on the number of components; one component
\* more than the check allows; a step of one byte for each component.
AnyLength(n)  == n # 0 /\ 4 * (n - 1) <= size - offset
OneMore(n)    == n # 0 /\ n <= MAX_BIP32_PATH /\ 4 * (n - 2) <= size - offset
WordsAsBytes  == pathLen

\* bip32_path_read stops at a component that starts behind the payload.  What
\* it has written by then is wiped with the session and not modelled.
PathReadable(n) == n # 0 /\ n <= MAX_BIP32_PATH /\ 4 * (n - 1) <= size - offset

\* sizeof(*out) * out_len
PathBytes == 4 * pathLen

-----------------------------------------------------------------------------
Init ==
  /\ apdu = [i \in 0..(BufferSize - 1) |-> 0]
  /\ frame = << >>
  /\ pc = "idle"
  /\ size = 0 /\ offset = 0
  /\ pathLen = 0 /\ path = << >> /\ chainId = << 0, 0, 0, 0 >>
  /\ msgLength = << 0, 0, 0, 0 >> /\ chunk = << >>
  /\ status = "none"

\* A command overwrites as much of the buffer as it is long; the handler
\* starts with a zeroed context.
Receive(f) ==
  /\ pc = "idle"
  /\ frame' = f
  /\ apdu' = [i \in DOMAIN apdu |-> IF i < Len(f) THEN f[i + 1] ELSE apdu[i]]
  /\ pc' = "frame"
  /\ pathLen' = 0 /\ path' = << >> /\ chainId' = << 0, 0, 0, 0 >>
  /\ msgLength' = << 0, 0, 0, 0 >> /\ chunk' = << >>
  /\ status' = "none"
  /\ UNCHANGED buffer

Finish(sw) == pc' = "idle" /\ status' = sw /\ UNCHANGED << apdu, frame >>
Goto(next) == pc' = next /\ UNCHANGED << apdu, frame, status >>

\* apdu_parser, the buffer_t of the dispatcher, and the handlers' checks for
\* an empty payload.
ParseFrame ==
  /\ pc = "frame"
  /\ \/ /\ \/ Len(frame) < OFFSET_CDATA
           \/ Len(frame) - OFFSET_CDATA # apdu[OFFSET_LC]
        /\ Finish("WRONG_DATA_LENGTH")
        /\ UNCHANGED buffer
     \/ /\ Len(frame) >= OFFSET_CDATA
        /\ Len(frame) - OFFSET_CDATA = apdu[OFFSET_LC]
        /\ size' = apdu[OFFSET_LC]
        /\ offset' = 0
        /\ IF size' > 0 THEN Goto("path_length")
           ELSE Finish(IF WithData THEN "INVALID_DATA" ELSE "WRONG_DATA_LENGTH")
  /\ UNCHANGED request

\* buffer_read_u8
ReadPathLen ==
  /\ pc = "path_length"
  /\ IF CanRead(1)
     THEN /\ pathLen' = apdu[OFFSET_CDATA + offset]
          /\ offset' = SeekCur(1)
          /\ Goto("path")
     ELSE Finish("WRONG_DATA_LENGTH") /\ UNCHANGED << pathLen, offset >>
  /\ UNCHANGED << size, path, chainId, msgLength, chunk >>

\* buffer_read_bip32_path
ReadPath ==
  /\ pc = "path"
  /\ IF PathReadable(pathLen)
     THEN /\ path' = [i \in 1..pathLen |-> WordAt(offset + 4 * (i - 1))]
          /\ offset' = SeekCur(PathBytes)
          /\ Goto(IF WithChainId THEN "chain_id" ELSE "rest")
     ELSE Finish("WRONG_DATA_LENGTH") /\ UNCHANGED << path, offset >>
  /\ UNCHANGED << size, pathLen, chainId, msgLength, chunk >>

\* buffer_read_u32(cdata, &ctx->chain_id, BE)
ReadChainId ==
  /\ pc = "chain_id"
  /\ IF CanRead(4)
     THEN /\ chainId' = WordAt(offset)
          /\ offset' = SeekCur(4)
          /\ Goto(IF WithLength THEN "length" ELSE "rest")
     ELSE Finish("WRONG_DATA_LENGTH") /\ UNCHANGED << chainId, offset >>
  /\ UNCHANGED << size, pathLen, path, msgLength, chunk >>

\* buffer_read_u32(cdata, &ctx->remaining_length, BE)
ReadMsgLength ==
  /\ pc = "length"
  /\ IF CanRead(4)
     THEN /\ msgLength' = WordAt(offset)
          /\ offset' = SeekCur(4)
          /\ Goto("rest")
     ELSE Finish("INVALID_DATA") /\ UNCHANGED << msgLength, offset >>
  /\ UNCHANGED << size, pathLen, path, chainId, chunk >>

\* cdata->ptr + cdata->offset, cdata->size - cdata->offset: the first chunk of
\* a transaction or message; a request for a key ignores what is left.
TakeRest ==
  /\ pc = "rest"
  /\ chunk' = IF WithData
              THEN [i \in 1..(size - offset) |-> apdu[OFFSET_CDATA + offset + i - 1]]
              ELSE << >>
  /\ Finish("OK")
  /\ UNCHANGED << buffer, pathLen, path, chainId, msgLength >>

Handle == ParseFrame \/ ReadPathLen \/ ReadPath \/ ReadChainId \/ ReadMsgLength \/ TakeRest

Next == Handle \/ \E f \in Frames : Receive(f)

Spec == Init /\ [][Next]_vars
============================================================================
