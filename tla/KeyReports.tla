----------------------------- MODULE KeyReports -----------------------------
(***************************************************************************)
(* What the device says about its keys: the path and the addresses that a  *)
(* review shows, the hash of a message, and the replies with a public key  *)
(* or a signature.  A request is one that the handlers have read (see      *)
(* CommandPayload, RlpParser) and that may be reviewed; it comes when no    *)
(* other is (see ConfluxApp).  The texts lie in the union strings_t, which *)
(* keeps what earlier reviews left.  The amount and what is behind it are  *)
(* the matter of TxDisplay.                                                *)
(*                                                                         *)
(* A uint32_t has WordBits bits here, a uint64_t twice as many.            *)
(***************************************************************************)
EXTENDS CfxAddress, SignatureReply, SequencesExt

CONSTANTS
  Requests,
  SigningScalars,     \* the numbers r and s that signing comes up with
  PublicKey(_), ChainCode(_), Keccak(_),      \* of a path, of a path, of a key
  PathSize, AddressSize, HashSize,            \* the arrays of strings_t
  LenStrSize,         \* len_str
  MaxRequests         \* bound

\* A hash of 32 bytes fits its field; r and s are not 0, and no reply is longer
\* than a public key with its chain code.
ASSUME ReportsAssumption ==
  /\ { PathSize, AddressSize, HashSize, LenStrSize } \subseteq Nat \ {0}
  /\ AddressSize >= 20 /\ HashSize >= 67
  /\ MaxRequests \in Nat /\ WordBits % 8 = 0
  /\ SigningScalars \subseteq Scalars /\ 1 + 2 * ScalarLength <= 99
  /\ \A x \in SigningScalars : \E i \in 1..ScalarLength : x[i] # 0

\* What the handlers read, and what the operating system makes of it.
ASSUME RequestsAssumption ==
  \A req \in Requests :
    /\ req.ins \in { "GET_PUBLIC_KEY", "SIGN_TX", "SIGN_PERSONAL" }
    /\ req.path \in Seq(0..(2^WordBits - 1)) /\ req.path # << >>
    /\ req.ins = "GET_PUBLIC_KEY" =>
         { req.display, req.chaincode } \subseteq BOOLEAN /\ req.chain \in 0..(2^WordBits - 1)
    /\ req.ins = "SIGN_TX" =>
         req.chainid \in Seq(Byte) /\ req.destination \in [1..20 -> Byte] \cup { << >> }
    /\ req.ins = "SIGN_PERSONAL" =>
         { req.chain, req.length } \subseteq 0..(2^WordBits - 1) /\ req.hash \in [1..32 -> Byte]
    /\ PublicKey(req.path) \in [1..64 -> Byte] /\ ChainCode(req.path) \in [1..32 -> Byte]
    /\ Keccak(PublicKey(req.path)) \in [1..32 -> Byte]

\* CFXADDR_MAX_LENGTH + 1: the longest address, on the network of the largest id,
\* fits its array with its terminator.
ASSUME AddressSizeAssumption == LengthFits(2^WordBits - 1, AddressSize)

VARIABLES
  pc,         \* "menu" or "review"
  request,    \* the context
  strings,
  announced,  \* the text of the length that is hashed ahead of a message
  reply,      \* the last answer
  made,       \* history: the signature it stands for
  requests    \* how many there were

vars == << pc, request, strings, announced, reply, made, requests >>

None == [ins |-> "none"]

WordBytes == WordBits \div 8
Hardened  == 2^(WordBits - 1)

\* A length that is printed as itself fits len_str, with its terminator.
ASSUME LenStrAssumption ==
  Hardened \in Nat /\ \A n \in 0..(Hardened - 1) : Len(Decimal(n)) < LenStrSize

\* get_pubkey_strings_t, sign_tx_strings_t, sign_personal_strings_t
PathAt      == 0
AddressAt   == PathSize
SenderAt    == 0
ReceiverAt  == AddressSize
SignerAt    == 0

\* A seeded fault: the hash is put behind the texts of a public key.
HashBehindKey == PathSize + AddressSize

HashAt      == AddressSize
Behind      == 2 * AddressSize
Strings     == 0..(AddressSize + Max({ PathSize, AddressSize, HashSize }) - 1)

-----------------------------------------------------------------------------
\* bip32_path_format.

\* A seeded fault: the bit of a hardened component stays in its number.
IndexUnmasked(word) == word

Index(word) == word % Hardened

\* What is printed one by one: numbers, "'" and "/".
Pieces(path) ==
  FlattenSeq([k \in DOMAIN path |->
    << Decimal(Index(path[k])) >>
      \o (IF path[k] >= Hardened THEN << << 39 >> >> ELSE << >>)
      \o (IF k < Len(path) THEN << << 47 >> >> ELSE << >>)])

\* snprintf leaves out what has no room; only a piece of which nothing is left
\* is an error, for strlen is always less than the room.
PathText(path) ==
  LET pieces == Pieces(path)
      offset[k \in 0..Len(pieces)] ==
        IF k = 0 THEN 0
        ELSE Min({ offset[k - 1] + Len(pieces[k]), PathSize - 1 })
  IN [ text |-> SubSeq(FlattenSeq(pieces), 1, offset[Len(pieces)]),
       ok   |-> \A k \in DOMAIN pieces : offset[k] > offset[k - 1] ]

-----------------------------------------------------------------------------
\* The addresses.

\* address_from_pubkey: the last 20 bytes, of which the first begins with 0001.
AddressFromPubkey(key) ==
  LET address == SubSeq(Keccak(key), 13, 32)
  IN [address EXCEPT ![1] = 16 + (@ % 16)]

\* u64_from_BE of the chain id reads at most eight bytes; the lower half counts.
ChainIdWord(chainid) ==
  LET read == SubSeq(chainid, 1, Min({ Len(chainid), 2 * WordBytes }))
      high == Max({ 0, Len(read) - WordBytes })
  IN Number(SubSeq(read, high + 1, Len(read)), 256)

\* bip32_to_address
PathAddress(path, id) == Encode(AddressFromPubkey(PublicKey(path)), id)

\* "New contract"
NewContract == << 78, 101, 119, 32, 99, 111, 110, 116, 114, 97, 99, 116 >>

Receiver(req) ==
  IF req.destination = << >> THEN Terminated(NewContract)
  ELSE Encode(req.destination, ChainIdWord(req.chainid))

-----------------------------------------------------------------------------
\* The reviews: the strings, and the status word if it does not come to one.

RenderGetPubkey(req) ==
  LET path    == PathText(req.path)
      cleared == Store(strings, PathAt, Cleared(PathSize))
      shown   == Store(cleared, PathAt, path.text)
  IN IF ~path.ok THEN [sw |-> "SW_DISPLAY_BIP32_PATH_FAIL", strings |-> cleared]
     ELSE IF ~LengthFits(req.chain, AddressSize)
     THEN [sw |-> "SW_CIP37_CONVERSION_FAIL", strings |-> shown]
     ELSE [sw |-> "SW_OK",
           strings |-> Store(shown, AddressAt, PathAddress(req.path, req.chain))]

\* The texts from the amount on are rendered as well: a stand-in.
Amount == [i \in 1..(Cardinality(Strings) - Behind) |-> 67]

RenderSignTx(req) ==
  LET id == ChainIdWord(req.chainid)
  IN IF ~LengthFits(id, AddressSize)
     THEN [sw |-> "SW_CIP37_CONVERSION_FAIL", strings |-> strings]
     ELSE [sw |-> "SW_OK",
           strings |-> Store(Store(Store(strings, SenderAt, PathAddress(req.path, id)),
                                   ReceiverAt, Receiver(req)),
                             Behind, Amount)]

\* A seeded fault: the room for the terminator of the hash is not counted.
FormatHexShort(bytes, room) ==
  IF room <= 2 * Len(bytes) + 1 THEN << NUL >> ELSE Terminated(Hex(bytes))

\* format_hex behind the terminated "0x"
FormatHex(bytes, room) ==
  IF room < 2 * Len(bytes) + 1 THEN << NUL >> ELSE Terminated(Hex(bytes))

RenderSignPersonal(req) ==
  IF ~LengthFits(req.chain, AddressSize)
  THEN [sw |-> "SW_CIP37_CONVERSION_FAIL", strings |-> strings]
  ELSE [sw |-> "SW_OK",
        strings |-> Store(Store(strings, SignerAt, PathAddress(req.path, req.chain)),
                          HashAt, HexPrefix \o FormatHex(req.hash, HashSize - 2))]

Render(req) ==
  CASE req.ins = "GET_PUBLIC_KEY" -> RenderGetPubkey(req)
    [] req.ins = "SIGN_TX"        -> RenderSignTx(req)
    [] req.ins = "SIGN_PERSONAL"  -> RenderSignPersonal(req)

\* snprintf of an unsigned length with %d, and strnlen.
LengthText(length) ==
  LET text == IF length < Hardened THEN Decimal(length)
              ELSE << MINUS >> \o Decimal(2^WordBits - length)
  IN SubSeq(text, 1, Min({ Len(text), LenStrSize - 1 }))

-----------------------------------------------------------------------------
\* helper_send_response_pubkey
ResponsePubkey(req) ==
  << 65, 4 >> \o PublicKey(req.path)
    \o (IF req.chaincode THEN << 32 >> \o ChainCode(req.path) ELSE << >>)

Answer(req, sw, data) == reply' = [to |-> req, sw |-> sw, data |-> data]

\* reset_app_context and the main menu
ResetContext == request' = None /\ announced' = << >> /\ pc' = "menu"

Received == pc = "menu" /\ requests < MaxRequests /\ requests' = requests + 1

NotShown(req) == req.ins = "GET_PUBLIC_KEY" /\ ~req.display

\* handler_get_public_key without a display; it leaves its context as it is.
ReplyAtOnce(req) ==
  /\ Received /\ NotShown(req)
  /\ Answer(req, "SW_OK", ResponsePubkey(req))
  /\ request' = req /\ announced' = << >> /\ pc' = "menu"
  /\ made' = None /\ UNCHANGED strings

\* ui_get_pubkey, ui_sign_tx, ui_sign_personal
Review(req) ==
  /\ Received /\ ~NotShown(req)
  /\ LET rendered == Render(req)
     IN rendered.sw = "SW_OK" /\ strings' = rendered.strings
  /\ request' = req /\ pc' = "review"
  /\ announced' = IF req.ins = "SIGN_PERSONAL" THEN LengthText(req.length) ELSE << >>
  /\ reply' = None /\ made' = None

\* They throw, and app_main answers.
RenderFails(req) ==
  /\ Received /\ ~NotShown(req)
  /\ LET rendered == Render(req)
     IN /\ rendered.sw # "SW_OK" /\ strings' = rendered.strings
        /\ Answer(req, rendered.sw, << >>)
  /\ ResetContext
  /\ made' = None

\* ui_action_validate_pubkey
ApprovePubkey ==
  /\ pc = "review" /\ request.ins = "GET_PUBLIC_KEY"
  /\ Answer(request, "SW_OK", ResponsePubkey(request))
  /\ ResetContext
  /\ UNCHANGED << strings, made, requests >>

\* ui_action_validate_transaction, ui_action_sign_personal
ApproveSigning ==
  /\ pc = "review" /\ request.ins # "GET_PUBLIC_KEY"
  /\ \E r, s \in SigningScalars, v \in { 0, 1 } :
       /\ made' = [v |-> v, r |-> r, s |-> s]
       /\ Answer(request, "SW_OK", ResponseSig(Signed(r, s), v))
  /\ ResetContext
  /\ UNCHANGED << strings, requests >>

\* crypto_sign_message without a signature
SigningFails ==
  /\ pc = "review" /\ request.ins # "GET_PUBLIC_KEY"
  /\ Answer(request, "SW_SIGNATURE_FAIL", << >>)
  /\ ResetContext
  /\ UNCHANGED << strings, made, requests >>

Reject ==
  /\ pc = "review"
  /\ Answer(request, "SW_DENY", << >>)
  /\ ResetContext
  /\ UNCHANGED << strings, made, requests >>

Init ==
  /\ pc = "menu" /\ request = None /\ announced = << >>
  /\ strings = [i \in Strings |-> 0]
  /\ reply = None /\ made = None /\ requests = 0

Next ==
  \/ \E req \in Requests : ReplyAtOnce(req) \/ Review(req) \/ RenderFails(req)
  \/ ApprovePubkey \/ ApproveSigning \/ SigningFails \/ Reject

Spec == Init /\ [][Next]_vars
============================================================================
