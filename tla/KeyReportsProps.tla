-------------------------- MODULE KeyReportsProps --------------------------
(***************************************************************************)
(* What the user and the host may conclude from texts and replies.  Each   *)
(* text is read back: a path into its words, an address by CfxDecoder.     *)
(***************************************************************************)
EXTENDS KeyReports, CfxDecoder

Statuses == { "SW_OK", "SW_DENY", "SW_DISPLAY_BIP32_PATH_FAIL",
              "SW_CIP37_CONVERSION_FAIL", "SW_SIGNATURE_FAIL" }

\* The variables keep their types, and nothing is stored outside the union of
\* the strings.
TypeOK ==
  /\ pc \in { "menu", "review" }
  /\ request \in Requests \cup { None } /\ (pc = "review" => request # None)
  /\ DOMAIN strings = Strings /\ \A i \in Strings : strings[i] \in 0..127
  /\ announced \in Seq({ MINUS } \cup ZERO..(ZERO + 9)) /\ Len(announced) < LenStrSize
  /\ reply # None =>
       /\ reply.to \in Requests /\ reply.sw \in Statuses
       /\ reply.data \in Seq(Byte) /\ Len(reply.data) <= 99
  /\ made # None => made.v \in { 0, 1 } /\ { made.r, made.s } \subseteq SigningScalars
  /\ requests \in 0..MaxRequests

Reviewing(ins) == pc = "review" /\ request.ins = ins

Replied(ins) == reply # None /\ reply.sw = "SW_OK" /\ reply.to.ins = ins

-----------------------------------------------------------------------------
IsHardened(part) == part # << >> /\ Last(part) = 39
Numeral(part) == IF IsHardened(part) THEN Front(part) ELSE part

ReadsAs(part, word) ==
  /\ IsNumeral(Numeral(part))
  /\ word = ReadNumber(Numeral(part)) + (IF IsHardened(part) THEN Hardened ELSE 0)

\* Digits are missing at the end of the field, and nothing would follow them.
CutShort(part, word) ==
  /\ word < Hardened
  /\ part # << >> /\ IsStrictPrefix(part, Decimal(word))

\* Characters of a path as a text.
WrittenLength(path) ==
  LET written(n)  == Len(Decimal(n % Hardened)) + (IF n >= Hardened THEN 1 ELSE 0)
      upTo[k \in 0..Len(path)] == IF k = 0 THEN 0 ELSE upTo[k - 1] + written(path[k]) + 1
  IN upTo[Len(path)] - 1

\* The path on the screen is the path of the key, component by component.  A
\* path whose text is too long for its field is refused, or it is shown
\* without the last digits of a last number that is not hardened, since
\* bip32_path_format takes what snprintf has cut for success.
PathExact ==
  /\ Reviewing("GET_PUBLIC_KEY") =>
       LET text  == TextAt(strings, PathAt)
           parts == Parts(text, 47)
           path  == request.path
       IN /\ Len(parts) = Len(path)
          /\ \A k \in DOMAIN path :
               \/ ReadsAs(parts[k], path[k])
               \/ /\ k = Len(path) /\ CutShort(parts[k], path[k])
                  /\ Len(text) = PathSize - 1 /\ WrittenLength(path) >= PathSize
  /\ reply # None /\ reply.sw = "SW_DISPLAY_BIP32_PATH_FAIL" =>
       WrittenLength(reply.to.path) >= PathSize

-----------------------------------------------------------------------------
\* A user address: the last 20 bytes of the hash, type 1 in the first half byte.
OfKey(key) ==
  [i \in 1..20 |-> IF i = 1 THEN 16 + (Keccak(key)[13] % 16) ELSE Keccak(key)[12 + i]]

AddressesShown ==
  /\ Reviewing("GET_PUBLIC_KEY") =>
       Decodes(TextAt(strings, AddressAt), OfKey(PublicKey(request.path)), request.chain)
  /\ Reviewing("SIGN_PERSONAL") =>
       Decodes(TextAt(strings, SignerAt), OfKey(PublicKey(request.path)), request.chain)
  /\ Reviewing("SIGN_TX") /\ Len(request.chainid) <= 2 * WordBytes =>
       LET low == Max({ 0, Len(request.chainid) - WordBytes })
           id  == Number([i \in 1..(Len(request.chainid) - low) |->
                            request.chainid[low + i]], 256)
       IN /\ Decodes(TextAt(strings, SenderAt), OfKey(PublicKey(request.path)), id)
          /\ IF request.destination = << >>
             THEN TextAt(strings, ReceiverAt) = NewContract
             ELSE Decodes(TextAt(strings, ReceiverAt), request.destination, id)
  /\ reply # None => reply.sw # "SW_CIP37_CONVERSION_FAIL"

PubkeyReplied ==
  Replied("GET_PUBLIC_KEY") =>
    LET key  == SubSeq(reply.data, 3, 66)
        rest == SubSeq(reply.data, 67, Len(reply.data))
    IN /\ reply.data[1] = 1 + Len(key) /\ reply.data[2] = 4
       /\ key = PublicKey(reply.to.path)
       /\ rest = IF reply.to.chaincode
                 THEN << Len(ChainCode(reply.to.path)) >> \o ChainCode(reply.to.path)
                 ELSE << >>
       /\ reply.to.display =>
            Decodes(TextAt(strings, AddressAt), OfKey(key), reply.to.chain)

\* Each address on the screen is a valid CIP-37 address, of the key of the path
\* or of the destination, on the network of the request, and none is refused
\* for its length.  Of a chain id of more than 32 bits the lower 32 count, and
\* more than eight bytes are out of reach.  The reply with a public key reads
\* as the key of the path, behind its length and the mark of an uncompressed
\* key, and the chain code if and only if it is asked for; the address that
\* was shown is the address of the key in the reply.
AddressesExact == AddressesShown /\ PubkeyReplied

-----------------------------------------------------------------------------
HexValue(c) == IF c \in ZERO..(ZERO + 9) THEN c - ZERO ELSE c - 87

\* The hash on the screen is the hash of the message, and the length hashed
\* ahead of the message is its length, below 2^31.
MessageExact ==
  Reviewing("SIGN_PERSONAL") =>
    /\ LET text == TextAt(strings, HashAt)
       IN /\ Len(text) = 66 /\ SubSeq(text, 1, 2) = HexPrefix
          /\ \A i \in 1..32 :
               16 * HexValue(text[2 * i + 1]) + HexValue(text[2 * i + 2]) = request.hash[i]
    /\ request.length < Hardened =>
         IsNumeral(announced) /\ ReadNumber(announced) = request.length

-----------------------------------------------------------------------------
SigningReplied == Replied("SIGN_TX") \/ Replied("SIGN_PERSONAL")

IsFull(x) == x[1] # 0

\* The host gets v, r and s of the signature that was made, if neither r nor s
\* begins with a zero byte.  (With one, and a second byte below 128, there is a
\* byte less in DER, and helper_send_response_sig copies from the wrong place.)
FullSignaturesExact ==
  SigningReplied /\ IsFull(made.r) /\ IsFull(made.s) =>
    reply.data = << made.v >> \o made.r \o made.s

\* COMMANDS.md says so of every signature: v, r and s of 1, 32 and 32 bytes.
SignatureExact ==
  SigningReplied => reply.data = << made.v >> \o made.r \o made.s
============================================================================
