--------------------------- MODULE TxDisplayProps ---------------------------
(***************************************************************************)
(* What the user may read off the texts of a transaction.                  *)
(***************************************************************************)
EXTENDS TxDisplay

Bytes  == 0..(2^ByteBits - 1)
Chars  == 0..255
IsNumber256(x) == \A half, word \in { 1, 2 } : x[half][word] \in 0..(Word - 1)

\* The variables keep their types; in particular each remainder is a digit.
TypeOK ==
  /\ DOMAIN tx = { "value", "gasprice", "gaslimit", "storagelimit", "nonce",
                   "chainid", "data" }
  /\ \A f \in DOMAIN tx :
       tx[f] \in Seq(Bytes) /\ (f # "data" => Len(tx[f]) <= INT256_LENGTH)
  /\ pc \in { "amount", "fee", "digit", "divide", "store", "text", "network",
              "data", "done", "refused" }
  /\ job \in { "amount", "fee", "nonce", "network", "data" }
  /\ DOMAIN mem \subseteq Nat /\ \A i \in DOMAIN mem : mem[i] \in Chars
  /\ limbs \in Seq(0..(2^(2 * ByteBits) - 1))
  /\ digits \in Seq(ZERO..(ZERO + 9))
  /\ \A x \in { rDiv, resDiv, resMod, copyd, adder } : IsNumber256(x)

\* Nothing is stored behind the strings, although feesToString does not bound
\* its copy and tostring256 puts its terminator behind a full field.
StringsContained == DOMAIN mem = Strings

\* divmod256: quotient and remainder always make up the dividend, the aligned
\* divisor is ten times the bit that is tried, and one more is not too small;
\* in the end the remainder is less than ten.
DivisionExact ==
  /\ pc \in { "divide", "store" } =>
       Value(rDiv) = 10 * Value(resDiv) + Value(resMod)
  /\ pc = "divide" /\ Value(resMod) >= 10 =>
       /\ Value(copyd) = 10 * Value(adder)
       /\ Value(resMod) < 2 * Value(copyd)
  /\ pc = "store" => Value(resMod) < 10

-----------------------------------------------------------------------------
\* The text writes n with Decimals decimals, without needless zeros.
Writes(text, n) ==
  \/ IsNumeral(text) /\ ReadNumber(text) * TenTo(Decimals) = n
  \/ \E point \in DOMAIN text :
       LET whole    == SubSeq(text, 1, point - 1)
           fraction == SubSeq(text, point + 1, Len(text))
       IN /\ text[point] = DOT
          /\ IsNumeral(whole) /\ IsNumber(fraction)
          /\ Len(fraction) <= Decimals
          /\ fraction[Len(fraction)] # ZERO
          /\ ReadNumber(whole) * TenTo(Decimals)
               + ReadNumber(fraction) * TenTo(Decimals - Len(fraction)) = n

Sent(field) == Number(tx[field], 2^ByteBits)

\* The fee that the fields make, modulo 2^256.
SentFee ==
  (Sent("gasprice") * Sent("gaslimit") + Sent("storagelimit") * Multiplier) % Modulus

TickerAndNumber(text, n) ==
  /\ SubSeq(text, 1, Len(Ticker)) = Ticker
  /\ Writes(SubSeq(text, Len(Ticker) + 1, Len(text)), n)

-----------------------------------------------------------------------------
\* The amount on the screen is the amount that was sent, to the last Drip,
\* whatever the later texts did to the memory.
AmountExact == pc = "done" => TickerAndNumber(TextAt(mem, AmountAt), Sent("value"))

\* So is the maximal fee, modulo 2^256, as long as its digits fit max_fee;
\* the nonce that is rendered after it does not disturb it.
FeeExact ==
  pc = "done" /\ SentFee < TenTo(FeeSize - Len(Ticker) - 2) =>
    TickerAndNumber(TextAt(mem, FeeAt), SentFee)

\* So is the nonce, as long as its digits fit with their terminator: the bound
\* that types.h chooses, and no less.
NonceExact ==
  pc = "done" /\ Sent("nonce") < TenTo(NonceSize - 1) =>
    /\ IsNumeral(TextAt(mem, NonceAt))
    /\ ReadNumber(TextAt(mem, NonceAt)) = Sent("nonce")

\* The chain id that a text of the network stands for: 109 is for "mainnet", 116
\* for "testnet".
NetworkShown(text, id) ==
  \/ id = MAINNET /\ text = << 109 >>
  \/ id = TESTNET /\ text = << 116 >>
  \/ id \notin { MAINNET, TESTNET } /\ IsNumeral(text) /\ ReadNumber(text) = id

\* The chain id that was sent; u64_from_BE takes the first word of a longer one.
SentNetwork ==
  IF Len(tx.chainid) <= WordBytes THEN Sent("chainid")
  ELSE Number(SubSeq(tx.chainid, 1, WordBytes), 2^ByteBits)

\* The data; from 256 bytes on what its length modulo 256 leaves of it.
CountedData ==
  IF Len(tx.data) < 2^ByteBits THEN tx.data
  ELSE SubSeq(tx.data, 1, Len(tx.data) % 2^ByteBits)

\* So is the network: the two networks with a name by theirs and no other by
\* one, every other in full; of a chain id that is longer than a word the first
\* word counts.  So is the data: in full, or by a selector and dots if there is
\* more.  That is all of it for less than 256 bytes; from there on data_length
\* has wrapped around, so the text shows what the length modulo 256 leaves of
\* the data as if there were no more.  Whether the addresses are of the same
\* network, which only takes the lower half of the word, is not its subject.
NetworkAndDataExact ==
  pc = "done" =>
    /\ NetworkShown(TextAt(mem, NetworkAt), SentNetwork)
    /\ \/ TextAt(mem, DataAt) = HexPrefix \o Hex(CountedData)
       \/ \E n \in SelectorLength..(Len(CountedData) - 1) :
            TextAt(mem, DataAt) = HexPrefix \o Hex(SubSeq(CountedData, 1, n)) \o Ellipsis

\* A transaction is refused for its display only if a text is too long.
RefusedOnlyIfTooLong ==
  pc = "refused" =>
    \/ job = "amount" /\ Sent("value") >= TenTo(AmountSize - Len(Ticker) - 3)
    \/ job = "network" /\ ChainId >= TenTo(NetworkSize - 1)

\* Every rendering ends: divmod256 and the loops around it terminate.
Renders == <>(pc \in { "done", "refused" })
============================================================================
