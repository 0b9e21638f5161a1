----------------------------- MODULE TxDisplay -----------------------------
(***************************************************************************)
(* How the fields of a transaction become the texts the user approves:     *)
(* render_sign_tx from the amount to the data, with the loops of           *)
(* uint256_to_decimal, tostring256 and divmod256 (src/ui/render.c,         *)
(* src/eth/utils.c, src/eth/uint256.c, src/eth/ethUtils.c).                *)
(*                                                                         *)
(* The texts lie one behind the other in sign_tx_strings_t.  mem is that   *)
(* memory from full_amount on, as the cells it consists of; a store behind *)
(* the last field would add cells.                                         *)
(***************************************************************************)
EXTENDS UInt256, SequencesExt

CONSTANTS
  Txs,            \* the transactions: byte sequences by field
  Multiplier,     \* Drip for a unit of storage (10^18 / 1024)
  Decimals,       \* EXPONENT_SMALLEST_UNIT
  Ticker,         \* "CFX "
  MAINNET, TESTNET,                           \* chain ids with a name
  AmountSize, FeeSize, NonceSize, NetworkSize, DataSize,   \* sign_tx_strings_t
  TmpSize,        \* the local buffers of 100 bytes
  SelectorLength

\* The sizes of types.h: the local buffers hold every number, the fields of the
\* amount and of the fee every number below one unit; a longer fee may run over
\* its own field, but not over all that follow.
ASSUME DisplayAssumption ==
  /\ { AmountSize, FeeSize, NonceSize, NetworkSize, DataSize, TmpSize,
       SelectorLength } \subseteq Nat \ {0}
  /\ Decimals \in Nat /\ Multiplier \in Nat
  /\ MAINNET \in Nat /\ TESTNET \in Nat
  /\ Ticker \in Seq(32..126)
  /\ 10 < Word
  /\ Decimals + 3 <= TmpSize /\ Modulus <= TenTo(TmpSize - 2)
  /\ Len(Ticker) + Decimals + 4 <= AmountSize
  /\ Len(Ticker) + Decimals + 3 <= FeeSize
  /\ \E d \in 1..TmpSize :
       /\ Modulus <= TenTo(d)
       /\ Len(Ticker) + d + 2 <= FeeSize + NonceSize + NetworkSize + DataSize
  /\ 2 <= NonceSize /\ 2 <= NetworkSize
  /\ 2 * SelectorLength + 6 <= DataSize

\* What the parser hands over: bytes, and numbers of at most 32 of them.
ASSUME TxsAssumption ==
  /\ 2^ByteBits \in 1..256
  /\ \A t \in Txs :
       /\ DOMAIN t = { "value", "gasprice", "gaslimit", "storagelimit", "nonce",
                       "chainid", "data" }
       /\ \A f \in DOMAIN t : /\ t[f] \in Seq(0..(2^ByteBits - 1))
                              /\ f # "data" => Len(t[f]) <= INT256_LENGTH

VARIABLES
  tx,
  pc,        \* the next piece of work
  job,       \* the text that is made: "amount", "fee", "nonce", "network", "data"
  mem,       \* the strings
  limbs,     \* n of uint256_to_decimal
  digits,    \* digits written so far
  rDiv,      \* tostring256
  resDiv, resMod, copyd, adder    \* divmod256

division == << resDiv, resMod, copyd, adder >>
vars == << tx, pc, job, mem, limbs, digits, rDiv, division >>

DOT == 46

AmountAt  == 0
FeeAt     == AmountAt + AmountSize
NonceAt   == FeeAt + FeeSize
NetworkAt == NonceAt + NonceSize
DataAt    == NetworkAt + NetworkSize
Strings   == 0..(DataAt + DataSize - 1)

-----------------------------------------------------------------------------
\* adjustDecimals.

\* startOffset
FractionStart(length) ==
  IF length <= Decimals THEN 2 + (Decimals - length)
  ELSE length - Decimals + (IF Decimals # 0 THEN 1 ELSE 0)

\* A seeded fault: small numbers are not filled up with zeros.
PointedUnfilled(src) ==
  IF Len(src) <= Decimals THEN << ZERO, DOT >> \o src
  ELSE SubSeq(src, 1, Len(src) - Decimals) \o << DOT >>
         \o SubSeq(src, Len(src) - Decimals + 1, Len(src))

\* The digits with the point where it belongs.
Pointed(src) ==
  IF Len(src) <= Decimals
  THEN << ZERO, DOT >> \o [i \in 1..(Decimals - Len(src)) |-> ZERO] \o src
  ELSE SubSeq(src, 1, Len(src) - Decimals)
         \o (IF Decimals # 0 THEN << DOT >> ELSE << >>)
         \o SubSeq(src, Len(src) - Decimals + 1, Len(src))

\* A seeded fault: room for a point and two terminators is asked for.
FitsWithSpare(src, targetLength) ==
  IF Len(src) <= Decimals THEN targetLength >= Decimals + 3
  ELSE targetLength >= Len(src) + 3

Fits(src, targetLength) ==
  IF src = << ZERO >> THEN targetLength >= 2
  ELSE IF Len(src) <= Decimals THEN targetLength >= Decimals + 3
  ELSE targetLength >= Len(src) + 2

\* What is left once zeros at the end, and then a point, are cut off.
Adjusted(src) ==
  IF src = << ZERO >> THEN src
  ELSE LET text == Pointed(src)
           cut  == Min({ k \in FractionStart(Len(src))..Len(text) :
                           \A i \in (k + 1)..Len(text) : text[i] = ZERO })
       IN IF cut < Len(text) /\ text[cut] = DOT
          THEN SubSeq(text, 1, cut - 1) ELSE SubSeq(text, 1, cut)

-----------------------------------------------------------------------------
\* render_sign_tx_amount: uint256_to_decimal, amountToString.

\* The bytes of the amount as 16-bit limbs.
Limbs(s) ==
  LET pad == INT256_LENGTH - Len(s)
      byte(i) == IF i <= pad THEN 0 ELSE s[i - pad]
  IN [k \in 1..(INT256_LENGTH \div 2) |-> byte(2 * k - 1) * 2^ByteBits + byte(2 * k)]

\* The remainder carried out of each limb in one pass.
Carries ==
  LET carry[k \in 0..Len(limbs)] ==
        IF k = 0 THEN 0 ELSE (carry[k - 1] * 2^(2 * ByteBits) + limbs[k]) % 10
  IN carry

AllZeroes == \A k \in DOMAIN limbs : limbs[k] = 0

AmountDigit ==
  /\ pc = "amount" /\ ~AllZeroes
  /\ IF Len(digits) = TmpSize
     THEN pc' = "refused" /\ UNCHANGED << limbs, digits >>
     ELSE /\ digits' = << ZERO + Carries[Len(limbs)] >> \o digits
          /\ limbs' = [k \in DOMAIN limbs |->
                         (Carries[k - 1] * 2^(2 * ByteBits) + limbs[k]) \div 10]
          /\ UNCHANGED pc
  /\ UNCHANGED << tx, job, mem, rDiv, division >>

AmountText ==
  /\ pc = "amount" /\ AllZeroes
  /\ LET src == IF digits = << >> THEN << ZERO >> ELSE digits
         tickered == Store(mem, AmountAt, Ticker)
     IN IF Fits(src, AmountSize - Len(Ticker) - 1)
        THEN /\ mem' = Store(Store(tickered, Len(Ticker), Terminated(Adjusted(src))),
                             AmountSize - 1, << NUL >>)
             /\ pc' = "fee"
        ELSE mem' = tickered /\ pc' = "refused"
  /\ UNCHANGED << tx, job, limbs, digits, rDiv, division >>

-----------------------------------------------------------------------------
\* tostring256 and divmod256.

Ten == Small(10)

StartString(number, name) ==
  /\ job' = name
  /\ rDiv' = number
  /\ digits' = << >>
  /\ pc' = "digit"
  /\ UNCHANGED << tx, limbs, division >>

OutLength == IF job = "fee" THEN TmpSize ELSE NonceSize

OutFull(n) == n > OutLength - 1

\* The head of divmod256: the divisor is aligned with the dividend.
Align ==
  /\ pc = "digit" /\ ~OutFull(Len(digits))
  /\ resDiv' = Zero256
  /\ resMod' = rDiv
  /\ LET diffBits == Bits256(rDiv) - Bits256(Ten)
         shifted  == Shiftl256(Ten, diffBits)
         back     == IF Gt256(shifted, rDiv) THEN 1 ELSE 0
     IN IF Gt256(Ten, rDiv)
        THEN pc' = "store" /\ UNCHANGED << copyd, adder >>
        ELSE /\ copyd' = Shiftr256(shifted, back)
             /\ adder' = Shiftr256(Shiftl256(Small(1), diffBits), back)
             /\ pc' = "divide"
  /\ UNCHANGED << tx, job, mem, limbs, digits, rDiv >>

\* A seeded fault: the aligned divisor stays where it is.
NotMoved == UNCHANGED << copyd, adder >>

MoveDown == copyd' = Shiftr256(copyd, 1) /\ adder' = Shiftr256(adder, 1)

Divide ==
  /\ pc = "divide"
  /\ IF ~Gte256(resMod, Ten)
     THEN pc' = "store" /\ UNCHANGED division
     ELSE /\ IF Gte256(resMod, copyd)
             THEN resMod' = Minus256(resMod, copyd) /\ resDiv' = Or256(resDiv, adder)
             ELSE UNCHANGED << resMod, resDiv >>
          /\ MoveDown
          /\ UNCHANGED pc
  /\ UNCHANGED << tx, job, mem, limbs, digits, rDiv >>

\* The last digit comes first: reverseString is part of the two uses.
StoreDigit ==
  /\ pc = "store"
  /\ digits' = Append(digits, ZERO + resMod[2][2])
  /\ rDiv' = resDiv
  /\ pc' = IF resDiv = Zero256 THEN "text" ELSE "digit"
  /\ UNCHANGED << tx, job, mem, limbs, division >>

-----------------------------------------------------------------------------
\* computeFees, modulo 2^256 as all of uint256.c.
Fee ==
  Add256(Mul256(FromBytes(tx.gasprice), FromBytes(tx.gaslimit)),
         Mul256(FromBytes(tx.storagelimit), Words(Multiplier)))

RenderFee == pc = "fee" /\ StartString(Fee, "fee") /\ UNCHANGED mem

\* feesToString: the field is cleared, the text copied without a bound.
FeeText ==
  /\ pc = "text" /\ job = "fee"
  /\ mem' = Store(Store(mem, FeeAt, Cleared(FeeSize)), FeeAt,
                  Terminated(Ticker \o Adjusted(Reverse(digits))))
  /\ StartString(FromBytes(tx.nonce), "nonce")

\* render_sign_tx_nonce: tostring256 writes into the field.
NonceText ==
  /\ pc = "text" /\ job = "nonce"
  /\ mem' = Store(mem, NonceAt, Terminated(Reverse(digits)))
  /\ pc' = "network"
  /\ UNCHANGED << tx, job, limbs, digits, rDiv, division >>

\* tostring256 gives up, and its result is ignored.
NonceTooLong ==
  /\ pc = "digit" /\ job = "nonce" /\ OutFull(Len(digits))
  /\ mem' = Store(mem, NonceAt, digits)
  /\ pc' = "network"
  /\ UNCHANGED << tx, job, limbs, digits, rDiv, division >>

-----------------------------------------------------------------------------
\* render_sign_tx_network.

\* u64_from_BE reads at most eight bytes, the first ones.
FirstBytes(s) == SubSeq(s, 1, Min({ Len(s), WordBytes }))

ChainId == Number(FirstBytes(tx.chainid), 2^ByteBits)

\* A seeded fault: the names are exchanged.
NamesExchanged ==
  CASE ChainId = MAINNET -> << 116 >>
    [] ChainId = TESTNET -> << 109 >>
    [] OTHER -> Decimal(ChainId)

NetworkName ==
  CASE ChainId = MAINNET -> << 109 >>      \* "mainnet"
    [] ChainId = TESTNET -> << 116 >>      \* "testnet"
    [] OTHER -> Decimal(ChainId)

RenderNetwork ==
  /\ pc = "network"
  /\ IF Len(NetworkName) < NetworkSize
     THEN mem' = Store(mem, NetworkAt, Terminated(NetworkName)) /\ pc' = "data"
     ELSE /\ mem' = Store(mem, NetworkAt,
                          SubSeq(Reverse(NetworkName), 1, NetworkSize - 1))
          /\ pc' = "refused"
  /\ job' = "network"
  /\ UNCHANGED << tx, limbs, digits, rDiv, division >>

-----------------------------------------------------------------------------
\* render_sign_tx_data.

Ellipsis == << DOT, DOT, DOT >>

\* The length of the data is counted in one byte.
DataLength == Len(tx.data) % 2^ByteBits

\* A seeded fault: the data is not cut to a selector.
ShownAll == DataLength

Shown == Min({ SelectorLength, DataLength })

\* A seeded fault: no dots where one byte is left out.
NoDotsForOne == IF DataLength > SelectorLength + 1 THEN Ellipsis ELSE << >>

Dots == IF DataLength > SelectorLength THEN Ellipsis ELSE << >>

RenderData ==
  /\ pc = "data"
  /\ mem' = Store(Store(mem, DataAt, Cleared(DataSize)), DataAt,
                  HexPrefix
                    \o Hex(SubSeq(tx.data, 1, Shown))
                    \o Dots)
  /\ job' = "data" /\ pc' = "done"
  /\ UNCHANGED << tx, limbs, digits, rDiv, division >>

-----------------------------------------------------------------------------
\* The strings hold what an earlier review left.
Init ==
  /\ tx \in Txs
  /\ pc = "amount" /\ job = "amount"
  /\ mem = [i \in Strings |-> 88]
  /\ limbs = Limbs(tx.value)
  /\ digits = << >>
  /\ rDiv = Zero256 /\ resDiv = Zero256 /\ resMod = Zero256
  /\ copyd = Zero256 /\ adder = Zero256

Next ==
  \/ AmountDigit \/ AmountText
  \/ RenderFee \/ Align \/ Divide \/ StoreDigit
  \/ FeeText \/ NonceText \/ NonceTooLong
  \/ RenderNetwork \/ RenderData

Spec == Init /\ [][Next]_vars

\* The rendering runs on by itself.
FairSpec == Spec /\ WF_vars(Next)
============================================================================
