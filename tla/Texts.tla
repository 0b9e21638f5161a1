-------------------------------- MODULE Texts --------------------------------
(***************************************************************************)
(* Texts in memory, as the code that renders the reviews makes and reads   *)
(* them.  Characters are ASCII codes.  A memory is a function from its     *)
(* cells; a store behind the last cell would add cells.                    *)
(***************************************************************************)
EXTENDS Integers, Sequences, FiniteSetsExt

NUL   == 0
ZERO  == 48
MINUS == 45

\* The number that digits to a base write, first digit first.
Number(digits, base) ==
  LET upTo[n \in 0..Len(digits)] ==
        IF n = 0 THEN 0 ELSE base * upTo[n - 1] + digits[n]
  IN upTo[Len(digits)]

\* A one and n zeros: 10^n.
TenTo(n) == Number([i \in 1..(n + 1) |-> IF i = 1 THEN 1 ELSE 0], 10)

Store(m, at, s) ==
  LET written == at..(at + Len(s) - 1)
  IN [i \in DOMAIN m \cup written |-> IF i \in written THEN s[i - at + 1] ELSE m[i]]

Terminated(s) == Append(s, NUL)

Cleared(size) == [i \in 1..size |-> NUL]

\* u64_to_string, and snprintf with %d
Decimal(n) ==
  LET write[k \in 0..n] ==
        (IF k < 10 THEN << >> ELSE write[k \div 10]) \o << ZERO + (k % 10) >>
  IN write[n]

HexPrefix == << 48, 120 >>        \* "0x"

HexDigit(n) == IF n < 10 THEN ZERO + n ELSE 87 + n

\* format_hex
Hex(s) == [i \in 1..(2 * Len(s)) |->
             LET b == s[(i + 1) \div 2]
             IN HexDigit(IF i % 2 = 1 THEN b \div 16 ELSE b % 16)]

-----------------------------------------------------------------------------
\* For the properties.

\* The text at a place: what a C string function reads from there.
TextAt(m, at) ==
  LET stop == Min({ i \in DOMAIN m : i >= at /\ m[i] = NUL })
  IN [i \in 1..(stop - at) |-> m[at + i - 1]]

IsNumber(text) == text # << >> /\ \A i \in DOMAIN text : text[i] \in ZERO..(ZERO + 9)
IsNumeral(text) == IsNumber(text) /\ (text[1] = ZERO => Len(text) = 1)

ReadNumber(text) == Number([i \in DOMAIN text |-> text[i] - ZERO], 10)
============================================================================
