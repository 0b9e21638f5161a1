--------------------------- MODULE SignatureReply ---------------------------
(***************************************************************************)
(* A signature between the operating system, which writes it in DER, and   *)
(* the host, which gets v, r and s one behind the other:                   *)
(* crypto_sign_message and helper_send_response_sig.  r and s are numbers  *)
(* of ScalarLength bytes, 32 in the code.                                  *)
(***************************************************************************)
EXTENDS Texts

CONSTANTS ScalarLength, MAX_DER_SIG_LEN

ASSUME DerAssumption ==
  /\ ScalarLength \in Nat \ {0} /\ MAX_DER_SIG_LEN \in Nat
  /\ 2 * ScalarLength + 8 <= MAX_DER_SIG_LEN

Byte    == 0..255
Scalars == [1..ScalarLength -> Byte]

\* ctx->signature of a context that was wiped
NoSignature == [i \in 0..(MAX_DER_SIG_LEN - 1) |-> 0]

-----------------------------------------------------------------------------
\* The operating system: a number has no needless zero ahead of it, and one
\* zero ahead of a byte that would be a sign.
DerNumber(x) ==
  LET first  == Min({ i \in 1..ScalarLength : x[i] # 0 })
      digits == SubSeq(x, first, ScalarLength)
  IN (IF x[first] > 127 THEN << 0 >> ELSE << >>) \o digits

Der(r, s) ==
  << 48, Len(DerNumber(r)) + Len(DerNumber(s)) + 4, 2, Len(DerNumber(r)) >>
    \o DerNumber(r) \o << 2, Len(DerNumber(s)) >> \o DerNumber(s)

\* cx_ecdsa_sign writes into the context.
Signed(r, s) == Store(NoSignature, 0, Der(r, s))

-----------------------------------------------------------------------------
BytesAt(m, at, n) == [i \in 1..n |-> m[at + i - 1]]

\* A seeded fault: the zero ahead of a number is not skipped.
NeverSkipped(signature, xoffset) == xoffset

\* A number of one byte more than usual begins with a zero.
SkipZero(signature, xoffset) ==
  IF signature[xoffset - 1] = ScalarLength + 1 THEN xoffset + 1 ELSE xoffset

\* helper_send_response_sig
ResponseSig(signature, v) ==
  LET r == SkipZero(signature, 4)
      s == SkipZero(signature, r + ScalarLength + 2)
  IN << v >> \o BytesAt(signature, r, ScalarLength)
             \o BytesAt(signature, s, ScalarLength)
============================================================================
