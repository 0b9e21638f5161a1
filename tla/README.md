# A TLA+ model of the Conflux Ledger application

This directory holds TLA+ modules for the Conflux application of the Ledger
hardware wallets (`src/`), the TLC configurations that check them on small
instances, and proofs that TLAPS checks for every value of their constants.
The application answers four commands (application info, public key, sign a
transaction, sign a personal message), shows what it is asked to sign on a
screen with two buttons, and signs what the user approves.

Paths below are relative to the repository, which is at `src/`; the C code is
in `src/src/`.

## 1. The system

| component | code | state | operations |
|---|---|---|---|
| command loop, exceptions | `main.c` | `G_context` (`app_state`, a union of three contexts), the exception in flight | `main`, `app_main`, its `CATCH_OTHER`, `init_storage`, `reset_app_context` |
| reply state machine | `io.c` | `G_io_state` (READY, RECEIVED, WAITING), `G_output_len`, `G_io_apdu_buffer` | `io_recv_command`, `io_send_response`, `io_event` |
| frame and dispatcher | `apdu/parser.c`, `apdu/dispatcher.c` | none | header checks, choice of the handler |
| command handlers | `handler/*.c` | the context of the session | first and later chunks of a transaction or message, public key, app info |
| screens and callbacks | `ui/*.c` | the flow and step in `G_ux`, `g_validate_callback`, the `strings` union | flows, menus, `validate_pubkey`, `validate_transaction`, `sign_personal` |
| settings | `main.c`, `ui/actions.c` | `N_storage` (non-volatile) | first start, two toggles |
| transaction parser | `eth/rlp_parser.c` | `parser_context`, `transaction` | `init_parser`, `process_tx_chunk` |
| RLP headers | `eth/ethUtils.c` | none | `rlpCanDecode`, `rlpDecodeLength` |
| payload buffer | `common/buffer.c`, `common/bip32.c` | a `buffer_t` (pointer, size, offset) | reads of bytes, words, paths; seeks |
| rendering | `ui/render.c`, `eth/uint256.c`, `eth/utils.c`, `eth/ethUtils.c`, `common/format.c` | the `strings` union | decimal numbers, fees, network names, data, paths, hashes |
| CIP-37 addresses | `libcfxaddr/cfxaddr.c`, `ui/address.c` | none | prefix of the network, groups of five bits, checksum |
| keys and signatures | `crypto.c`, `helper/send_response.c` | `signature` and `v` in the context | calls of the operating system; the replies with a key or a signature |

**How they interact.** There is one thread. `app_main` loops over
`io_recv_command`, `apdu_parser`, `apdu_dispatcher`. A handler either replies
at once (`io_send_response` fills the buffer; the next `io_exchange` transmits
it), throws a status word that `CATCH_OTHER` turns into a reply, or puts a
review on the screen and returns without a reply. In the last case the next
`io_recv_command` calls `io_exchange` with `IO_ASYNCH_REPLY`, and the button
callbacks run *inside* that call: they reply by a second, nested
`io_exchange`, or throw out of the first one. Handlers, callbacks, parser and
screens share `G_context`, the `strings` union and the settings.

**What is hard.** The concurrency is that of callbacks and commands inside
one blocking call: a command may arrive while a review is up, a review may be
decided while no command is unanswered, a callback may throw from the middle of
an exchange, USB may be reset and power lost while the program is blocked. The
order of `app_state = IDLE`, the wipe of the context and the reply differs
between the paths. The parser is resumable: a chunk may end inside a header, a
field, or ahead of fields that are optional. The readers of a payload ignore
failed seeks. The texts of a transaction lie one behind the other in one
structure, and two of the functions that fill them do not stop at the end of
their field; the integers behind them have 256 bits in four words, with carries
that small numbers never cause.

**What makes each component correct.**

* reply state machine: each command gets one reply, its own; the program never
  blocks without either a reply on the wire or a question on the screen;
* session and screens: what is shown, the callback behind the approval button,
  the digest and the context belong to one session; a signature covers what was
  shown; every display step precedes the decision; blind signing is gated;
* exceptions: after an error nothing of a session is left; after an
  acknowledged chunk everything the next chunk needs is there;
* parser: however a stream is cut, each byte is hashed once and in order, copies
  stay in their arrays, and the fields are those that were sent;
* payload: offsets stay inside the payload, and a well-formed request is read
  field by field;
* rendering: each number on the screen is the number that is signed, to the last
  digit, whatever the texts around it; nothing is written outside the strings;
* keys: the path, the address and the hash on the screen are those of the request;
  the host gets the key whose address was shown, and the signature that was made.

`PROJECT.json` lists the components with their status, and under `hazards`
every place in this code where such a thing can go wrong and a test would
hardly notice.

## 2. The modules

| module | models | extends |
|---|---|---|
| `UxFlows` | flows, steps and the two buttons (`ui/flows.c`, `ui/steps.c`) | |
| `TxPhases` | what a handler must know of the parser: the summary of one call | |
| `ConfluxApp` | the whole application as one process | `UxFlows`, `TxPhases` |
| `ConfluxAppProps` | its properties and inductive strengthenings | `ConfluxApp` |
| `SigningSession` | abstract: what the application promises about signatures | |
| `ConfluxAppSession` | the refinement mapping | `ConfluxAppProps`, instantiates `SigningSession` |
| `ConfluxAppProofs` | the proofs of its properties, for any host and for a host that waits, and of the refinement | `ConfluxAppSession` |
| `RlpParser` | `process_tx_chunk`, byte by byte | `TxPhases` |
| `RlpParserProps`, `MCRlpParser` | its properties; streams for TLC | `RlpParser` |
| `RlpParserProofs` | its proofs | `RlpParserProps` |
| `CommandPayload` | frame check, payload buffer, arguments of first commands | |
| `CommandPayloadProps`, `MCCommandPayload` | its properties; frames for TLC | `CommandPayload` |
| `CommandPayloadProofs` | its proofs | `CommandPayloadProps` |
| `Texts` | texts in memory: stores, terminators, decimal and hexadecimal digits | |
| `TextsProofs` | what these functions compute: lemmas for the proofs below | `Texts` |
| `UInt256` | the 256-bit operations of `eth/uint256.c` | `Texts` |
| `UInt256Proofs` | what they compute, for every width | `UInt256`, `TextsProofs` |
| `TxDisplay` | `render_sign_tx` from the amount to the data | `UInt256` |
| `TxDisplayProps`, `MCTxDisplay` | its properties; transactions for TLC | `TxDisplay` |
| `TxDisplayProofs` | its proofs | `TxDisplayProps`, `UInt256Proofs` |
| `CfxAddress` | `cfxaddr_encode` and its checksum | `Texts` |
| `CfxDecoder` | what a wallet reads of an address, written from the format | `CfxAddress` |
| `CfxAddressProofs` | what is written and how it is read, for every width of words | `CfxDecoder`, `TextsProofs` |
| `SignatureReply` | a signature in DER, and `helper_send_response_sig` | `Texts` |
| `KeyReports` | paths, addresses and hashes on the screen; replies with keys and signatures | `CfxAddress`, `SignatureReply` |
| `KeyReportsProps`, `MCKeyReports` | its properties; requests for TLC | `KeyReports`, `CfxDecoder` |
| `KeyReportsProofs` | its proofs | `KeyReportsProps`, `CfxAddressProofs` |

`TxPhases` is the seam between the two larger models. `ConfluxApp` lets one
call of `process_tx_chunk` end in any of `TxOutcomes(phase, n)`; `RlpParser`
is shown (invariant `KeepsOutcomes`, theorem `KeepsOutcomesAlways`) to end each
call in one of them. So what is proved of `ConfluxApp` holds with the real
parser.

### ConfluxApp

`pc` says where the program is: `boot` (start of `main`), `recv` (ahead of
`io_recv_command`), `wait` (blocked inside `io_exchange`), `dispatch` (a
command in the buffer), `catch` (an exception on its way to `CATCH_OTHER`).
All other variables are the program's own, except `wire` and `busy`, which are
what the host has seen since its last command. Actions and code:

| action | code |
|---|---|
| `Boot` | `main` up to the loop of `app_main`, with `init_storage` and `ui_menu_main` |
| `IoRecvCommand`, `Receive` | `io_recv_command` up to and from `io_exchange` |
| `IoSendResponse` | `io_send_response` in both states |
| `CatchOther` | `CATCH_OTHER` with `reset_app_context` |
| `CmdMalformed`, `CmdRejected` | a frame refused by `apdu_parser`; the status words of the dispatcher |
| `GetAppInfo`, `GetPublicKey`, `SignTxFirst`, `SignTxMore`, `SignPersonalFirst`, `SignPersonalMore` | the handlers, each with every throw and early return |
| `UiSignTx`, `UiSignPersonal`, `ShowReview`, `ShowBlindSignError` | `ui_sign_tx`, `ui_sign_personal` and the screens they open |
| `PressRight`, `PressLeft` | the buttons between steps |
| `OpenSettings` .. `ToggleDetailedDisplay` | menu callbacks |
| `ValidatePubkey`, `ValidateTransaction`, `SignPersonal`, `DismissBlindSignError` | callbacks of reviews |
| `UsbReset`, `PowerLoss`, `Quit` | `EXCEPTION_IO_RESET`, loss of power, `os_sched_exit` |

Data is reduced to identities: a session is the number of the command that
opened it, the hash counts what was fed to it, a digest records which session
it covers, how much of it and how often the hash had been finalised before,
and `strings` records what was rendered. Those are what the properties compare.

### SigningSession and ConfluxAppSession

`SigningSession` leaves out the loop, the exceptions, the replies and the
screens. A command may open a session, which replaces the one before. A session
may be offered to the user, who reads the offer and approves it; only then is it
signed, exactly as it was offered, and it is over. Failures, refusals and resets
drop it at any time. `ConfluxAppSession` maps the application to it: the session
is the number in the context, the offer is what `strings` was rendered from
while a review is up, the offer is read once every display step was seen, and
what is signed is the digest in the last reply. The mapping has one subtlety. The
code wipes the context *after* an error was thrown, in `CATCH_OTHER`, or when
`main` starts over; until then both the session and its review are still
there. `Doomed` counts them as gone from the throw on, and that the refinement
holds shows that nothing acts upon them in between.

### RlpParser

Each action is one turn of the loop in `processTxInternal` or in `parseRLP`.
The host may cut a stream anywhere, empty chunks included. An array of
`transaction_t` is a function whose domain is the set of indices written, so a
store outside an array shows in the domain. `stream` with the two cursors
`limit` (delivered) and `work` (read) stand for `workBuffer` and
`commandLength`. Lengths have the full width of their header; those of
`transaction_t` are cut to a byte as in the code.

### CommandPayload

`apdu` is `G_io_apdu_buffer` and keeps what earlier commands left. Each action
is one reader called by a handler; which readers are called follows from INS and
P1 of the command in `apdu`. `buffer_seek_cur` fails silently where the code
ignores it.

### UInt256 and TxDisplay

A number has four words, upper half first, as `uint256_t`; a byte has
`ByteBits` bits and a word `WordBytes` bytes. `Add256`, `Minus256` and the
shifts find their carries as the C code does. `TxDisplay` runs the loops:

| action | code |
|---|---|
| `AmountDigit`, `AmountText` | a turn of `uint256_to_decimal`; `amountToString` with `adjustDecimals` |
| `RenderFee`, `FeeText` | `computeFees`; `feesToString` |
| `Align`, `Divide`, `StoreDigit` | the head and a turn of `divmod256`; a turn of `tostring256` |
| `NonceText`, `NonceTooLong` | `render_sign_tx_nonce`, where `tostring256` succeeds or gives up |
| `RenderNetwork`, `RenderData` | `render_sign_tx_network`, `render_sign_tx_data` |

`mem` is `sign_tx_strings_t` from `full_amount` on, as a function from addresses
to characters, so a text that runs over its field lands in the next one and a
store behind the last would add an address.

### CfxAddress, SignatureReply and KeyReports

`KeyReports` follows a request that the handlers have read to the texts on the
screen and to the bytes of its answer. One request is served at a time, as
`ConfluxApp` has the interleavings; what passes from one to the next is the
memory of the union `strings_t`, so a text may be followed by the remains of
another.

| action | code |
|---|---|
| `ReplyAtOnce` | `handler_get_public_key` without display |
| `Review`, `RenderFails` | `ui_get_pubkey`, `ui_sign_tx`, `ui_sign_personal` with `render_*`, where these succeed or throw; `announced` is the text of the length that `handler_sign_personal` hashes |
| `ApprovePubkey` | `ui_action_validate_pubkey` with `helper_send_response_pubkey` |
| `ApproveSigning`, `SigningFails` | `validate_transaction` and `sign_personal` with `crypto_sign_message` and `helper_send_response_sig` |
| `Reject` | the refusal |

`PathText` is `bip32_path_format` with what `snprintf` cuts. `Encode` is
`cfxaddr_encode`: `Polymod` shifts eight digits of five bits as the C code
shifts a word of 40, `Scale` and `NetworkDigits` print the id with products that
may wrap around, `Payload` regroups the bytes. `Der` and `Signed` are what the
operating system writes into the context, `ResponseSig` what the code makes of
it. The curve and the hash are constants, of which nothing is assumed but the
sizes. `CfxDecoder` is the other side of `Encode` and shares only its alphabet
and the table of exclusive or: it takes a text apart at the colon, reads the
network of the prefix and the bits of the characters, and divides in GF(32)
where the code shifts a register. The texts of a transaction from the amount on belong to `TxDisplay`;
here a stand-in (`Amount`) occupies their place.

## 3. What is checked

| run | states | shows |
|---|---|---|
| `app_interrupt` | 469 461 | session, screen, digest, settings stay consistent for a host that may interrupt; `SigningSession` is implemented |
| `app_polite` | 344 079 | replies, digests and acknowledgements, for a host that waits; liveness: every command is answered or becomes a question |
| `rlp_parser` | 56 923 | the parser for 54 streams and every way to cut them |
| `command_payload` | 636 798 | reading of requests, of each prefix of them and of wrong frames, in any order |
| `tx_display` | 11 884 | the texts of 248 transactions, read back from the memory they share; termination |
| `key_reports` | 10 681 | 58 requests, two one after the other: paths, addresses, hashes, keys and signatures |

Bounds, and why they are enough:

* `MaxCmds = 3` in `app_interrupt` and `app_polite`: a session needs one
  command to open it, one to continue it and one to interrupt it or to be
  answered wrongly; USB resets, power losses and buttons are not bounded.
* `MaxMsg = 2`: a message of two bytes arrives in one or two chunks, too short
  and too long ones included; 0 gives empty chunks and empty messages.
* Array sizes of the parser are 2, so fields of length 0 to 3 are
  empty, in one piece, in two pieces and too long. `MaxChunk` is 8 in the main
  run: every stream is cut at every pair of places that close together; the
  state after a cut does not depend on how long the chunk ahead of it was.
  `hashed` and the cells record everything that earlier chunks did.
* `MAX_BIP32_PATH = 2` and a buffer of 32 bytes: the last component of a path
  may be cut at each of its bytes, and the bytes behind it belong to an earlier,
  longer command.
* Words of seven bits (`ByteBits = 7`, `WordBytes = 1`), so numbers of 28 bits,
  which TLC can compare with integers. The numbers rendered are those around
  powers of two and ten where a carry, a borrow, a shift across the halves or a
  new digit occurs, and products that exceed 28 bits. The sizes of the strings
  are in proportion: a fee of all digits overruns `max_fee` into the nonce and the
  network, as it does in C (84 bytes from `max_fee` on, where the strings have
  88); amounts, nonces and chain ids may be too long for their fields, and the
  data longer than one byte can count, up to more than a selector. The chain ids
  are those with a name, alone and as the first word of a longer id, and others;
  one character stands for each name, which the field of three cells has room for.
  A word is one byte here, so the order of the bytes within a word
  (`readUint64BE`) makes no difference in this run.
* Words of 16 bits in `key_reports`. The sizes of the two fields that depend on
  the width are chosen so that the same cases are at the edge: five of the
  longest components and a terminator just fill `PathSize` = 35, as they do the 60
  characters in C; the prefix "net65535:" makes the longest address, which just
  fills `AddressSize` = 52, as "net4294967295:" does 57 characters in C; `LenStrSize` 6 is what an unsigned word needs, as
  11 in C. The paths have texts shorter than the field, as long as it, and longer
  by one character or several, ending in a number, in "'" or in "/"; the network ids
  are those around powers of ten, around 1 and 1029, and at the end of a word. The
  numbers of a signature have their real size, 32 bytes, the DER form up to 72, a
  hash its 67 characters. Two requests show what the first leaves in memory.

`CHECK_DEADLOCK FALSE` is set where the system stops: the parser after a
fault, as its caller drops the context, and when the stream has been delivered;
the rendering when it is done; the key reports after the last request.

**Properties of the application** (`ConfluxAppProps`). For any host:
`RecvNeverWaiting`, `IdleMeansWiped`, `ReviewMatchesContext`, `BlindSignGate`,
`ReviewedBeforeDecision`, `SignedIsShown`, `ErrorReplyWipes`, the action
property `SettingsOnlyFromMenu` and the refinement `Implements`
(`ConfluxAppSession`). For a host that waits for each reply:
`ReplyBelongsToCommand`, `HashFinalizedOnce`, `AckKeepsSession`,
`OnlyUserKeepsHostWaiting` and the liveness property `Answered`. The second
group does fail for a host that does not wait; the protocol does not allow such
a host, but the transport cannot prevent it, so the first group is checked and
proved without the restriction.

**Properties of the parser**: `HashIsPrefix`, `CopiesFit`, `KeepsOutcomes`,
`Returns` for every stream; `FieldsDecoded` and `PlainTransfersPass` against
`Transactions`, the transactions hosts mean by their streams. `Encodes` relates a
stream and a transaction as RLP does: a list header and nine strings, each behind
a header that announces its length, in the short form or in the long one, with
leading zeros or without; what follows the data is left open. `MCRlpParser` makes
the streams of the run from its transactions, so each is decoded there.

**Properties of the rendering**: `AmountExact`, `FeeExact`, `NonceExact`,
`NetworkAndDataExact` read the texts back when all have been written, each
as far as the code promises: a fee or nonce that fits its field; the network by
its name if it has one, else by the number of the chain id, or of its first word
if it is longer; data of less than 256 bytes. Of longer data the text shows what
the length modulo 256 leaves, without dots if that is no more than a selector:
`NetworkAndDataExact` says so, and does not excuse it. `DivisionExact` is the loop invariant of
`divmod256`; `StringsContained` says that nothing is written outside the
strings; `RefusedOnlyIfTooLong` and `Renders` that the rendering ends, and how.

**Properties of the key reports**: `PathExact` reads the path back component by
component; `AddressesExact` decodes each address with the CIP-37 decoder of
`CfxDecoder`, which checks the checksum as a remainder over GF(32), and compares it with the key,
the destination and the network of the request; it also reads the reply with
the public key. `MessageExact` reads the hash and the announced length,
`FullSignaturesExact` the reply with a signature, as far as the code promises
it: no leading zero byte in r or s.

**Properties of the payload**: `OffsetInPayload`, `OverreadBounded` for every
frame; `RequestsDecoded` for every frame that encodes one of `Requests`, as
COMMANDS.md describes the payloads of first commands. The frames of
`MCCommandPayload` are these encodings, their prefixes, and wrong ones.

For each of these `PROJECT.json` names a mutant: a plausible wrong version of
one definition (marked "a seeded fault" in the modules) under which TLC finds
the property violated. They play no part in the specifications.

**Fairness.** `FairSpec` of `ConfluxApp` has weak fairness of `System`: boot,
the loop, the handlers and the catch run on as long as there is something to
run, which is what a processor does. Nothing is assumed of host, user, cable or
battery. `FairSpec` of `RlpParser` has weak fairness of `Parse`, the loop of
one call; the host owes no further chunk. `FairSpec` of `TxDisplay` has weak
fairness of `Next`: the rendering is one call that waits for nothing.

## 4. Where the code differs from what is said of it

Six runs each check one claim of a comment, a document or a test, and TLC finds
a behaviour of the code that breaks it. `PROJECT.json` quotes both sides.

| run | claim | what happens |
|---|---|---|
| `app_output_len` | `G_output_len` is the length of a response (`globals.h:20`) | nothing clears it when a command is received: after a review is interrupted, a plain exchange transmits bytes of a command |
| `rlp_nonce` | a transaction may be sent in chunks (`COMMANDS.md`) | `processNonce` stores each piece at the start of the array |
| `rlp_data` | `data_present` is false if there is no data (`rlp_parser.c:280`) | it is computed anew for every piece; data whose last piece is one zero byte counts as none |
| `rlp_v` | no more than the size of `v` is copied (`rlp_parser.c:318`) | the bound holds for each copy, not for their sum |
| `payload_short_path` | a path longer than the payload is refused (`unit-tests/test_bip32.c:84`) | the last component may end up to four bytes behind the payload |
| `short_signature` | the response to a signing command has r and s of 32 bytes (`COMMANDS.md:141`) | a DER number of fewer than 32 bytes is not padded: 32 bytes are copied from where it starts, and s is looked for in the wrong place |

The other properties are stated so that they hold with these facts:
`BlindSignGate` is about the flag `data_present` and not about the data (see
below), `FieldsDecoded` leaves the nonce aside, `CopiesFit` leaves `v` aside,
`OverreadBounded` says how far a path may overrun, `FullSignaturesExact` leaves
short numbers aside.

`rlp_data` bears on what the application promises. `README.md:11` of the app has
contract calls signed blindly when "enabled via the Settings", and
`tests/test_sign_tx_cmd.py:34` says "cannot blind sign contract call" of the
setting turned off. `BlindSignGate`, checked and proved, does not establish that:
it says that no transaction *flagged* as having data is up for approval while the
setting is off. In `ConfluxApp` the flag is any value that the parser may come
to, whatever the data. `PlainTransfersPass` shows that the flag is never up
without data; `DataNoticed`, the converse, fails, so a contract call whose data
ends in a zero byte in a chunk of its own passes the gate.

Remarks without a run. The name or number of the network is that of the first
eight bytes of the chain id, the addresses are on the network of its low 32 bits
(`render.c:97`), so for an id of 2^32 or more the two texts of one review speak
of different networks; `NetworkAndDataExact` and `AddressesExact` each say what
its text shows, and none compares them. The length of the list is kept "for sanity checks"
(`rlp_parser.c:73`) but never compared. `bip32_path_format` shows a path whose
text is too long by the last digits of an unhardened number without those digits
instead of refusing it; `PathExact` says so. The length announced for a message is
printed with `%d`, so from 2^31 on it is hashed as a negative number;
`MessageExact` stops below. `full_amount` is sized by "2^256 is 78 digits long"
(`types.h:121`), but ticker, point and terminators take their share, so an amount
of 73 digits or more is refused; `RefusedOnlyIfTooLong` says so.

## 5. What is proved

Constants are arbitrary; the proofs assume only what the modules state. TLC
evaluates each of these assumptions in the runs.

| assumption | what it says, and why the code justifies it |
|---|---|
| `BoundsAssumption`, `HostAssumption` | numbers of commands and of bytes are natural numbers; the host waits or does not |
| `StreamsAssumption`, `SizesAssumption` | streams are sequences of bytes; array sizes are from 1 to 255 |
| `TransactionsAssumption` | a transaction consists of byte strings and of headers in one of the forms of RLP that announce their lengths, up to four bytes of length |
| `FramesAssumption`, `PathAssumption` | frames fit the buffer and belong to the commands modelled; the buffer holds the longest path |
| `RequestsAssumption` (`CommandPayload`) | a request has a path that is not empty, words, and bytes |
| `WidthAssumption`, `TxsAssumption` | bytes and words have at least one bit, a byte at most eight; fields are bytes, at most 32 of them except the data, as the parser ensures (`CopiesFit`) |
| `DisplayAssumption` | the sizes of `types.h`. A word exceeds ten. A number of 256 bits fits the local buffers (78 digits in 100 characters). A number below one unit fits `full_amount` and `max_fee` with the ticker (79 and 50 characters; 18 decimals and "CFX "). The longest fee ends within the strings: 4 + 78 + 2 characters from `max_fee` on, where there are 50 + 8 + 16 + 14 |
| `WordAssumption`, `LenStrAssumption` | a word holds the id of the main network; `len_str` the digits of a positive `int` (10 in 11 characters) |
| `AddressSizeAssumption` | the longest address fits its field with the terminator: 57 characters, for 14 of "net4294967295:", 34 of the payload, 8 of the checksum and the terminator |
| `DerAssumption`, `ReportsAssumption`, `RequestsAssumption` (`KeyReports`) | the DER form of the longest signature fits its array; r and s are not 0, and v, r and s are at most 99 bytes (65 in the code); the fields have the sizes that a hash of 32 bytes needs; requests are what the handlers read, with a path that is not empty |

| theorem | module | argument |
|---|---|---|
| `TypeCorrect` | `ConfluxAppProofs` | `TypeOK` is inductive by itself |
| `NeverWaitingInRecv` | `ConfluxAppProofs` | `IoInv`: only an asynchronous exchange leaves WAITING, and each way out of it restores READY or RECEIVED |
| `IdleWiped`, `ReviewConsistent`, `BlindSignGated` | `ConfluxAppProofs` | `SessionInv` |
| `SignsWhatIsShown` | `ConfluxAppProofs` | its own induction, with `SessionInv` at the approval |
| `DecisionAfterReview` | `ConfluxAppProofs` | `SeenInv`: a review flow has been seen from its first step up to the current one |
| `ErrorsWipe` | `ConfluxAppProofs` | `ErrorInv`: an error reply in the buffer or on the wire comes with a wiped context |
| `SettingsKept` | `ConfluxAppProofs` | action by action |
| `RepliesBelong`, `OnlyUserDelays` | `ConfluxAppProofs` | `ReplyInv`, for a host that waits |
| `FinalizedOnce` | `ConfluxAppProofs` | `FinalsInv` and `ReplyInv` |
| `AckKept` | `ConfluxAppProofs` | `AckInv`, `FinalsInv` and `ReplyInv` |
| `ImplementsSession` | `ConfluxAppProofs` | initial states map to initial states, each step to a step or a stutter, with `SessionInv`, `SeenInv`, `ErrorInv` and `Numbered` |
| `ParserTypes` | `RlpParserProofs` | `Typed` = `TypeOK` and `FieldInv` |
| `CopiesFitAlways`, `HashIsPrefixAlways`, `KeepsOutcomesAlways` | `RlpParserProofs` | `Typed` with the domain of the cells, with `HashInv`, with `CallInv` |
| `FieldsDecodedAlways`, `PlainTransfersPassAlways` | `RlpParserProofs` | `DecodeInv` with `Typed` |
| `PayloadTypes`, `OffsetStays`, `OverreadByOneWord` | `CommandPayloadProofs` | `Inv` = `TypeOK`, `OffsetInPayload`, `SizeOfFrame`, `PathInv` |
| `EveryRequestDecoded` | `CommandPayloadProofs` | `StepInv` = `Inv`, `FrameInv`, `ProgressInv` |
| `TypesAlways`, `StringsContainedAlways`, `DivisionExactAlways`, `RefusedOnlyIfTooLongAlways`, `AmountExactAlways`, `FeeExactAlways`, `NonceExactAlways` | `TxDisplayProofs` | `Inv`, see below |
| `NetworkAndDataExactAlways` | `TxDisplayProofs` | `Written`: what is in the memory once the network and the data are stored |
| `FullSignaturesExactAlways` | `KeyReportsProofs` | `FromSignature`, and the places of r and s in the DER form for the four cases of a sign byte |
| `MessageExactAlways` | `KeyReportsProofs` | `MessageInv`, with the lemmas on decimal and hexadecimal digits |
| `TypeOKAlways` | `KeyReportsProofs` | `TypeOK` is inductive by itself; `RenderMemory` for the texts, `EncodeIs` for the length of an address |
| `PathExactAlways` | `KeyReportsProofs` | `PathInv`, with `PathShown`, see below |
| `LongestAddress` | `CfxAddressProofs` | the digits of an id are as many as those of the power of ten that `Scale` climbs to, and that power grows with the id |
| `AddressDecodes` | `CfxAddressProofs` | prefix, payload and checksum, see below |
| `AddressesExactAlways` | `KeyReportsProofs` | `AddressInv`, with `AddressDecodes`, see below |

`SessionInv` is needed because `IdleMeansWiped` and `ReviewMatchesContext` are
not inductive: while an exception is in flight the callbacks have already set
`APP_STATE_IDLE` with the context still full, and a throw of status 0x9000
passes through the same `catch` without a reset. `SessionInv` therefore says
what holds whenever no *resetting* exception is pending (`Settled`), adds that
the bytes hashed and the bytes remaining of a message sum to the announced
length, and that a transaction under review is past the fields that can change
`data_present` (a later chunk could otherwise set it behind the gate).

`ReplyInv` joins `pc`, `G_io_state`, `G_output_len`, the buffer, the transport
and the screen: a command is either answered, with a menu on the screen, or
unanswered, and then the program is on its way to a reply for it or the screen
asks about it. No proper part of it is inductive: that `io_send_response` transmits
at once exactly when nothing is queued depends on the state on entry to each
handler and callback, and that state on whether the screen asks. With it, a
handler always starts with a menu on the screen, where `FinalsInv` has that no
hash was finalised: finalising leads to a question or an error, the question's
answers wipe the context, and no command comes in between. `AckInv` follows an
acknowledgement from the throw of `SW_OK` to its transmission.

`HashInv` counts a byte that was put back by `parseRLP` as read although the
cursor is ahead of it (`BytesRead`); without that, the hash and the cursor
disagree between the header and the field. `CallInv` follows one call from the
state it started in. In `CommandPayload` the offset is at most the size
although every seek may fail, and `PathInv` fixes the offset at which the path
is read.

`DecodeInv` says for every transaction the stream encodes, at every point, how
far the parser is: in the header of an item, with as many of its bytes in
`rlpBuffer`, or behind it, with the announced length in `fieldLength`; that
everything ahead has been stored; and that `data_present` is false if no data
was sent, except between the two pieces of a data field that is a single byte
with a header, whose flag the second piece computes anew. That a call may end
in any of these places is what makes the invariant more than a description of
the last state. In `CommandPayload`, `ProgressInv` says so of a request.

The invariant of the rendering, `Inv` of `TxDisplayProofs`, joins

* `DivisionInv`: while `divmod256` runs, the dividend is ten times the quotient
  plus the remainder, the bit that is tried is some 2^j, the aligned divisor
  10 * 2^j, and the quotient has only bits above it (`Tried`), so that `Or256`
  adds. `DivisionExact` alone is not inductive: the last clause is missing there;
* `DigitsInv`: the decimal form of the number is that of what is left, followed by
  the digits written; `AmountInv` says so of the limbs;
* `StringsInv`: which of the texts written so far lie untouched in the strings; a
  fee that is too long for its field may be cut by the nonce, but no text is cut
  by one before it;
* and the types.

`PathShown` says what becomes of a path. The offsets at which its pieces end
grow until the field is full (`OffsetsAre`), so a piece of which nothing is left
is found exactly if the field was full before it, and what is cut is the last
piece (`CutAtTheEnd`): with a hardened last component that is its "'", and
nothing of a "'" is left when it has no room, so such a path is refused; otherwise
it is the number, of which some digits may be missing. The pieces of the other
components are read back by `Parts`, one separator after the other
(`BodyReads`). The text is terminated by a cell that was cleared before, which
`PathStored` follows through the store of the address behind it.

`AddressDecodes` is about one text and consists of three parts.

* The prefix. `Scale` climbs while the next power of ten is not above the id; a
  product that wraps around is noticed, as divided by ten it does not give back
  what was multiplied (`Further`). So it ends with the power of the first digit,
  and `NetworkDigits`, which divides by smaller and smaller powers, writes the
  digits of `Decimal`.
* The payload. A quintet consists of five bits of two bytes that lie side by side
  (`PayloadBits`); eight bits read again make up a byte (`PayloadBytes`), and
  the two that remain are zeros.
* The checksum. The exclusive or of quintets is that of vectors of five bits
  (`Sum2Is`), so it is associative and commutative, and the
  product of GF(32) distributes over it. The five constants that `polymod` mixes
  in are the generator times 1, 2, 4, 8 and 16 in that field
  (`GeneratorsDouble`), so that each feedback is the product of the digit shifted out and the generator
  (`FeedbackMultiplies`). Hence the register is the remainder of the division
  that a wallet carries out. The code computes the checksum with zeros in its
  place; digits written there come in one at a time and each is added where it
  comes in (`DigitsComeIn`), so they cancel what the zeros left, and the 1 that
  `polymod` adds remains (`ChecksumLeavesOne`).

`AddressInv` then has that the addresses of the request under review are read
from the strings, that a reply with a public key was made of a request whose
address, if it was shown, still lies there, and that none was refused for its
length. `AddressesExact` alone does not say where the reply came from. The
stores behind an address do not reach it, since each fits its field
(`EncodedLength`). The network of a transaction is the lower half of what
`u64_from_BE` reads; `ChainIdIs` shows that it is a word.

The lemmas of `TxDisplayProofs` are about the operators: that `Add256`, `Minus256`, the shifts, the
comparisons and `Or256` compute with their carries what they do on integers
modulo `Modulus`. A uint128_t is a pair of words, a uint256_t a pair of
uint128_t, so each lemma is proved once for pairs of digits to any base and
used at both levels. Powers of two are counted as sets of subsets, as the
provers know no law of exponents; `TenTo` is a power of ten written with digits
for the same reason (TLC compares the two).

Functions like `Number` and `Decimal` are recursive, so a value has to be shown to
exist, to be unique and to be what it should. The induction theorems of the
library take an operator as a parameter, which the provers cannot instantiate;
`TextsProofs` has induction over a *set* of numbers instead (`StrongInduction`,
from the theorem on well-founded minima), and uses it with the set of
arguments of which a statement is true.

Each preservation proof has one lemma per action or group of actions that
change the same variables.

**Only model-checked:** `Answered`, `Renders` and `Returns`, as liveness under
fairness is beyond the proof system used. Every invariant and every other action
property of the passing runs is proved.

## 6. What is not modelled

* The operating system: its own reply before any command (a nested exchange
  with nothing to answer is recorded with `to = 0`), its reserved commands,
  pin, lock screen, and the bytes of the transport. Its calls succeed, fail or
  throw where the code looks at the result.
* Branches that no state reaches: the length check of `io_send_response`
  (`SW_WRONG_RESPONSE_LENGTH`; the longest response has 99 bytes), the checks of
  `app_state` in the `ui_*` functions (the handlers have just set it), the
  underflow checks and the "Invalid RLP decoder context" of the parser.
* Buttons and USB resets inside the exchange that transmits the status word of
  `CATCH_OTHER` (`main.c:122`) or of a refusing callback, and ahead of the
  `reset_app_context` that follows it: with `IO_RETURN_AFTER_TX` the exchange
  waits for nothing but the end of the transmission, and it is one step with
  the reset.
* The swap of the bytes of each limb in place (`utils.c:97`): `Limbs` is the
  array behind it. That the digits are filled from the end and moved to the
  front is left out likewise.
* A torn write of the settings: `nvm_write` is atomic on the device.
* Lengths of 2^31 and more in an RLP header (no stream of the runs contains
  one), and the 32-bit shift that assembles them.
* A path that is partly written to the context when it is refused: the status
  word that follows wipes the context.
* The derivation of keys, the curve and the hashes, which are calls of the
  operating system; the wiping of private keys on the stack. The fixed words
  that are hashed ahead of a message's length. Varints and the writers of `common/write.c` beside
  the status word are unused by the application.
* An abstract decoder that `RlpParser` implements: `FieldsDecoded` relates the
  stored fields to the transaction that the stream encodes, under every cut of the
  stream, which is what such a decoder would say.
* Of `uint256.c` what the rendering does not call: `mul128`, `divmod128`,
  `tostring128`. `cx_math_mult`, behind `mul256`, is taken as multiplication.
* The amount's local buffer has a size parameter, but no number of the model's
  width fills it (nor does one of 256 bits: 78 digits in 100 bytes).

## 7. Plan

Written so far, most important first: the application as one process; the
parser; the payload; their proofs; the rendering of numbers; the abstract
session and the refinement; the reports about keys; the proofs for a host that
waits; that fields, requests, numbers, data and hashes are those that were sent;
that the texts stay within their union, and paths and addresses read back as
what they stand for.
What would come next are parts that are modelled in part only: the lengths of
2^31 and more in an RLP header, the full width of words in the runs, and the
128-bit operations that the rendering does not call.

## 8. Running

    tlc -config AppInterrupt.cfg ConfluxAppSession
    tlc -config AppPolite.cfg ConfluxAppProps
    tlc -config RlpParser.cfg MCRlpParser
    tlc -config CommandPayload.cfg MCCommandPayload
    tlc -config TxDisplay.cfg MCTxDisplay
    tlc -config KeyReports.cfg MCKeyReports
    tlapm ConfluxAppProofs.tla       # likewise the other seven proof modules

The configurations of section 4 (`AppOutputLen`, `RlpNonce`, `RlpData`, `RlpV`,
`PayloadShortPath`, `ShortSignature`) end with a counterexample.
