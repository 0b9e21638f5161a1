-------------------------- MODULE ConfluxAppProps --------------------------
(***************************************************************************)
(* What the application promises: to the host (replies), to the user (what *)
(* is on the screen is what is signed) and to itself (G_context and        *)
(* G_io_state).  The first group holds whatever the host does, the second  *)
(* for a host that waits for each reply, the third is a claim of a comment *)
(* that the code does not keep.                                            *)
(***************************************************************************)
EXTENDS ConfluxApp

AppStates == { "IDLE", "GETTING_PUBKEY", "SIGNING_TX", "SIGNING_PERSONAL" }
Signing   == { "SIGNING_TX", "SIGNING_PERSONAL" }
Screens   == [flow : Flows, step : Nat, seen : SUBSET Nat, by : CmdIds]

\* The variables keep their types; in particular remaining_length, an
\* unsigned counter, never passes below zero.
TypeOK ==
  /\ pc \in { "boot", "recv", "wait", "dispatch", "catch" }
  /\ call \in { "plain", "asynch" }
  /\ ioState \in { "READY", "RECEIVED", "WAITING" }
  /\ outLen \in BOOLEAN
  /\ reply \in Replies
  /\ wire \in [reply : Replies, to : CmdIds, sent : BOOLEAN]
  /\ busy \in BOOLEAN
  /\ cmdId \in CmdIds
  /\ exc \in [sw : Sw, by : CmdIds]
  /\ appState \in AppStates
  /\ ctx \in Contexts
  /\ screen \in Screens
  /\ screen.step \in 1..Len(Steps(screen.flow))
  /\ callback \in { "none", "pubkey", "tx", "msg" }
  /\ strings \in Strings
  /\ settings \in [blind : BOOLEAN, detailed : BOOLEAN, initialized : BOOLEAN]

-----------------------------------------------------------------------------
\* Whatever the host does.

\* The WAITING branch of io_recv_command, which ends app_main, is never
\* taken: every way back to the loop leaves G_io_state READY or RECEIVED.
RecvNeverWaiting == pc = "recv" => ioState # "WAITING"

\* APP_STATE_IDLE means a zeroed G_context wherever a handler may look at it:
\* the handlers skip reset_app_context in that state, init_parser does not
\* clear the transaction, and the three contexts share one union.
IdleMeansWiped == appState = "IDLE" /\ pc # "catch" => ctx = ZeroCtx

\* The flow on the screen, the callback its last steps run, the state of the
\* session, the rendered strings and the digest to sign all speak of one
\* session, however commands interrupt a review.
PubkeyReview ==
  screen.flow = "get_pubkey" =>
    /\ appState = "GETTING_PUBKEY"
    /\ callback = "pubkey"
    /\ strings.kind = "pubkey"
    /\ strings.sess = ctx.sess

TxReview ==
  screen.flow \in TxFlows =>
    /\ appState = "SIGNING_TX"
    /\ callback = "tx"
    /\ strings = [kind |-> "tx", sess |-> ctx.digest.sess, fed |-> ctx.digest.fed]
    /\ ctx.digest.sess = ctx.sess

MsgReview ==
  screen.flow \in MsgFlows =>
    /\ appState = "SIGNING_PERSONAL"
    /\ callback = "msg"
    /\ strings = [kind |-> "msg", sess |-> ctx.digest.sess, fed |-> ctx.digest.fed]
    /\ ctx.digest.sess = ctx.sess
    /\ ctx.digest.fed = ctx.digest.declared

ReviewMatchesContext == pc # "catch" => PubkeyReview /\ TxReview /\ MsgReview

\* A transaction that the parser flags as having data, or a message, is up for
\* approval only while blind signing is enabled, although the setting may change
\* between the chunks and commands interrupt reviews.  It is the flag that the
\* code looks at, data_present, not the data: data that ends in a piece of one
\* zero byte leaves the flag down and passes (DataNoticed of RlpParserProps).
BlindSignGate ==
  /\ screen.flow \in TxFlows /\ ctx.data => settings.blind
  /\ screen.flow \in MsgFlows => settings.blind

\* The user reaches "accept" and "reject" only after every step that
\* displays something of the review.
ReviewedBeforeDecision ==
  screen.flow \in ReviewFlows
    /\ Steps(screen.flow)[screen.step] \in { "accept", "reject" }
  => DisplaySteps(screen.flow) \subseteq screen.seen

\* A signature covers the session, and as much of it, as the screens showed;
\* for a message that is the whole announced length.
SignedIsShown ==
  reply.kind = "sig" =>
    /\ reply.shown.kind \in { "tx", "msg" }
    /\ reply.digest.sess = reply.shown.sess
    /\ reply.digest.fed = reply.shown.fed
    /\ reply.shown.kind = "msg" => reply.digest.fed = reply.digest.declared

\* Once the host has read an error status raised by a handler or by the
\* user's refusal, no session and no review is left behind.
ErrorReplyWipes ==
  wire.sent /\ wire.reply.kind = "sw" /\ wire.reply.sw # "OK" =>
    /\ appState = "IDLE"
    /\ ctx = ZeroCtx
    /\ screen.flow \in MenuFlows

\* The stored settings change by the user's action in the settings menu, and
\* at the first start only: no command, reset or power loss touches them.
SettingsOnlyFromMenu ==
  [][settings' # settings =>
       \/ pc = "wait" /\ screen.flow = "settings"
       \/ pc = "boot" /\ ~settings.initialized]_vars

-----------------------------------------------------------------------------
\* For a host that waits for each reply.

\* Each transmission is a reply built for the command it answers: nothing is
\* sent twice, unasked or from a buffer that holds no reply.
ReplyBelongsToCommand ==
  wire.sent =>
    /\ wire.reply.kind # "raw"
    /\ wire.to = wire.reply.by
    /\ wire.to # 0

\* A hash state is finalised once: no digest is taken from a hash that was
\* finalised before.
HashFinalizedOnce == ctx.finals <= 1 /\ ctx.digest.finals = 0

\* SW_OK without data says "send the next chunk", and the session is there
\* to take it: transaction not complete, bytes of the message missing
\* (CATCH_OTHER in app_main, after the handlers of chunks).
TakesMore ==
  /\ appState \in Signing
  /\ appState = "SIGNING_TX" => ctx.phase \in { "head", "v", "tail" }
  /\ appState = "SIGNING_PERSONAL" => ctx.remaining > 0

AckKeepsSession ==
  wire.sent /\ wire.reply.kind = "sw" /\ wire.reply.sw = "OK" => TakesMore

\* While the program is blocked, a command is unanswered exactly when the
\* screen asks the user about that command.
OnlyUserKeepsHostWaiting ==
  pc = "wait" =>
    (busy <=> /\ screen.flow \in ReviewFlows \cup {"error_blind_sign"}
              /\ screen.by = cmdId)

\* Every command is answered, or ends up on the screen as a question.
AsksUser == pc = "wait" /\ screen.flow \in ReviewFlows \cup {"error_blind_sign"}
Answered == busy ~> (~busy \/ AsksUser)

-----------------------------------------------------------------------------
\* Inductive strengthenings.

\* No exception is on its way that will reset the context.
Settled == pc # "catch" \/ exc.sw = "OK"

SessionInv ==
  /\ Settled =>
       /\ appState = "IDLE" => ctx = ZeroCtx
       /\ PubkeyReview /\ TxReview /\ MsgReview
       /\ screen.flow \in TxFlows => ctx.phase # "head"
  /\ appState = "SIGNING_PERSONAL" => ctx.fed + ctx.remaining = ctx.declared
  /\ BlindSignGate

IoInv ==
  /\ pc \in { "recv", "dispatch" } => ioState # "WAITING"
  /\ pc = "wait" /\ call = "plain" => ioState # "WAITING"

IsError(r) == r.kind = "sw" /\ r.sw # "OK"
Wiped == appState = "IDLE" /\ ctx = ZeroCtx /\ screen.flow \in MenuFlows

ErrorInv ==
  /\ pc = "dispatch" => reply = Raw /\ ~wire.sent
  /\ pc = "recv" /\ IsError(reply) => Wiped
  /\ wire.sent /\ IsError(wire.reply) => Wiped

\* For a host that waits: a command is either unanswered, with the program on
\* its way to a reply or asking the user about it, or answered, with a menu on
\* the screen.
InMenu == screen.flow \in MenuFlows
Asking ==
  /\ screen.flow \in ReviewFlows \cup {"error_blind_sign"}
  /\ screen.by = cmdId /\ cmdId # 0

ReplyInv ==
  /\ ReplyBelongsToCommand
  /\ busy => ~wire.sent
  /\ pc = "boot" => ~busy /\ ~wire.sent
  /\ pc = "dispatch" => ioState = "RECEIVED" /\ busy /\ InMenu /\ cmdId # 0
  /\ pc = "catch" =>
       /\ ioState \in { "RECEIVED", "WAITING" } /\ busy
       /\ exc.by = cmdId /\ cmdId # 0
       /\ exc.sw = "OK" => InMenu
  /\ pc = "recv" =>
       \/ ioState = "RECEIVED" /\ busy /\ Asking
       \/ ioState = "READY" /\ ~outLen /\ ~busy /\ InMenu
       \/ /\ ioState = "READY" /\ outLen /\ busy /\ InMenu
          /\ reply.kind # "raw" /\ reply.by = cmdId /\ cmdId # 0
  /\ pc = "wait" =>
       \/ call = "plain" /\ ioState = "RECEIVED" /\ ~busy /\ InMenu
       \/ call = "asynch" /\ ioState = "READY" /\ ~busy /\ InMenu
       \/ call = "asynch" /\ ioState = "WAITING" /\ busy /\ Asking

\* With a menu on the screen no hash has been finalised.
FinalsInv ==
  /\ HashFinalizedOnce
  /\ pc \in { "recv", "wait", "dispatch" } /\ InMenu => ctx.finals = 0
  /\ pc = "catch" /\ exc.sw = "OK" => ctx.finals = 0

\* From the throw of SW_OK to its transmission the session can take more.
AckInv ==
  /\ AckKeepsSession
  /\ pc = "catch" /\ exc.sw = "OK" => TakesMore
  /\ pc = "recv" /\ ioState = "READY" /\ outLen /\ reply.kind = "sw" /\ reply.sw = "OK" =>
       TakesMore

SeenInv == screen.flow \in ReviewFlows => 1..screen.step \subseteq screen.seen

-----------------------------------------------------------------------------
\* globals.h calls G_output_len the length of the APDU response to send back:
\* what io_exchange is made to transmit is a response.
OnlyResponsesSent == wire.sent => wire.reply.kind # "raw"
============================================================================
