---------------------------- MODULE ConfluxApp ----------------------------
(***************************************************************************)
(* The application as one single-threaded process: the command loop of     *)
(* main.c, the reply state machine of io.c, the dispatcher, the four       *)
(* command handlers, the review screens and the callbacks behind them.     *)
(*                                                                         *)
(* The program runs until it blocks inside io_exchange (pc = "wait").      *)
(* There the environment moves: the host delivers a command, the user      *)
(* presses a button (whose callback runs to its end inside io_exchange,    *)
(* and may throw out of it), the USB cable is unplugged or power is lost.  *)
(*                                                                         *)
(* Data is abstracted to identities: a command is known by its number, a   *)
(* signing session by the number of the command that opened it, a digest   *)
(* by what was hashed into it, the text on the screen by what it was       *)
(* rendered from.                                                          *)
(***************************************************************************)
EXTENDS UxFlows, TxPhases, Integers

CONSTANTS
  MaxCmds,    \* bound: commands the host sends in a behaviour
  MaxMsg,     \* bound: bytes of a message, announced or in one chunk
  HostWaits   \* the host sends no command while one is unanswered

ASSUME BoundsAssumption == MaxCmds \in Nat \ {0} /\ MaxMsg \in Nat
ASSUME HostAssumption == HostWaits \in BOOLEAN

VARIABLES
  pc,         \* where the program is: "boot", "recv", "wait", "dispatch", "catch"
  call,       \* how it blocked: io_exchange "plain" or "asynch" (IO_ASYNCH_REPLY)
  ioState,    \* G_io_state
  outLen,     \* G_output_len > 0
  reply,      \* what G_io_apdu_buffer holds
  wire,       \* the last reply transmitted since the last command
  busy,       \* the transport holds a command that was not answered
  cmdId,      \* number of the last command received
  exc,        \* the exception on its way to app_main
  appState,   \* G_context.app_state
  ctx,        \* the union in G_context
  screen,     \* the flow in G_ux, its step, the steps seen, who asked for it
  callback,   \* g_validate_callback
  strings,    \* what the strings union was rendered from
  settings    \* N_storage

ioVars  == << call, ioState, outLen, reply, wire, busy >>
appVars == << appState, ctx >>
uiVars  == << screen, callback, strings >>
vars    == << pc, ioVars, cmdId, exc, appVars, uiVars, settings >>

-----------------------------------------------------------------------------
\* Status words (sw.h), by the way app_main's catch treats them.
Sw6000    == { "INVALID_DATA", "DENY", "WRONG_P1P2", "WRONG_DATA_LENGTH",
               "INS_NOT_SUPPORTED", "CLA_NOT_SUPPORTED" }
SwDefault == { "TX_PARSING_FAIL", "BAD_STATE", "SIGNATURE_FAIL",
               "DISPLAY_FAIL",   \* the three failures of render.c
               "OS" }            \* an exception of the operating system
Sw        == {"OK"} \cup Sw6000 \cup SwDefault

CmdIds == 0..MaxCmds             \* 0: no command

Digests  == [sess : CmdIds, fed : Nat, finals : Nat, declared : Nat]
NoDigest == [sess |-> 0, fed |-> 0, finals |-> 0, declared |-> 0]

Contexts ==
  [ sess : CmdIds,      \* command that opened the session
    fed : Nat,          \* bytes (message) or chunks (transaction) hashed
    finals : Nat,       \* times the hash was finalised
    phase : Phases,     \* parser_context.currentField (TxPhases)
    data : BOOLEAN,     \* transaction.data_present
    declared : Nat,     \* message length announced by the host
    remaining : Nat,    \* remaining_length
    digest : Digests ]  \* m_hash
ZeroCtx ==
  [ sess |-> 0, fed |-> 0, finals |-> 0, phase |-> "none", data |-> FALSE,
    declared |-> 0, remaining |-> 0, digest |-> NoDigest ]

Strings == [kind : {"none", "settings", "pubkey", "tx", "msg"},
            sess : CmdIds, fed : Nat]
NoStrings == [kind |-> "none", sess |-> 0, fed |-> 0]

ReplyKinds == { "raw",      \* no reply: the bytes of a command
                "sw", "frame", "info", "pubkey", "sig" }
Replies == [kind : ReplyKinds, sw : Sw, by : CmdIds,
            digest : Digests, shown : Strings]
MakeReply(kind, sw, by) ==
  [kind |-> kind, sw |-> sw, by |-> by, digest |-> NoDigest, shown |-> NoStrings]
Raw == MakeReply("raw", "OK", 0)

NoWire == [reply |-> Raw, to |-> 0, sent |-> FALSE]
NoExc  == [sw |-> "OK", by |-> 0]

Show(flow, step, by) ==
  [flow |-> flow, step |-> step,
   seen |-> IF flow \in ReviewFlows THEN {step} ELSE {}, by |-> by]
MainMenu == Show("main_menu", 1, 0)

-----------------------------------------------------------------------------
\* io.c.

\* The transport takes what the buffer holds; it answers the last command.
Transmit(r) ==
  /\ wire' = [reply |-> r, to |-> IF busy THEN cmdId ELSE 0, sent |-> TRUE]
  /\ busy' = FALSE

\* A seeded fault: the synchronous case transmits at once as well.
SendEagerly(r) ==
  /\ reply' = r
  /\ outLen' = (ioState # "WAITING")
  /\ ioState' = "READY"
  /\ Transmit(r)
  /\ UNCHANGED call

\* A seeded fault: the asynchronous case only queues the reply.
SendLate(r) ==
  /\ reply' = r
  /\ outLen' = TRUE
  /\ ioState' = "READY"
  /\ UNCHANGED << call, wire, busy >>

\* Fill the buffer; a command received asynchronously is answered here, the
\* others by the next io_recv_command.
IoSendResponse(r) ==
  /\ reply' = r
  /\ outLen' = (ioState # "WAITING")
  /\ ioState' = "READY"
  /\ IF ioState = "WAITING" THEN Transmit(r) ELSE UNCHANGED << wire, busy >>
  /\ UNCHANGED call

\* G_io_state on entry to the exchange.
RecvState(state) ==
  CASE state = "READY"    -> "RECEIVED"
    [] state = "RECEIVED" -> "WAITING"
    [] OTHER              -> "READY"

\* Up to the call of io_exchange.  A plain exchange transmits G_output_len
\* bytes of the buffer first; the asynchronous one transmits nothing.
IoRecvCommand ==
  /\ pc = "recv"
  /\ ioState' = RecvState(ioState)
  /\ call' = IF ioState = "READY" THEN "plain" ELSE "asynch"
  /\ pc' = IF ioState = "WAITING" THEN "boot" ELSE "wait"
  /\ IF ioState = "READY" /\ outLen
     THEN Transmit(reply)
     ELSE UNCHANGED << wire, busy >>
  /\ UNCHANGED << outLen, reply, cmdId, exc, appVars, uiVars, settings >>

\* A seeded fault: the asynchronous branch does not set RECEIVED on return.
StateKept == ioState

\* G_io_state once io_exchange has returned with a command.
StateOnReturn == IF call = "asynch" THEN "RECEIVED" ELSE ioState

\* io_exchange returns with a command in the buffer.
Receive ==
  /\ pc = "wait"
  /\ cmdId < MaxCmds
  /\ HostWaits => ~busy
  /\ cmdId' = cmdId + 1
  /\ busy' = TRUE
  /\ reply' = Raw
  /\ wire' = NoWire
  /\ ioState' = StateOnReturn
  /\ pc' = "dispatch"
  /\ UNCHANGED << call, outLen, exc, appVars, uiVars, settings >>

-----------------------------------------------------------------------------
\* main.c.

\* A seeded fault: the defaults are written at every start.
StorageAlwaysReset(s) == [blind |-> FALSE, detailed |-> FALSE, initialized |-> TRUE]

InitStorage(s) ==
  IF s.initialized THEN s
  ELSE [blind |-> FALSE, detailed |-> FALSE, initialized |-> TRUE]

\* io_seproxyhal_init .. ui_menu_main, then the start of app_main.
Boot ==
  /\ pc = "boot"
  /\ settings' = InitStorage(settings)
  /\ screen' = MainMenu
  /\ appState' = "IDLE"
  /\ ctx' = ZeroCtx
  /\ outLen' = FALSE
  /\ ioState' = "READY"
  /\ pc' = "recv"
  /\ UNCHANGED << call, reply, wire, busy, cmdId, exc, callback, strings >>

\* A seeded fault: G_context is not zeroed.
ResetStateOnly ==
  /\ appState' = "IDLE"
  /\ UNCHANGED ctx
  /\ screen' = MainMenu

ResetAppContext ==
  /\ appState' = "IDLE"
  /\ ctx' = ZeroCtx
  /\ screen' = MainMenu

\* if (G_context.app_state != APP_STATE_IDLE) reset_app_context();
FreshCtx == IF appState # "IDLE" THEN ZeroCtx ELSE ctx

\* A seeded fault: the reset of a handler leaves the review on the screen.
StaleScreen == screen
FreshScreen == IF appState # "IDLE" THEN MainMenu ELSE screen

Throw(sw, by) ==
  /\ exc' = [sw |-> sw, by |-> by]
  /\ pc' = "catch"

\* A handler returns to the loop of app_main.
Return == pc' = "recv" /\ UNCHANGED exc

\* Seeded faults: the reset forgotten for the internal errors, for the
\* user's refusal, or made for every exception.
KeepsOnInternal(sw) == sw = "OK" \/ sw \in SwDefault
KeepsOnDeny(sw)     == sw \in {"OK", "DENY"}
KeepsNever(sw)      == FALSE

\* Only a status of class 0x9000 leaves the context alone.
KeepsContext(sw) == sw = "OK"

\* CATCH_OTHER.
CatchOther ==
  /\ pc = "catch"
  /\ IoSendResponse(MakeReply("sw", exc.sw, exc.by))
  /\ IF KeepsContext(exc.sw)
     THEN UNCHANGED << appVars, screen >>
     ELSE ResetAppContext
  /\ pc' = "recv"
  /\ exc' = NoExc
  /\ UNCHANGED << cmdId, callback, strings, settings >>

\* A frame whose length and Lc disagree is answered without a reset.
CmdMalformed ==
  /\ IoSendResponse(MakeReply("frame", "WRONG_DATA_LENGTH", cmdId))
  /\ Return
  /\ UNCHANGED << cmdId, appVars, uiVars, settings >>

-----------------------------------------------------------------------------
\* apdu/dispatcher.c.

Instructions == { "GET_APP_INFO", "GET_PUBLIC_KEY", "SIGN_TX", "SIGN_PERSONAL" }
P1_SIGN_FIRST == 0
P1_SIGN_MORE  == 128
Headers == [ cla : BOOLEAN,                        \* cla = CLA
             ins : Instructions \cup {"unknown"},
             p1 : {0, 1, P1_SIGN_MORE}, p2 : {0, 1, 2},
             lc : {0, 1} ]                         \* 1: any non-empty payload

\* The status word the dispatcher throws, or "OK" when it calls the handler.
Dispatch(h) ==
  CASE ~h.cla -> "CLA_NOT_SUPPORTED"
    [] h.cla /\ h.ins = "unknown" -> "INS_NOT_SUPPORTED"
    [] h.cla /\ h.ins = "GET_APP_INFO" ->
         IF h.p1 # 0 \/ h.p2 # 0 THEN "WRONG_P1P2"
         ELSE IF h.lc # 0 THEN "WRONG_DATA_LENGTH" ELSE "OK"
    [] h.cla /\ h.ins = "GET_PUBLIC_KEY" ->
         IF h.p1 > 1 \/ h.p2 > 1 THEN "WRONG_P1P2"
         ELSE IF h.lc = 0 THEN "WRONG_DATA_LENGTH" ELSE "OK"
    [] OTHER ->
         IF h.p1 \notin {P1_SIGN_FIRST, P1_SIGN_MORE} \/ h.p2 # 0
         THEN "WRONG_P1P2" ELSE "OK"

Accepted == { h \in Headers : Dispatch(h) = "OK" }
Refusals == { Dispatch(h) : h \in Headers } \ {"OK"}

CmdRejected(sw) ==
  /\ Throw(sw, cmdId)
  /\ UNCHANGED << ioVars, cmdId, appVars, uiVars, settings >>

-----------------------------------------------------------------------------
\* handler/.

GetAppInfo(h) ==
  /\ h.ins = "GET_APP_INFO"
  /\ appState' = "IDLE"
  /\ ctx' = FreshCtx
  /\ screen' = FreshScreen
  /\ IoSendResponse(MakeReply("info", "OK", cmdId))
  /\ Return
  /\ UNCHANGED << cmdId, callback, strings, settings >>

\* The payload is too short, the derivation or the rendering fails, or the
\* key is shown (p1 = 1) or sent at once; then app_state is left as it is.
GetPublicKey(h) ==
  /\ h.ins = "GET_PUBLIC_KEY"
  /\ appState' = "GETTING_PUBKEY"
  /\ ctx' = [FreshCtx EXCEPT !.sess = cmdId]
  /\ \/ \E sw \in { "WRONG_DATA_LENGTH", "OS" } :
          /\ Throw(sw, cmdId)
          /\ screen' = FreshScreen
          /\ UNCHANGED << ioVars, callback, strings >>
     \/ /\ h.p1 = 1
        /\ Throw("DISPLAY_FAIL", cmdId)
        /\ screen' = FreshScreen
        /\ strings' = [kind |-> "pubkey", sess |-> cmdId, fed |-> 0]
        /\ UNCHANGED << ioVars, callback >>
     \/ /\ h.p1 = 1
        /\ Return
        /\ screen' = Show("get_pubkey", 1, cmdId)
        /\ callback' = "pubkey"
        /\ strings' = [kind |-> "pubkey", sess |-> cmdId, fed |-> 0]
        /\ UNCHANGED ioVars
     \/ /\ h.p1 = 0
        /\ Return
        /\ screen' = FreshScreen
        /\ IoSendResponse(MakeReply("pubkey", "OK", cmdId))
        /\ UNCHANGED << callback, strings >>
  /\ UNCHANGED << cmdId, settings >>

\* A seeded fault: a second finalisation keeps the first digest.
FinalizeFirstOnly(c) ==
  IF c.finals > 0 THEN c
  ELSE [c EXCEPT !.digest = [sess |-> c.sess, fed |-> c.fed, finals |-> c.finals,
                             declared |-> c.declared],
                 !.finals = @ + 1]

\* cx_hash(.., CX_LAST, .., m_hash): what the digest covers.
FinalizeHash(c) ==
  [c EXCEPT !.digest = [sess |-> c.sess, fed |-> c.fed, finals |-> c.finals,
                        declared |-> c.declared],
            !.finals = @ + 1]

\* Render the strings, set the callback and show the flow of the chosen
\* style; a failed rendering throws with the old screen still up.
ShowReview(kind, c, scr) ==
  /\ strings' = [kind |-> kind, sess |-> c.sess, fed |-> c.fed]
  /\ \/ /\ Return
        /\ callback' = kind
        /\ screen' = Show(
             CASE kind = "tx" /\ settings.detailed  -> "sign_tx_detailed"
               [] kind = "tx" /\ ~settings.detailed -> "sign_tx_simple"
               [] kind = "msg" /\ settings.detailed -> "sign_personal_detailed"
               [] OTHER                             -> "sign_personal_simple",
             1, cmdId)
     \/ /\ Throw("DISPLAY_FAIL", cmdId)
        /\ screen' = scr
        /\ UNCHANGED callback

ShowBlindSignError ==
  /\ Return
  /\ screen' = Show("error_blind_sign", 1, cmdId)
  /\ UNCHANGED << callback, strings >>

\* A handler throws with the context c and the screen scr it has so far.
FailWith(sw, c, scr) ==
  /\ Throw(sw, cmdId)
  /\ ctx' = c
  /\ screen' = scr
  /\ UNCHANGED << callback, strings >>

\* A seeded fault: the gate looks at the wrong setting.
RefusedByStyle(data) == data /\ ~settings.detailed

BlindSignRefused(data) == data /\ ~settings.blind

UiSignTx(c, scr) ==
  IF BlindSignRefused(c.data)
  THEN ctx' = c /\ ShowBlindSignError
  ELSE ctx' = FinalizeHash(c) /\ ShowReview("tx", c, scr)

UiSignPersonal(c, scr) ==
  /\ ctx' = FinalizeHash(c)
  /\ IF BlindSignRefused(TRUE) THEN ShowBlindSignError
                               ELSE ShowReview("msg", c, scr)

\* handler_sign_tx from process_tx_chunk on.  Only the fields ahead of V can
\* change data_present.
ProcessTxChunk(c, scr, n) ==
  \E o \in TxOutcomes(c.phase, n), data \in BOOLEAN :
    LET parsed == [c EXCEPT !.phase = o.phase, !.data = data,
                            !.fed = IF c.phase = "done" THEN @ ELSE @ + n]
    IN /\ (c.phase # "head" \/ n = 0) => data = c.data
       /\ \/ o.status = "FINISHED" /\ UiSignTx(parsed, scr)
          \/ o.status = "PROCESSING" /\ FailWith("OK", parsed, scr)
          \/ o.status = "FAULT" /\ FailWith("TX_PARSING_FAIL", parsed, scr)

SignTxFirst(h) ==
  /\ h.ins = "SIGN_TX" /\ h.p1 = P1_SIGN_FIRST
  /\ IF h.lc = 0
     THEN FailWith("INVALID_DATA", ctx, screen) /\ UNCHANGED appState
     ELSE LET opened == [FreshCtx EXCEPT !.sess = cmdId]
              parsing == [opened EXCEPT !.phase = "head", !.fed = 0, !.finals = 0]
          IN /\ appState' = "SIGNING_TX"
             /\ \/ FailWith("WRONG_DATA_LENGTH", opened, FreshScreen)
                \/ \E n \in {0, 1} : ProcessTxChunk(parsing, FreshScreen, n)
  /\ UNCHANGED << ioVars, cmdId, settings >>

SignTxMore(h) ==
  /\ h.ins = "SIGN_TX" /\ h.p1 # P1_SIGN_FIRST
  /\ IF appState # "SIGNING_TX" \/ ctx.phase = "none"
     THEN FailWith("BAD_STATE", ctx, screen)
     ELSE ProcessTxChunk(ctx, screen, h.lc)
  /\ UNCHANGED << ioVars, cmdId, appState, settings >>

\* A seeded fault: a chunk longer than what remains is accepted.
MsgChunkUnchecked(c, scr, n) ==
  LET hashed == [c EXCEPT !.fed = @ + n, !.remaining = @ - n]
  IN IF hashed.remaining > 0 THEN FailWith("OK", hashed, scr)
     ELSE UiSignPersonal(hashed, scr)

\* handler_sign_personal from "process data chunk" on.
ProcessMsgChunk(c, scr, n) ==
  LET hashed == [c EXCEPT !.fed = @ + n, !.remaining = @ - n]
  IN IF n > c.remaining THEN FailWith("WRONG_DATA_LENGTH", c, scr)
     ELSE IF hashed.remaining > 0 THEN FailWith("OK", hashed, scr)
     ELSE UiSignPersonal(hashed, scr)

SignPersonalFirst(h) ==
  /\ h.ins = "SIGN_PERSONAL" /\ h.p1 = P1_SIGN_FIRST
  /\ IF h.lc = 0
     THEN FailWith("INVALID_DATA", ctx, screen) /\ UNCHANGED appState
     ELSE LET opened == [FreshCtx EXCEPT !.sess = cmdId]
          IN /\ appState' = "SIGNING_PERSONAL"
             /\ \/ \E sw \in { "WRONG_DATA_LENGTH", "INVALID_DATA" } :
                     FailWith(sw, opened, FreshScreen)
                \/ \E declared, n \in 0..MaxMsg :
                     ProcessMsgChunk(
                       [opened EXCEPT !.declared = declared,
                          !.remaining = declared, !.fed = 0, !.finals = 0],
                       FreshScreen, n)
  /\ UNCHANGED << ioVars, cmdId, settings >>

SignPersonalMore(h) ==
  /\ h.ins = "SIGN_PERSONAL" /\ h.p1 # P1_SIGN_FIRST
  /\ IF appState # "SIGNING_PERSONAL"
     THEN FailWith("BAD_STATE", ctx, screen)
     ELSE \E n \in 0..MaxMsg :
            (n = 0 <=> h.lc = 0) /\ ProcessMsgChunk(ctx, screen, n)
  /\ UNCHANGED << ioVars, cmdId, appState, settings >>

-----------------------------------------------------------------------------
\* ui/: the buttons, inside io_exchange.

At(flow, label) ==
  pc = "wait" /\ screen.flow = flow /\ Steps(flow)[screen.step] = label

MoveTo(i) ==
  /\ pc = "wait"
  /\ i # screen.step
  /\ screen' = [screen EXCEPT !.step = i,
                  !.seen = IF screen.flow \in ReviewFlows THEN @ \cup {i} ELSE @]
  /\ UNCHANGED << pc, ioVars, cmdId, exc, appVars, callback, strings, settings >>

PressRight == MoveTo(StepRight(screen.flow, screen.step))
PressLeft  == MoveTo(StepLeft(screen.flow, screen.step))

\* A menu callback that only changes what is displayed.
Menu(scr, text) ==
  /\ screen' = scr
  /\ strings' = text
  /\ UNCHANGED << pc, ioVars, cmdId, exc, appVars, callback >>

SettingsText == [kind |-> "settings", sess |-> 0, fed |-> 0]

OpenSettings ==
  /\ At("main_menu", "settings")
  /\ Menu(Show("settings", 1, 0), SettingsText)
  /\ UNCHANGED settings

OpenAbout ==
  /\ At("main_menu", "about")
  /\ Menu(Show("about", 1, 0), strings)
  /\ UNCHANGED settings

Back ==
  /\ \E flow \in {"settings", "about"} : At(flow, "back")
  /\ Menu(MainMenu, strings)
  /\ UNCHANGED settings

ToggleBlindSigning ==
  /\ At("settings", "blind_sign")
  /\ settings' = [settings EXCEPT !.blind = ~@]
  /\ Menu(Show("settings", 1, 0), SettingsText)

ToggleDetailedDisplay ==
  /\ At("settings", "display_style")
  /\ settings' = [settings EXCEPT !.detailed = ~@]
  /\ Menu(Show("settings", 2, 0), SettingsText)

DismissBlindSignError ==
  /\ At("error_blind_sign", "blind_sign_disabled")
  /\ Throw("DENY", screen.by)
  /\ UNCHANGED << ioVars, cmdId, appVars, uiVars, settings >>

\* (*g_validate_callback)(choice)
Decides(cb, choice) ==
  /\ \E flow \in ReviewFlows : At(flow, IF choice THEN "accept" ELSE "reject")
  /\ callback = cb
  /\ UNCHANGED << cmdId, callback, strings, settings >>

ValidatePubkey(choice) ==
  /\ Decides("pubkey", choice)
  /\ IF choice
     THEN /\ IoSendResponse(MakeReply("pubkey", "OK", screen.by))
          /\ ResetAppContext
          /\ UNCHANGED << pc, exc >>
     ELSE Throw("DENY", screen.by) /\ UNCHANGED << ioVars, appVars, screen >>

\* The callbacks set IDLE, then sign; signing may fail or throw.
SignDigest ==
  /\ IoSendResponse([MakeReply("sig", "OK", screen.by)
                       EXCEPT !.digest = ctx.digest, !.shown = strings])
  /\ ResetAppContext
  /\ UNCHANGED << pc, exc >>

ThrowIdle(sw) ==
  /\ Throw(sw, screen.by)
  /\ appState' = "IDLE"
  /\ UNCHANGED << ioVars, ctx, screen >>

SignOrDeny(choice) ==
  IF choice
  THEN SignDigest \/ \E sw \in { "SIGNATURE_FAIL", "OS" } : ThrowIdle(sw)
  ELSE ThrowIdle("DENY")

ValidateTransaction(choice) == Decides("tx", choice) /\ SignOrDeny(choice)
SignPersonal(choice)        == Decides("msg", choice) /\ SignOrDeny(choice)

-----------------------------------------------------------------------------
\* EXCEPTION_IO_RESET out of io_event: main starts over, RAM is kept.
UsbReset ==
  /\ pc = "wait"
  /\ pc' = "boot"
  /\ busy' = FALSE
  /\ wire' = NoWire
  /\ UNCHANGED << call, ioState, outLen, reply, cmdId, exc, appVars, uiVars,
                  settings >>

\* The process is gone; only N_storage survives.
Restart ==
  /\ pc' = "boot"
  /\ call' = "plain"
  /\ ioState' = "READY"
  /\ outLen' = FALSE
  /\ reply' = Raw
  /\ wire' = NoWire
  /\ busy' = FALSE
  /\ exc' = NoExc
  /\ appState' = "IDLE"
  /\ ctx' = ZeroCtx
  /\ screen' = MainMenu
  /\ callback' = "none"
  /\ strings' = NoStrings
  /\ UNCHANGED << cmdId, settings >>

PowerLoss == pc # "boot" /\ Restart
Quit      == At("main_menu", "exit") /\ Restart

Init ==
  /\ pc = "boot" /\ call = "plain" /\ ioState = "READY" /\ outLen = FALSE
  /\ reply = Raw /\ wire = NoWire /\ busy = FALSE
  /\ cmdId = 0 /\ exc = NoExc
  /\ appState = "IDLE" /\ ctx = ZeroCtx
  /\ screen = MainMenu /\ callback = "none" /\ strings = NoStrings
  /\ settings = [blind |-> FALSE, detailed |-> FALSE, initialized |-> FALSE]

\* apdu_parser, apdu_dispatcher and the handler it calls.
Handle ==
  /\ pc = "dispatch"
  /\ \/ CmdMalformed
     \/ \E sw \in Refusals : CmdRejected(sw)
     \/ \E h \in Accepted :
          \/ GetAppInfo(h) \/ GetPublicKey(h)
          \/ SignTxFirst(h) \/ SignTxMore(h)
          \/ SignPersonalFirst(h) \/ SignPersonalMore(h)

User ==
  \/ PressRight \/ PressLeft
  \/ OpenSettings \/ OpenAbout \/ Back
  \/ ToggleBlindSigning \/ ToggleDetailedDisplay
  \/ DismissBlindSignError
  \/ \E choice \in BOOLEAN :
       ValidatePubkey(choice) \/ ValidateTransaction(choice) \/ SignPersonal(choice)

\* The steps the processor takes by itself.
System == Boot \/ IoRecvCommand \/ Handle \/ CatchOther

Next == System \/ Receive \/ User \/ UsbReset \/ PowerLoss \/ Quit

Spec == Init /\ [][Next]_vars

\* The processor does not stop while there is something to run; host, user,
\* cable and battery owe nothing.
FairSpec == Spec /\ WF_vars(System)
============================================================================
