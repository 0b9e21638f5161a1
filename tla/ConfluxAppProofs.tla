-------------------------- MODULE ConfluxAppProofs --------------------------
(***************************************************************************)
(* The safety of ConfluxApp, proved for every value of the constants.  First *)
(* the types of its variables: operators, then each action, then the theorem. *)
(* On top of TypeOK, and whatever the host does: IoInv (the reply state    *)
(* machine), SessionInv (context, screen, callback and strings agree),     *)
(* ErrorInv (an error reply leaves nothing behind) and SeenInv (the screens a *)
(* review has shown).  Then, for a host that waits for its answers: ReplyInv *)
(* (G_io_state, G_output_len, the buffer, the transport and the screen agree *)
(* on whether a command is unanswered), FinalsInv (hashes are finalised once) *)
(* and AckInv (an acknowledged session can take more).  Last, whatever the *)
(* host does, that ConfluxApp implements SigningSession: the initial state *)
(* maps to the initial state, and each step to one of its steps or to none. *)
(***************************************************************************)
EXTENDS ConfluxAppSession, TLAPS

-----------------------------------------------------------------------------
\* The flows of ui/flows.c.

\* Every flow has at least one step.
LEMMA StepsNonempty == \A f \in Flows : Len(Steps(f)) \in Nat \ {0}
BY DEF Flows, MenuFlows, ReviewFlows, TxFlows, MsgFlows, Steps

\* The settings flow has three steps.
LEMMA SettingsSteps == Len(Steps("settings")) = 3
BY DEF Steps

\* The buttons stay within the flow.
LEMMA StepMoves ==
  ASSUME NEW f \in Flows, NEW i \in 1..Len(Steps(f))
  PROVE  /\ StepRight(f, i) \in 1..Len(Steps(f))
         /\ StepLeft(f, i) \in 1..Len(Steps(f))
BY StepsNonempty DEF StepRight, StepLeft

ScreenOK(scr) == scr \in Screens /\ scr.step \in 1..Len(Steps(scr.flow))

\* A flow is shown at one of its steps.
LEMMA ShowOK ==
  ASSUME NEW f \in Flows, NEW i \in 1..Len(Steps(f)), NEW by \in CmdIds
  PROVE  ScreenOK(Show(f, i, by))
BY StepsNonempty DEF ScreenOK, Show, Screens

\* So is the main menu.
LEMMA MainMenuOK == ScreenOK(MainMenu)
BY ShowOK, StepsNonempty, BoundsAssumption
   DEF MainMenu, Flows, MenuFlows, CmdIds

-----------------------------------------------------------------------------
\* Types.

\* The wiped context is a context.
LEMMA ZeroCtxType == ZeroCtx \in Contexts
BY BoundsAssumption DEF ZeroCtx, Contexts, Phases, Digests, NoDigest, CmdIds

\* Finalising the hash keeps the type of the context.
LEMMA FinalizeType ==
  ASSUME NEW c \in Contexts
  PROVE  FinalizeHash(c) \in Contexts
<1> DEFINE d == [sess |-> c.sess, fed |-> c.fed, finals |-> c.finals,
                 declared |-> c.declared]
<1>1. d \in Digests
  BY DEF Contexts, Digests
<1>2. c.finals + 1 \in Nat
  BY DEF Contexts
<1>3. FinalizeHash(c) = [c EXCEPT !.digest = d, !.finals = c.finals + 1]
  BY DEF FinalizeHash
<1> HIDE DEF d
<1> QED BY <1>1, <1>2, <1>3 DEF Contexts

\* A reply without digest is a reply.
LEMMA MakeReplyType ==
  ASSUME NEW kind \in ReplyKinds, NEW sw \in Sw, NEW by \in CmdIds
  PROVE  MakeReply(kind, sw, by) \in Replies
BY BoundsAssumption
   DEF MakeReply, Replies, NoDigest, NoStrings, Digests, Strings, CmdIds

\* What a handler's conditional reset leaves has its type.
LEMMA FreshType ==
  ASSUME TypeOK
  PROVE  FreshCtx \in Contexts /\ ScreenOK(FreshScreen)
BY ZeroCtxType, MainMenuOK DEF TypeOK, FreshCtx, FreshScreen, ScreenOK

IoOK ==
  /\ call \in { "plain", "asynch" }
  /\ ioState \in { "READY", "RECEIVED", "WAITING" }
  /\ outLen \in BOOLEAN
  /\ reply \in Replies
  /\ wire \in [reply : Replies, to : CmdIds, sent : BOOLEAN]
  /\ busy \in BOOLEAN

\* io_send_response keeps the types of the I/O state.
LEMMA SendType ==
  ASSUME TypeOK, NEW r \in Replies, IoSendResponse(r)
  PROVE  IoOK'
<1>1. 0 \in CmdIds
  BY BoundsAssumption DEF CmdIds
<1>2. wire' \in [reply : Replies, to : CmdIds, sent : BOOLEAN] /\ busy' \in BOOLEAN
  <2>1. CASE ioState = "WAITING"
    <3> DEFINE to == IF busy THEN cmdId ELSE 0
    <3>1. to \in CmdIds
      BY <1>1 DEF TypeOK
    <3>2. wire' = [reply |-> r, to |-> to, sent |-> TRUE] /\ busy' = FALSE
      BY <2>1 DEF IoSendResponse, Transmit
    <3> HIDE DEF to
    <3> QED BY <3>1, <3>2
  <2>2. CASE ioState # "WAITING"
    BY <2>2 DEF TypeOK, IoSendResponse
  <2> QED BY <2>1, <2>2
<1> QED BY <1>2 DEF TypeOK, IoOK, IoSendResponse

HandlerOK ==
  /\ pc \in { "recv", "catch" }
  /\ exc \in [sw : Sw, by : CmdIds]
  /\ ctx \in Contexts
  /\ ScreenOK(screen)
  /\ callback \in { "none", "pubkey", "tx", "msg" }
  /\ strings \in Strings

\* A handler that throws keeps the types.
LEMMA FailType ==
  ASSUME TypeOK, NEW sw \in Sw, NEW c \in Contexts, NEW scr, ScreenOK(scr),
         FailWith(sw, c, scr)
  PROVE  HandlerOK'
BY DEF TypeOK, FailWith, Throw, HandlerOK, ScreenOK

\* A review that is shown, or fails to render, keeps the types.
LEMMA ReviewType ==
  ASSUME TypeOK, NEW kind \in {"tx", "msg"}, NEW c \in Contexts, NEW scr,
         ScreenOK(scr), ctx' = FinalizeHash(c), ShowReview(kind, c, scr)
  PROVE  HandlerOK'
<1>1. ctx' \in Contexts /\ strings' \in Strings
  BY FinalizeType DEF ShowReview, Strings, Contexts
<1>2. CASE /\ Return
           /\ callback' = kind
           /\ \E f \in TxFlows \cup MsgFlows : screen' = Show(f, 1, cmdId)
  <2>1. ScreenOK(screen')
    BY <1>2, ShowOK, StepsNonempty DEF Flows, ReviewFlows, TypeOK
  <2> QED BY <1>1, <1>2, <2>1 DEF TypeOK, HandlerOK, Return, ScreenOK
<1>3. CASE Throw("DISPLAY_FAIL", cmdId) /\ screen' = scr /\ UNCHANGED callback
  BY <1>1, <1>3 DEF TypeOK, HandlerOK, Throw, Sw, SwDefault, ScreenOK
<1> QED BY <1>2, <1>3 DEF ShowReview, TxFlows, MsgFlows

\* The error screen keeps the types.
LEMMA BlindErrorType ==
  ASSUME TypeOK, ctx' \in Contexts, ShowBlindSignError
  PROVE  HandlerOK'
<1>1. "error_blind_sign" \in Flows /\ cmdId \in CmdIds
  BY DEF Flows, TypeOK
<1>2. 1 \in 1..Len(Steps("error_blind_sign"))
  BY <1>1, StepsNonempty
<1>3. ScreenOK(screen')
  BY <1>1, <1>2, ShowOK DEF ShowBlindSignError
<1> QED BY <1>3 DEF TypeOK, ShowBlindSignError, Return, HandlerOK, ScreenOK

\* ui_sign_tx and ui_sign_personal keep the types.
LEMMA UiTypes ==
  ASSUME TypeOK, NEW c \in Contexts, NEW scr, ScreenOK(scr),
         UiSignTx(c, scr) \/ UiSignPersonal(c, scr)
  PROVE  HandlerOK'
<1>1. CASE UiSignTx(c, scr)
  BY <1>1, BlindErrorType, ReviewType DEF UiSignTx
<1>2. CASE UiSignPersonal(c, scr)
  BY <1>2, BlindErrorType, ReviewType, FinalizeType DEF UiSignPersonal
<1> QED BY <1>1, <1>2

\* The parser stays in a known group of fields.
LEMMA OnwardsType ==
  ASSUME NEW phase \in Phases
  PROVE  Onwards(phase) \subseteq Phases \ {"none"}
BY DEF Onwards, Phases

\* A transaction chunk keeps the types.
LEMMA TxChunkType ==
  ASSUME TypeOK, NEW c \in Contexts, NEW scr, ScreenOK(scr),
         NEW n \in {0, 1}, ProcessTxChunk(c, scr, n)
  PROVE  HandlerOK'
<1> DEFINE Parsed(o, data) ==
      [c EXCEPT !.phase = o.phase, !.data = data,
                !.fed = IF c.phase = "done" THEN @ ELSE @ + n]
<1>1. PICK o \in TxOutcomes(c.phase, n), data \in BOOLEAN :
        \/ UiSignTx(Parsed(o, data), scr)
        \/ FailWith("OK", Parsed(o, data), scr)
        \/ FailWith("TX_PARSING_FAIL", Parsed(o, data), scr)
  BY Zenon DEF ProcessTxChunk
<1>2. Parsed(o, data) \in Contexts
  <2>1. o.phase \in Phases
    BY OnwardsType DEF TxOutcomes, Contexts
  <2>2. (IF c.phase = "done" THEN c.fed ELSE c.fed + n) \in Nat
    BY DEF Contexts
  <2> QED BY <2>1, <2>2 DEF Contexts
<1> HIDE DEF Parsed
<1> QED BY <1>1, <1>2, UiTypes, FailType DEF Sw, SwDefault

\* A message chunk keeps the types: remaining_length does not underflow.
LEMMA MsgChunkType ==
  ASSUME TypeOK, NEW c \in Contexts, NEW scr, ScreenOK(scr),
         NEW n \in Nat, ProcessMsgChunk(c, scr, n)
  PROVE  HandlerOK'
<1> DEFINE fed == c.fed + n
           remaining == c.remaining - n
           hashed == [c EXCEPT !.fed = fed, !.remaining = remaining]
<1>1. CASE n > c.remaining
  BY <1>1, FailType DEF ProcessMsgChunk, Sw, Sw6000
<1>2. CASE ~(n > c.remaining)
  <2>1. hashed \in Contexts
    <3>1. fed \in Nat /\ remaining \in Nat
      BY <1>2 DEF Contexts
    <3> HIDE DEF fed, remaining
    <3> QED BY <3>1 DEF Contexts
  <2>2. FailWith("OK", hashed, scr) \/ UiSignPersonal(hashed, scr)
    BY <1>2, Zenon DEF ProcessMsgChunk
  <2> HIDE DEF hashed
  <2> QED BY <2>1, <2>2, FailType, UiTypes DEF Sw
<1> QED BY <1>1, <1>2

-----------------------------------------------------------------------------
\* Each action keeps the types.

\* main up to app_main's loop.
LEMMA TypeBoot ==
  ASSUME TypeOK, Boot
  PROVE  TypeOK'
<1>1. settings' \in [blind : BOOLEAN, detailed : BOOLEAN, initialized : BOOLEAN]
  BY DEF TypeOK, Boot, InitStorage
<1> QED BY <1>1, MainMenuOK, ZeroCtxType DEF TypeOK, Boot, ScreenOK, AppStates

\* io_recv_command up to the exchange.
LEMMA TypeIoRecvCommand ==
  ASSUME TypeOK, IoRecvCommand
  PROVE  TypeOK'
<1>1. ioState' \in { "READY", "RECEIVED", "WAITING" }
  BY DEF IoRecvCommand, RecvState
<1>2. wire' \in [reply : Replies, to : CmdIds, sent : BOOLEAN] /\ busy' \in BOOLEAN
  <2>1. CASE Transmit(reply)
    <3> DEFINE to == IF busy THEN cmdId ELSE 0
    <3>1. to \in CmdIds
      BY BoundsAssumption DEF TypeOK, CmdIds
    <3>2. wire' = [reply |-> reply, to |-> to, sent |-> TRUE] /\ busy' = FALSE
      BY <2>1 DEF Transmit
    <3> HIDE DEF to
    <3> QED BY <3>1, <3>2 DEF TypeOK
  <2>2. CASE UNCHANGED << wire, busy >>
    BY <2>2 DEF TypeOK
  <2> QED BY <2>1, <2>2 DEF IoRecvCommand
<1> QED BY <1>1, <1>2 DEF TypeOK, IoRecvCommand, appVars, uiVars

\* The empty replies are replies.
LEMMA RawType == Raw \in Replies /\ NoWire \in [reply : Replies, to : CmdIds, sent : BOOLEAN]
<1>1. Raw \in Replies
  BY MakeReplyType, BoundsAssumption DEF Raw, ReplyKinds, Sw, CmdIds
<1> QED BY <1>1, BoundsAssumption DEF NoWire, CmdIds

\* No exception has the type of one.
LEMMA NoExcType == NoExc \in [sw : Sw, by : CmdIds]
BY BoundsAssumption DEF NoExc, Sw, CmdIds

\* A command arrives.
LEMMA TypeReceive ==
  ASSUME TypeOK, Receive
  PROVE  TypeOK'
<1>1. cmdId' \in CmdIds
  BY BoundsAssumption DEF TypeOK, Receive, CmdIds
<1>2. ioState' \in { "READY", "RECEIVED", "WAITING" }
  BY DEF TypeOK, Receive, StateOnReturn
<1> QED BY <1>1, <1>2, RawType DEF TypeOK, Receive, appVars, uiVars

\* reset_app_context.
LEMMA ResetType ==
  ASSUME ResetAppContext
  PROVE  appState' \in AppStates /\ ctx' \in Contexts /\ ScreenOK(screen')
BY ZeroCtxType, MainMenuOK DEF ResetAppContext, AppStates

\* app_main's catch.
LEMMA TypeCatchOther ==
  ASSUME TypeOK, CatchOther
  PROVE  TypeOK'
<1>1. IoOK'
  <2>1. MakeReply("sw", exc.sw, exc.by) \in Replies
    BY MakeReplyType DEF TypeOK, ReplyKinds
  <2> QED BY <2>1, SendType DEF CatchOther
<1>2. appState' \in AppStates /\ ctx' \in Contexts /\ ScreenOK(screen')
  BY ResetType DEF TypeOK, CatchOther, appVars, ScreenOK
<1> QED BY <1>1, <1>2, NoExcType DEF TypeOK, CatchOther, IoOK, ScreenOK

\* A frame refused by apdu_parser.
LEMMA TypeCmdMalformed ==
  ASSUME TypeOK, CmdMalformed
  PROVE  TypeOK'
<1>1. IoOK'
  <2>1. MakeReply("frame", "WRONG_DATA_LENGTH", cmdId) \in Replies
    BY MakeReplyType DEF TypeOK, ReplyKinds, Sw, Sw6000
  <2> QED BY <2>1, SendType DEF CmdMalformed
<1> QED BY <1>1 DEF TypeOK, CmdMalformed, IoOK, Return, appVars, uiVars

\* The dispatcher throws status words.
LEMMA RefusalsType == Refusals \subseteq Sw
BY DEF Refusals, Headers, Dispatch, Sw, Sw6000

\* A command refused by the dispatcher.
LEMMA TypeCmdRejected ==
  ASSUME TypeOK, NEW sw \in Refusals, CmdRejected(sw)
  PROVE  TypeOK'
BY RefusalsType DEF TypeOK, CmdRejected, Throw, ioVars, appVars, uiVars

\* handler_get_app_info.
LEMMA TypeGetAppInfo ==
  ASSUME TypeOK, NEW h \in Accepted, GetAppInfo(h)
  PROVE  TypeOK'
<1>1. IoOK'
  <2>1. MakeReply("info", "OK", cmdId) \in Replies
    BY MakeReplyType DEF TypeOK, ReplyKinds, Sw
  <2> QED BY <2>1, SendType DEF GetAppInfo
<1> QED BY <1>1, FreshType DEF TypeOK, GetAppInfo, IoOK, ScreenOK, Return, AppStates

\* A session just opened is a context.
LEMMA OpenedType ==
  ASSUME TypeOK
  PROVE  [FreshCtx EXCEPT !.sess = cmdId] \in Contexts
BY FreshType DEF TypeOK, Contexts

\* handler_get_public_key.
LEMMA TypeGetPublicKey ==
  ASSUME TypeOK, NEW h \in Accepted, GetPublicKey(h)
  PROVE  TypeOK'
<1>1. ctx' \in Contexts
  BY OpenedType DEF GetPublicKey
<1>2. ScreenOK(screen')
  <2>1. ScreenOK(Show("get_pubkey", 1, cmdId))
    <3>1. "get_pubkey" \in Flows /\ cmdId \in CmdIds
      BY DEF Flows, ReviewFlows, TypeOK
    <3>2. 1 \in 1..Len(Steps("get_pubkey"))
      BY <3>1, StepsNonempty
    <3> QED BY <3>1, <3>2, ShowOK
  <2> QED BY <2>1, FreshType DEF GetPublicKey
<1>3. IoOK'
  <2>1. MakeReply("pubkey", "OK", cmdId) \in Replies
    BY MakeReplyType DEF TypeOK, ReplyKinds, Sw
  <2> QED BY <2>1, SendType DEF GetPublicKey, TypeOK, IoOK, ioVars
<1>4. pc' \in {"recv", "catch"} /\ exc' \in [sw : Sw, by : CmdIds]
  BY DEF GetPublicKey, TypeOK, Return, Throw, Sw, Sw6000, SwDefault
<1>5. callback' \in { "none", "pubkey", "tx", "msg" } /\ strings' \in Strings
  BY DEF GetPublicKey, TypeOK, Strings
<1> QED BY <1>1, <1>2, <1>3, <1>4, <1>5 DEF TypeOK, GetPublicKey, IoOK, ScreenOK, AppStates

\* The signing handlers leave I/O state and settings alone.
LEMMA HandlerType ==
  ASSUME TypeOK, HandlerOK', UNCHANGED << ioVars, cmdId, settings >>,
         appState' \in AppStates
  PROVE  TypeOK'
BY DEF TypeOK, HandlerOK, ScreenOK, ioVars

\* handler_sign_tx, first chunk.
LEMMA TypeSignTxFirst ==
  ASSUME TypeOK, NEW h \in Accepted, SignTxFirst(h)
  PROVE  TypeOK'
<1>1. CASE h.lc = 0
  <2>1. HandlerOK'
    BY <1>1, FailType DEF SignTxFirst, TypeOK, ScreenOK, Sw, Sw6000
  <2> QED BY <1>1, <2>1, HandlerType DEF SignTxFirst, TypeOK
<1>2. CASE h.lc # 0
  <2> DEFINE opened == [FreshCtx EXCEPT !.sess = cmdId]
             parsing == [opened EXCEPT !.phase = "head", !.fed = 0, !.finals = 0]
  <2>1. opened \in Contexts /\ ScreenOK(FreshScreen)
    BY OpenedType, FreshType
  <2>2. parsing \in Contexts
    <3> HIDE DEF opened
    <3> QED BY <2>1 DEF Contexts, Phases
  <2>3. /\ appState' = "SIGNING_TX"
        /\ \/ FailWith("WRONG_DATA_LENGTH", opened, FreshScreen)
           \/ \E n \in {0, 1} : ProcessTxChunk(parsing, FreshScreen, n)
        /\ UNCHANGED << ioVars, cmdId, settings >>
    BY <1>2, Zenon DEF SignTxFirst
  <2> HIDE DEF opened, parsing
  <2>4. HandlerOK'
    BY <2>1, <2>2, <2>3, FailType, TxChunkType DEF Sw, Sw6000
  <2> QED BY <2>3, <2>4, HandlerType DEF AppStates
<1> QED BY <1>1, <1>2

\* handler_sign_tx, further chunk.
LEMMA TypeSignTxMore ==
  ASSUME TypeOK, NEW h \in Accepted, SignTxMore(h)
  PROVE  TypeOK'
<1>1. h.lc \in {0, 1}
  BY DEF Accepted, Headers
<1>2. HandlerOK'
  BY <1>1, FailType, TxChunkType DEF SignTxMore, TypeOK, ScreenOK, Sw, SwDefault
<1> QED BY <1>2, HandlerType DEF SignTxMore, TypeOK

\* handler_sign_personal, first chunk.
LEMMA TypeSignPersonalFirst ==
  ASSUME TypeOK, NEW h \in Accepted, SignPersonalFirst(h)
  PROVE  TypeOK'
<1>1. CASE h.lc = 0
  <2>1. HandlerOK'
    BY <1>1, FailType DEF SignPersonalFirst, TypeOK, ScreenOK, Sw, Sw6000
  <2> QED BY <1>1, <2>1, HandlerType DEF SignPersonalFirst, TypeOK
<1>2. CASE h.lc # 0
  <2> DEFINE opened == [FreshCtx EXCEPT !.sess = cmdId]
             Announced(declared) ==
               [opened EXCEPT !.declared = declared, !.remaining = declared,
                              !.fed = 0, !.finals = 0]
  <2>1. opened \in Contexts /\ ScreenOK(FreshScreen)
    BY OpenedType, FreshType
  <2>2. \A declared \in Nat : Announced(declared) \in Contexts
    <3> HIDE DEF opened
    <3> QED BY <2>1 DEF Contexts
  <2>3. /\ appState' = "SIGNING_PERSONAL"
        /\ \/ \E sw \in { "WRONG_DATA_LENGTH", "INVALID_DATA" } :
                FailWith(sw, opened, FreshScreen)
           \/ \E declared, n \in 0..MaxMsg :
                ProcessMsgChunk(Announced(declared), FreshScreen, n)
        /\ UNCHANGED << ioVars, cmdId, settings >>
    BY <1>2, Zenon DEF SignPersonalFirst
  <2> HIDE DEF opened, Announced
  <2>4. 0..MaxMsg \subseteq Nat
    BY BoundsAssumption
  <2>5. HandlerOK'
    BY <2>1, <2>2, <2>3, <2>4, FailType, MsgChunkType DEF Sw, Sw6000
  <2> QED BY <2>3, <2>5, HandlerType DEF AppStates
<1> QED BY <1>1, <1>2

\* handler_sign_personal, further chunk.
LEMMA TypeSignPersonalMore ==
  ASSUME TypeOK, NEW h \in Accepted, SignPersonalMore(h)
  PROVE  TypeOK'
<1>1. 0..MaxMsg \subseteq Nat
  BY BoundsAssumption
<1>2. HandlerOK'
  BY <1>1, FailType, MsgChunkType DEF SignPersonalMore, TypeOK, ScreenOK, Sw, SwDefault
<1> QED BY <1>2, HandlerType DEF SignPersonalMore, TypeOK

\* The left and right buttons.
LEMMA TypeMoves ==
  ASSUME TypeOK, PressRight \/ PressLeft
  PROVE  TypeOK'
<1>1. screen.flow \in Flows /\ screen.step \in 1..Len(Steps(screen.flow))
  BY DEF TypeOK, Screens
<1>2. PICK i \in 1..Len(Steps(screen.flow)) : MoveTo(i)
  BY <1>1, StepMoves DEF PressRight, PressLeft
<1>3. i \in Nat
  BY <1>1, StepsNonempty
<1>4. ScreenOK(screen')
  <2> DEFINE seen == IF screen.flow \in ReviewFlows THEN screen.seen \cup {i}
                                                   ELSE screen.seen
  <2>1. seen \in SUBSET Nat
    BY <1>3 DEF TypeOK, Screens
  <2>2. screen' = [screen EXCEPT !.step = i, !.seen = seen]
    BY <1>2 DEF MoveTo
  <2> HIDE DEF seen
  <2> QED BY <1>3, <2>1, <2>2 DEF TypeOK, ScreenOK, Screens
<1> QED BY <1>2, <1>4 DEF MoveTo, TypeOK, ScreenOK, ioVars, appVars

\* The screens the menus show.
LEMMA MenuScreens ==
  /\ ScreenOK(Show("settings", 1, 0))
  /\ ScreenOK(Show("settings", 2, 0))
  /\ ScreenOK(Show("about", 1, 0))
<1>1. "settings" \in Flows /\ "about" \in Flows /\ 0 \in CmdIds
  BY BoundsAssumption DEF Flows, MenuFlows, CmdIds
<1>2. 1 \in 1..Len(Steps("settings")) /\ 2 \in 1..Len(Steps("settings"))
  BY SettingsSteps
<1>3. 1 \in 1..Len(Steps("about"))
  BY <1>1, StepsNonempty
<1> QED BY <1>1, <1>2, <1>3, ShowOK

\* A menu callback.
LEMMA TypeMenu ==
  ASSUME TypeOK, NEW scr, ScreenOK(scr), NEW text \in Strings, Menu(scr, text),
         settings' \in [blind : BOOLEAN, detailed : BOOLEAN, initialized : BOOLEAN]
  PROVE  TypeOK'
BY DEF TypeOK, Menu, ScreenOK, ioVars, appVars

\* The menu callbacks.
LEMMA TypeMenus ==
  ASSUME TypeOK,
         \/ OpenSettings \/ OpenAbout \/ Back
         \/ ToggleBlindSigning \/ ToggleDetailedDisplay
  PROVE  TypeOK'
<1>1. SettingsText \in Strings /\ strings \in Strings
  BY BoundsAssumption DEF TypeOK, SettingsText, Strings, CmdIds
<1>2. settings' \in [blind : BOOLEAN, detailed : BOOLEAN, initialized : BOOLEAN]
  BY DEF TypeOK, OpenSettings, OpenAbout, Back, ToggleBlindSigning,
         ToggleDetailedDisplay
<1> QED BY <1>1, <1>2, TypeMenu, MenuScreens, MainMenuOK
        DEF OpenSettings, OpenAbout, Back, ToggleBlindSigning, ToggleDetailedDisplay

\* The error screen is dismissed.
LEMMA TypeDismiss ==
  ASSUME TypeOK, DismissBlindSignError
  PROVE  TypeOK'
BY DEF TypeOK, DismissBlindSignError, Throw, Screens, Sw, Sw6000, ioVars, appVars, uiVars

\* The user decides on a key.
LEMMA TypeValidatePubkey ==
  ASSUME TypeOK, NEW choice \in BOOLEAN, ValidatePubkey(choice)
  PROVE  TypeOK'
<1>1. CASE choice
  <2>1. IoOK'
    <3>1. MakeReply("pubkey", "OK", screen.by) \in Replies
      BY MakeReplyType DEF TypeOK, Screens, ReplyKinds, Sw
    <3> QED BY <1>1, <3>1, SendType DEF ValidatePubkey
  <2> QED BY <1>1, <2>1, ResetType
          DEF TypeOK, ValidatePubkey, Decides, IoOK, ScreenOK
<1>2. CASE ~choice
  BY <1>2 DEF TypeOK, ValidatePubkey, Decides, Throw, Screens, Sw, Sw6000, ioVars, appVars
<1> QED BY <1>1, <1>2

\* The user decides on a signature.
LEMMA TypeSignOrDeny ==
  ASSUME TypeOK, NEW choice \in BOOLEAN, SignOrDeny(choice),
         UNCHANGED << cmdId, callback, strings, settings >>
  PROVE  TypeOK'
<1>1. CASE SignDigest
  <2> DEFINE sent == [MakeReply("sig", "OK", screen.by)
                        EXCEPT !.digest = ctx.digest, !.shown = strings]
  <2>1. MakeReply("sig", "OK", screen.by) \in Replies
    BY MakeReplyType DEF TypeOK, Screens, ReplyKinds, Sw
  <2>2. ctx.digest \in Digests /\ strings \in Strings
    BY DEF TypeOK, Contexts
  <2>3. sent \in Replies
    BY <2>1, <2>2 DEF Replies
  <2>4. IoOK'
    BY <1>1, <2>3, SendType DEF SignDigest
  <2> QED BY <1>1, <2>4, ResetType DEF TypeOK, SignDigest, IoOK, ScreenOK
<1>2. CASE \E sw \in { "SIGNATURE_FAIL", "OS", "DENY" } : ThrowIdle(sw)
  BY <1>2 DEF TypeOK, ThrowIdle, Throw, Screens, Sw, Sw6000, SwDefault, ioVars, AppStates
<1> QED BY <1>1, <1>2 DEF SignOrDeny

\* A USB reset.
LEMMA TypeUsbReset ==
  ASSUME TypeOK, UsbReset
  PROVE  TypeOK'
BY RawType, ZenonT(30) DEF TypeOK, UsbReset, appVars, uiVars

\* The process starts anew.
LEMMA TypeRestart ==
  ASSUME TypeOK, Restart
  PROVE  TypeOK'
<1>1. NoStrings \in Strings
  BY BoundsAssumption DEF NoStrings, Strings, CmdIds
<1> QED BY <1>1, RawType, NoExcType, ZeroCtxType, MainMenuOK
        DEF TypeOK, Restart, ScreenOK, AppStates

\* The first start.
LEMMA TypeInit ==
  ASSUME Init
  PROVE  TypeOK
<1>1. NoStrings \in Strings
  BY BoundsAssumption DEF NoStrings, Strings, CmdIds
<1>2. cmdId \in CmdIds
  BY BoundsAssumption DEF Init, CmdIds
<1>3. settings \in [blind : BOOLEAN, detailed : BOOLEAN, initialized : BOOLEAN]
  BY DEF Init
<1> QED BY <1>1, <1>2, <1>3, RawType, NoExcType, ZeroCtxType, MainMenuOK
        DEF TypeOK, Init, ScreenOK, AppStates

\* Every step keeps the types.
LEMMA TypeNext ==
  ASSUME TypeOK, [Next]_vars
  PROVE  TypeOK'
<1>1. CASE System
  <2>1. CASE Handle
    BY <2>1, TypeCmdMalformed, TypeCmdRejected, TypeGetAppInfo, TypeGetPublicKey,
       TypeSignTxFirst, TypeSignTxMore, TypeSignPersonalFirst, TypeSignPersonalMore
       DEF Handle
  <2> QED BY <1>1, <2>1, TypeBoot, TypeIoRecvCommand, TypeCatchOther DEF System
<1>2. CASE Receive
  BY <1>2, TypeReceive
<1>3. CASE User
  <2>1. ASSUME NEW choice \in BOOLEAN,
               ValidateTransaction(choice) \/ SignPersonal(choice)
        PROVE  TypeOK'
    BY <2>1, TypeSignOrDeny DEF ValidateTransaction, SignPersonal, Decides
  <2> QED BY <1>3, <2>1, TypeMoves, TypeMenus, TypeDismiss, TypeValidatePubkey DEF User
<1>4. CASE UsbReset \/ PowerLoss \/ Quit
  BY <1>4, TypeUsbReset, TypeRestart DEF PowerLoss, Quit
<1>5. CASE UNCHANGED vars
  BY <1>5 DEF vars, ioVars, appVars, uiVars, TypeOK
<1> QED BY <1>1, <1>2, <1>3, <1>4, <1>5 DEF Next

\* Every variable keeps its type, remaining_length included, for any number
\* of commands and any message length.
THEOREM TypeCorrect == Spec => []TypeOK
<1>1. Init => TypeOK
  BY TypeInit
<1>2. TypeOK /\ [Next]_vars => TypeOK'
  BY TypeNext
<1> QED BY <1>1, <1>2, PTL DEF Spec

\* G_context, the screen and what they depend on stay as they are.
Untouched == UNCHANGED << appVars, uiVars, settings >>

-----------------------------------------------------------------------------
\* IoInv.

\* io_send_response leaves G_io_state READY.
LEMMA SendReady ==
  ASSUME NEW r, IoSendResponse(r)
  PROVE  IoInv'
BY DEF IoSendResponse, IoInv

\* A handler that sends nothing leaves G_io_state as receiving set it.
LEMMA IoHandlers ==
  ASSUME TypeOK, IoInv, pc = "dispatch", UNCHANGED ioVars, pc' \in {"recv", "catch"}
  PROVE  IoInv'
BY DEF IoInv, ioVars

\* What every handler that does not reply leaves to the loop.
LEMMA TxChunkPc ==
  ASSUME NEW c, NEW scr, NEW n, ProcessTxChunk(c, scr, n)
  PROVE  pc' \in {"recv", "catch"}
BY DEF ProcessTxChunk, UiSignTx, ShowBlindSignError, ShowReview, FailWith, Return, Throw

\* A message chunk ends in the loop or in its catch.
LEMMA MsgChunkPc ==
  ASSUME NEW c, NEW scr, NEW n, ProcessMsgChunk(c, scr, n)
  PROVE  pc' \in {"recv", "catch"}
BY DEF ProcessMsgChunk, UiSignPersonal, ShowBlindSignError, ShowReview, FailWith,
       Return, Throw

\* The signing handlers send no reply and touch no settings themselves.
LEMMA SignHandlers ==
  ASSUME NEW h \in Accepted,
         \/ SignTxFirst(h) \/ SignTxMore(h)
         \/ SignPersonalFirst(h) \/ SignPersonalMore(h)
  PROVE  pc' \in {"recv", "catch"} /\ UNCHANGED << ioVars, cmdId, settings >>
<1>1. CASE SignTxFirst(h)
  BY <1>1, TxChunkPc DEF SignTxFirst, FailWith, Throw
<1>2. CASE SignTxMore(h)
  BY <1>2, TxChunkPc DEF SignTxMore, FailWith, Throw
<1>3. CASE SignPersonalFirst(h)
  BY <1>3, MsgChunkPc DEF SignPersonalFirst, FailWith, Throw
<1>4. CASE SignPersonalMore(h)
  BY <1>4, MsgChunkPc DEF SignPersonalMore, FailWith, Throw
<1> QED BY <1>1, <1>2, <1>3, <1>4

\* Every step keeps IoInv.
LEMMA IoNext ==
  ASSUME TypeOK, IoInv, [Next]_vars
  PROVE  IoInv'
<1>1. CASE Boot
  BY <1>1 DEF Boot, IoInv
<1>2. CASE IoRecvCommand
  BY <1>2 DEF IoRecvCommand, RecvState, IoInv, TypeOK
<1>3. CASE CatchOther \/ CmdMalformed
  BY <1>3, SendReady DEF CatchOther, CmdMalformed
<1>4. CASE Handle
  <2>1. ASSUME NEW sw \in Refusals, CmdRejected(sw)
        PROVE  IoInv'
    BY <1>4, <2>1, IoHandlers DEF CmdRejected, Throw, Handle
  <2>2. ASSUME NEW h \in Accepted, GetAppInfo(h)
        PROVE  IoInv'
    BY <2>2, SendReady DEF GetAppInfo
  <2>3. ASSUME NEW h \in Accepted, GetPublicKey(h)
        PROVE  IoInv'
    BY <1>4, <2>3, SendReady, IoHandlers DEF GetPublicKey, Throw, Return, Handle
  <2> QED BY <1>3, <1>4, <2>1, <2>2, <2>3, SignHandlers, IoHandlers DEF Handle
<1>5. CASE Receive
  BY <1>5 DEF Receive, StateOnReturn, IoInv, TypeOK
<1>6. CASE PressRight \/ PressLeft
  BY <1>6 DEF PressRight, PressLeft, MoveTo, IoInv, ioVars
<1>7. CASE OpenSettings \/ OpenAbout \/ Back \/ ToggleBlindSigning \/ ToggleDetailedDisplay
  BY <1>7 DEF OpenSettings, OpenAbout, Back, ToggleBlindSigning,
     ToggleDetailedDisplay, Menu, IoInv, ioVars
<1>8. CASE DismissBlindSignError
  BY <1>8 DEF DismissBlindSignError, Throw, IoInv
<1>9. ASSUME NEW choice \in BOOLEAN, ValidatePubkey(choice)
      PROVE  IoInv'
  BY <1>9, SendReady DEF ValidatePubkey, Throw, IoInv
<1>10. ASSUME NEW choice \in BOOLEAN, SignOrDeny(choice)
       PROVE  IoInv'
  BY <1>10, SendReady DEF SignOrDeny, SignDigest, ThrowIdle, Throw, IoInv
<1>11. CASE UsbReset \/ PowerLoss \/ Quit
  BY <1>11 DEF UsbReset, PowerLoss, Quit, Restart, IoInv
<1>12. CASE UNCHANGED vars
  BY <1>12 DEF vars, ioVars, IoInv
<1> QED BY <1>1, <1>2, <1>3, <1>4, <1>5, <1>6, <1>7, <1>8, <1>9, <1>10, <1>11, <1>12
        DEF Next, System, User, ValidateTransaction, SignPersonal

\* app_main never leaves its loop through the WAITING branch of
\* io_recv_command.
THEOREM NeverWaitingInRecv == Spec => []RecvNeverWaiting
<1>1. Init => IoInv
  BY DEF Init, IoInv
<1>2. TypeOK /\ IoInv /\ [Next]_vars => IoInv'
  BY IoNext
<1>3. IoInv => RecvNeverWaiting
  BY DEF IoInv, RecvNeverWaiting
<1> QED BY <1>1, <1>2, <1>3, TypeCorrect, PTL DEF Spec

-----------------------------------------------------------------------------
\* SessionInv: first the ways a step can treat the session.

\* The reset shows the main menu.
LEMMA MainMenuFlow == MainMenu.flow = "main_menu"
BY DEF MainMenu, Show

\* Menus, reviews and the error screen are different flows.
LEMMA FlowKinds ==
  /\ MenuFlows \cap ReviewFlows = {}
  /\ "error_blind_sign" \notin ReviewFlows
  /\ TxFlows \cup MsgFlows \cup {"get_pubkey"} = ReviewFlows
  /\ TxFlows \cap MsgFlows = {}
  /\ "get_pubkey" \notin TxFlows \cup MsgFlows
BY DEF MenuFlows, ReviewFlows, TxFlows, MsgFlows

\* A step that touches neither session nor screen keeps SessionInv.
LEMMA SessionUntouched ==
  ASSUME SessionInv, Untouched, Settled' => Settled
  PROVE  SessionInv'
BY DEF SessionInv, Untouched, appVars, uiVars, PubkeyReview, TxReview, MsgReview,
       BlindSignGate

\* reset_app_context establishes SessionInv from any state.
LEMMA SessionReset ==
  ASSUME appState' = "IDLE", ctx' = ZeroCtx, screen' = MainMenu
  PROVE  SessionInv'
BY MainMenuFlow, FlowKinds
   DEF SessionInv, PubkeyReview, TxReview, MsgReview, BlindSignGate, MenuFlows

\* A step that ends on a screen that is no review, in a session it opened
\* or left alone.
LEMMA SessionNoReview ==
  ASSUME screen'.flow \notin ReviewFlows,
         appState' = "IDLE" => ctx' = ZeroCtx,
         appState' = "SIGNING_PERSONAL" => ctx'.fed + ctx'.remaining = ctx'.declared
  PROVE  SessionInv'
BY FlowKinds
   DEF SessionInv, PubkeyReview, TxReview, MsgReview, BlindSignGate

\* A step that throws an error with the review still on the screen.
LEMMA SessionThrow ==
  ASSUME SessionInv, pc' = "catch", exc'.sw # "OK", UNCHANGED << screen, settings >>,
         screen.flow \in TxFlows => ctx'.data = ctx.data,
         appState' = "SIGNING_PERSONAL" => ctx'.fed + ctx'.remaining = ctx'.declared
  PROVE  SessionInv'
BY DEF SessionInv, Settled, BlindSignGate

\* What a handler that starts afresh finds.
LEMMA Fresh ==
  ASSUME SessionInv, pc = "dispatch"
  PROVE  FreshCtx = ZeroCtx /\ FreshScreen.flow \notin ReviewFlows
<1>1. FreshCtx = ZeroCtx
  BY DEF SessionInv, Settled, FreshCtx
<1>2. CASE appState = "IDLE"
  BY <1>1, <1>2, FlowKinds
     DEF SessionInv, Settled, FreshScreen, PubkeyReview, TxReview, MsgReview
<1>3. CASE appState # "IDLE"
  BY <1>1, <1>3, MainMenuFlow, FlowKinds DEF FreshScreen, MenuFlows
<1> QED BY <1>1, <1>2, <1>3

\* The counters of a context just wiped or opened.
LEMMA ZeroFields ==
  /\ ZeroCtx.fed = 0 /\ ZeroCtx.remaining = 0 /\ ZeroCtx.declared = 0
  /\ [ZeroCtx EXCEPT !.sess = cmdId].fed = 0
  /\ [ZeroCtx EXCEPT !.sess = cmdId].remaining = 0
  /\ [ZeroCtx EXCEPT !.sess = cmdId].declared = 0
BY DEF ZeroCtx

\* The context and the screen a signing handler goes on with: a fresh
\* session, or the one under way.
Resumes(state, c, scr) ==
  \/ scr.flow \notin ReviewFlows
  \/ /\ scr = screen
     /\ appState = state
     /\ c.sess = ctx.sess /\ c.digest = ctx.digest /\ c.data = ctx.data
     /\ c.phase = "head" => ctx.phase = "head"

\* The digest is taken from what was hashed for the session.
LEMMA FinalizeFields ==
  ASSUME NEW c \in Contexts
  PROVE  /\ FinalizeHash(c).digest.sess = c.sess
         /\ FinalizeHash(c).digest.fed = c.fed
         /\ FinalizeHash(c).digest.declared = c.declared
         /\ FinalizeHash(c).sess = c.sess
         /\ FinalizeHash(c).fed = c.fed
         /\ FinalizeHash(c).remaining = c.remaining
         /\ FinalizeHash(c).declared = c.declared
         /\ FinalizeHash(c).data = c.data
         /\ FinalizeHash(c).phase = c.phase
BY DEF FinalizeHash, Contexts

\* handler_sign_tx up to its end: review, blind-signing error, next chunk or
\* parser error.
LEMMA SessionTxFinished ==
  ASSUME TypeOK, SessionInv, pc = "dispatch", appState' = "SIGNING_TX",
         UNCHANGED settings, NEW c \in Contexts, NEW scr,
         Resumes("SIGNING_TX", c, scr),
         c.phase # "head", UiSignTx(c, scr)
  PROVE  SessionInv'
<1>1. CASE BlindSignRefused(c.data)
  <2>1. screen'.flow = "error_blind_sign"
    BY <1>1 DEF UiSignTx, ShowBlindSignError, Show
  <2> QED BY <2>1, FlowKinds, SessionNoReview
<1>2. CASE ~BlindSignRefused(c.data)
  <2>1. c.data => settings'.blind
    BY <1>2 DEF BlindSignRefused
  <2>2. /\ ctx' = FinalizeHash(c)
        /\ strings' = [kind |-> "tx", sess |-> c.sess, fed |-> c.fed]
    BY <1>2 DEF UiSignTx, ShowReview
  <2>3. CASE Return /\ callback' = "tx" /\ \E f \in TxFlows : screen' = Show(f, 1, cmdId)
    <3>1. screen'.flow \in TxFlows /\ pc' = "recv"
      BY <2>3 DEF Show, Return
    <3>2. TxReview'
      BY <2>2, <2>3, FinalizeFields DEF TxReview
    <3> QED BY <2>1, <2>2, <3>1, <3>2, FinalizeFields, FlowKinds
            DEF SessionInv, PubkeyReview, MsgReview, BlindSignGate
  <2>4. CASE Throw("DISPLAY_FAIL", cmdId) /\ screen' = scr
    <3>1. pc' = "catch" /\ exc'.sw # "OK"
      BY <2>4 DEF Throw
    <3>2. scr.flow \notin MsgFlows
      BY FlowKinds DEF Resumes, SessionInv, Settled, MsgReview
    <3> QED BY <2>1, <2>2, <2>4, <3>1, <3>2, FinalizeFields
            DEF SessionInv, Settled, BlindSignGate
  <2>5. \/ Return /\ callback' = "tx" /\ \E f \in TxFlows : screen' = Show(f, 1, cmdId)
        \/ Throw("DISPLAY_FAIL", cmdId) /\ screen' = scr
    BY <1>2 DEF UiSignTx, ShowReview, TxFlows
  <2> QED BY <2>3, <2>4, <2>5
<1> QED BY <1>1, <1>2

\* A transaction under review is past the fields that set data_present.
LEMMA ResumedTx ==
  ASSUME SessionInv, pc = "dispatch", NEW c, NEW scr, Resumes("SIGNING_TX", c, scr),
         scr.flow \in ReviewFlows
  PROVE  scr = screen /\ screen.flow \in TxFlows /\ TxReview /\ c.phase # "head"
BY FlowKinds DEF Resumes, SessionInv, Settled, PubkeyReview, MsgReview

\* The parser never goes back to the fields ahead of V.
LEMMA OnwardsPastHead ==
  ASSUME NEW phase \in Phases, phase # "head"
  PROVE  "head" \notin Onwards(phase)
BY DEF Onwards, Phases

\* A transaction chunk: the review shows what the digest covers.
LEMMA SessionTxChunk ==
  ASSUME TypeOK, SessionInv, pc = "dispatch", appState' = "SIGNING_TX",
         UNCHANGED settings, NEW c \in Contexts, NEW scr,
         Resumes("SIGNING_TX", c, scr), NEW n \in {0, 1}, ProcessTxChunk(c, scr, n)
  PROVE  SessionInv'
<1> DEFINE Parsed(o, data) ==
      [c EXCEPT !.phase = o.phase, !.data = data,
                !.fed = IF c.phase = "done" THEN @ ELSE @ + n]
<1>1. PICK o \in TxOutcomes(c.phase, n), data \in BOOLEAN :
        /\ (c.phase # "head" \/ n = 0) => data = c.data
        /\ \/ o.status = "FINISHED" /\ UiSignTx(Parsed(o, data), scr)
           \/ FailWith("OK", Parsed(o, data), scr)
           \/ FailWith("TX_PARSING_FAIL", Parsed(o, data), scr)
  BY Zenon DEF ProcessTxChunk
<1> DEFINE parsed == Parsed(o, data)
           fed == IF c.phase = "done" THEN c.fed ELSE c.fed + n
<1>2. /\ parsed \in Contexts
      /\ parsed.sess = c.sess /\ parsed.digest = c.digest
      /\ parsed.data = data /\ parsed.phase = o.phase
  <2>1. o.phase \in Phases
    BY OnwardsType DEF TxOutcomes, Contexts
  <2>2. fed \in Nat
    BY DEF Contexts
  <2>3. parsed = [c EXCEPT !.phase = o.phase, !.data = data, !.fed = fed]
    OBVIOUS
  <2> HIDE DEF parsed, fed
  <2> QED BY <2>1, <2>2, <2>3 DEF Contexts
<1>3. c.phase # "head" => o.phase # "head"
  BY OnwardsPastHead DEF TxOutcomes, Contexts
<1>4. o.status = "FINISHED" => o.phase # "head"
  BY DEF TxOutcomes
<1> HIDE DEF Parsed, parsed
<1>5. CASE scr.flow \notin ReviewFlows
  <2>1. CASE o.status = "FINISHED" /\ UiSignTx(parsed, scr)
    BY <1>2, <1>4, <1>5, <2>1, SessionTxFinished DEF Resumes
  <2>2. CASE FailWith("OK", parsed, scr) \/ FailWith("TX_PARSING_FAIL", parsed, scr)
    BY <1>5, <2>2, SessionNoReview DEF FailWith
  <2> QED BY <1>1, <2>1, <2>2 DEF parsed
<1>6. CASE scr.flow \in ReviewFlows
  <2>1. scr = screen /\ screen.flow \in TxFlows /\ TxReview /\ c.phase # "head"
    BY <1>6, ResumedTx
  <2>2. c.sess = ctx.sess /\ c.digest = ctx.digest /\ data = ctx.data
    BY <1>1, <1>6, <2>1 DEF Resumes
  <2>3. CASE o.status = "FINISHED" /\ UiSignTx(parsed, scr)
    <3>1. Resumes("SIGNING_TX", parsed, scr)
      BY <1>2, <1>3, <1>6, <2>1, <2>2 DEF Resumes
    <3> QED BY <1>2, <1>3, <2>1, <2>3, <3>1, SessionTxFinished
  <2>4. CASE FailWith("OK", parsed, scr)
    <3>1. /\ ctx' = parsed /\ screen' = screen
          /\ UNCHANGED << callback, strings >>
      BY <2>1, <2>4 DEF FailWith
    <3>2. TxReview'
      BY <1>2, <2>1, <2>2, <3>1 DEF TxReview
    <3> QED BY <1>2, <1>3, <2>1, <2>2, <3>1, <3>2, FlowKinds
            DEF SessionInv, PubkeyReview, MsgReview, BlindSignGate
  <2>5. CASE FailWith("TX_PARSING_FAIL", parsed, scr)
    BY <1>2, <2>1, <2>2, <2>5, SessionThrow DEF FailWith, Throw
  <2> QED BY <1>1, <2>3, <2>4, <2>5 DEF parsed
<1> QED BY <1>5, <1>6

\* handler_sign_personal up to its end.
LEMMA SessionMsgFinished ==
  ASSUME TypeOK, SessionInv, pc = "dispatch", appState' = "SIGNING_PERSONAL",
         UNCHANGED settings, NEW c \in Contexts, NEW scr,
         c.remaining = 0, c.fed = c.declared,
         scr.flow \notin TxFlows, UiSignPersonal(c, scr)
  PROVE  SessionInv'
<1>1. ctx' = FinalizeHash(c)
  BY DEF UiSignPersonal
<1>2. ctx'.fed + ctx'.remaining = ctx'.declared
  BY <1>1, FinalizeFields DEF Contexts
<1>3. CASE ~settings.blind
  <2>1. screen'.flow = "error_blind_sign"
    BY <1>3 DEF UiSignPersonal, BlindSignRefused, ShowBlindSignError, Show
  <2> QED BY <1>2, <2>1, FlowKinds, SessionNoReview
<1>4. CASE settings.blind
  <2>1. strings' = [kind |-> "msg", sess |-> c.sess, fed |-> c.fed]
    BY <1>4 DEF UiSignPersonal, BlindSignRefused, ShowReview
  <2>2. CASE Return /\ callback' = "msg" /\ \E f \in MsgFlows : screen' = Show(f, 1, cmdId)
    <3>1. screen'.flow \in MsgFlows /\ pc' = "recv"
      BY <2>2 DEF Show, Return
    <3>2. MsgReview'
      BY <1>1, <2>1, <2>2, FinalizeFields DEF MsgReview
    <3> QED BY <1>2, <1>4, <3>1, <3>2, FlowKinds
            DEF SessionInv, PubkeyReview, TxReview, BlindSignGate
  <2>3. CASE Throw("DISPLAY_FAIL", cmdId) /\ screen' = scr
    BY <1>2, <1>4, <2>3 DEF Throw, SessionInv, Settled, BlindSignGate
  <2>4. \/ Return /\ callback' = "msg" /\ \E f \in MsgFlows : screen' = Show(f, 1, cmdId)
        \/ Throw("DISPLAY_FAIL", cmdId) /\ screen' = scr
    BY <1>4 DEF UiSignPersonal, BlindSignRefused, ShowReview, MsgFlows
  <2> QED BY <2>2, <2>3, <2>4
<1> QED BY <1>3, <1>4

\* A message chunk: the review shows the whole announced message.
LEMMA SessionMsgChunk ==
  ASSUME TypeOK, SessionInv, pc = "dispatch", appState' = "SIGNING_PERSONAL",
         UNCHANGED settings, NEW c \in Contexts, NEW scr,
         Resumes("SIGNING_PERSONAL", c, scr), c.fed + c.remaining = c.declared,
         NEW n \in Nat, ProcessMsgChunk(c, scr, n)
  PROVE  SessionInv'
<1> DEFINE fed == c.fed + n
           remaining == c.remaining - n
           hashed == [c EXCEPT !.fed = fed, !.remaining = remaining]
<1>1. scr.flow \in ReviewFlows =>
        scr = screen /\ screen.flow \in MsgFlows /\ MsgReview
  BY FlowKinds DEF Resumes, SessionInv, Settled, PubkeyReview, TxReview
<1>2. CASE n > c.remaining
  <2>1. FailWith("WRONG_DATA_LENGTH", c, scr)
    BY <1>2 DEF ProcessMsgChunk
  <2>2. CASE scr.flow \notin ReviewFlows
    BY <2>1, <2>2, SessionNoReview DEF FailWith
  <2>3. CASE scr.flow \in ReviewFlows
    BY <1>1, <2>1, <2>3, FlowKinds, SessionThrow DEF FailWith, Throw
  <2> QED BY <2>2, <2>3
<1>3. CASE ~(n > c.remaining)
  <2>1. fed \in Nat /\ remaining \in Nat /\ fed + remaining = c.declared
    BY <1>3 DEF Contexts
  <2>2. \/ remaining > 0 /\ FailWith("OK", hashed, scr)
        \/ remaining = 0 /\ UiSignPersonal(hashed, scr)
    <3>1. hashed.remaining = remaining
      BY DEF Contexts
    <3>2. \/ hashed.remaining > 0 /\ FailWith("OK", hashed, scr)
          \/ ~(hashed.remaining > 0) /\ UiSignPersonal(hashed, scr)
      BY <1>3, Zenon DEF ProcessMsgChunk
    <3> HIDE DEF hashed, fed
    <3> QED BY <2>1, <3>1, <3>2
  <2> HIDE DEF fed, remaining
  <2>3. /\ hashed \in Contexts
        /\ hashed.sess = c.sess /\ hashed.digest = c.digest
        /\ hashed.fed = fed /\ hashed.remaining = remaining
        /\ hashed.declared = c.declared
    BY <2>1 DEF Contexts
  <2> HIDE DEF hashed
  <2>4. CASE remaining = 0 /\ UiSignPersonal(hashed, scr)
    <3>1. fed = c.declared
      BY <2>1, <2>4
    <3>2. scr.flow \notin TxFlows
      BY <1>1, FlowKinds
    <3> QED BY <2>3, <2>4, <3>1, <3>2, SessionMsgFinished
  <2>5. CASE FailWith("OK", hashed, scr)
    <3>1. ctx' = hashed /\ screen' = scr /\ UNCHANGED << callback, strings >>
      BY <2>5 DEF FailWith
    <3>2. ctx'.fed + ctx'.remaining = ctx'.declared
      BY <2>1, <2>3, <3>1
    <3>3. CASE scr.flow \notin ReviewFlows
      BY <3>1, <3>2, <3>3, SessionNoReview
    <3>4. CASE scr.flow \in ReviewFlows
      <4>1. MsgReview'
        BY <1>1, <2>3, <3>1, <3>4, FlowKinds DEF MsgReview, Resumes
      <4> QED BY <1>1, <3>1, <3>2, <3>4, <4>1, FlowKinds
              DEF SessionInv, PubkeyReview, TxReview, BlindSignGate
    <3> QED BY <3>3, <3>4
  <2> QED BY <2>2, <2>4, <2>5
<1> QED BY <1>2, <1>3

-----------------------------------------------------------------------------
\* SessionInv: the handlers.

\* handler_get_public_key keeps SessionInv.
LEMMA SessionGetPublicKey ==
  ASSUME TypeOK, SessionInv, pc = "dispatch", NEW h \in Accepted, GetPublicKey(h)
  PROVE  SessionInv'
<1>1. appState' = "GETTING_PUBKEY" /\ ctx'.sess = cmdId
  BY FreshType DEF GetPublicKey, Contexts
<1>2. CASE screen' = FreshScreen
  BY <1>1, <1>2, Fresh, SessionNoReview
<1>3. CASE /\ screen' = Show("get_pubkey", 1, cmdId)
           /\ callback' = "pubkey"
           /\ strings' = [kind |-> "pubkey", sess |-> cmdId, fed |-> 0]
  <2>1. screen'.flow = "get_pubkey"
    BY <1>3 DEF Show
  <2>2. PubkeyReview'
    BY <1>1, <1>3 DEF PubkeyReview
  <2> QED BY <1>1, <2>1, <2>2, FlowKinds
          DEF SessionInv, TxReview, MsgReview, BlindSignGate
<1> QED BY <1>2, <1>3 DEF GetPublicKey

\* The first chunk of a transaction keeps SessionInv.
LEMMA SessionSignTxFirst ==
  ASSUME TypeOK, SessionInv, pc = "dispatch", NEW h \in Accepted, SignTxFirst(h)
  PROVE  SessionInv'
<1>1. CASE h.lc = 0
  BY <1>1, SessionThrow DEF SignTxFirst, FailWith, Throw, SessionInv
<1>2. CASE h.lc # 0
  <2> DEFINE opened == [FreshCtx EXCEPT !.sess = cmdId]
             parsing == [opened EXCEPT !.phase = "head", !.fed = 0, !.finals = 0]
  <2>1. parsing \in Contexts
    <3>1. opened \in Contexts
      BY OpenedType
    <3> HIDE DEF opened
    <3> QED BY <3>1 DEF Contexts, Phases
  <2>2. /\ appState' = "SIGNING_TX"
        /\ \/ FailWith("WRONG_DATA_LENGTH", opened, FreshScreen)
           \/ \E n \in {0, 1} : ProcessTxChunk(parsing, FreshScreen, n)
        /\ UNCHANGED settings
    BY <1>2, Zenon DEF SignTxFirst
  <2> HIDE DEF opened, parsing
  <2>3. CASE FailWith("WRONG_DATA_LENGTH", opened, FreshScreen)
    BY <2>2, <2>3, Fresh, SessionNoReview DEF FailWith
  <2>4. CASE \E n \in {0, 1} : ProcessTxChunk(parsing, FreshScreen, n)
    BY <2>1, <2>2, <2>4, Fresh, SessionTxChunk DEF Resumes
  <2> QED BY <2>2, <2>3, <2>4
<1> QED BY <1>1, <1>2

\* A further chunk of a transaction keeps SessionInv.
LEMMA SessionSignTxMore ==
  ASSUME TypeOK, SessionInv, pc = "dispatch", NEW h \in Accepted, SignTxMore(h)
  PROVE  SessionInv'
<1>1. CASE FailWith("BAD_STATE", ctx, screen)
  BY <1>1, SessionThrow DEF SignTxMore, FailWith, Throw, SessionInv
<1>2. CASE appState = "SIGNING_TX" /\ ProcessTxChunk(ctx, screen, h.lc)
  <2>1. h.lc \in {0, 1} /\ ctx \in Contexts
    BY DEF Accepted, Headers, TypeOK
  <2> QED BY <1>2, <2>1, SessionTxChunk DEF SignTxMore, Resumes
<1> QED BY <1>1, <1>2 DEF SignTxMore

\* The first chunk of a message keeps SessionInv.
LEMMA SessionSignPersonalFirst ==
  ASSUME TypeOK, SessionInv, pc = "dispatch", NEW h \in Accepted, SignPersonalFirst(h)
  PROVE  SessionInv'
<1>1. CASE h.lc = 0
  BY <1>1, SessionThrow DEF SignPersonalFirst, FailWith, Throw, SessionInv
<1>2. CASE h.lc # 0
  <2> DEFINE opened == [FreshCtx EXCEPT !.sess = cmdId]
             Announced(declared) ==
               [opened EXCEPT !.declared = declared, !.remaining = declared,
                              !.fed = 0, !.finals = 0]
  <2>1. opened \in Contexts
    BY OpenedType
  <2>2. opened.fed + opened.remaining = opened.declared
    BY Fresh, ZeroFields
  <2>3. \A declared \in Nat :
          /\ Announced(declared) \in Contexts
          /\ Announced(declared).fed + Announced(declared).remaining
               = Announced(declared).declared
    <3> HIDE DEF opened
    <3> TAKE declared \in Nat
    <3>1. Announced(declared) \in Contexts
      BY <2>1 DEF Contexts
    <3>2. /\ Announced(declared).fed = 0
          /\ Announced(declared).remaining = declared
          /\ Announced(declared).declared = declared
      BY <2>1 DEF Contexts
    <3> QED BY <3>1, <3>2
  <2>4. /\ appState' = "SIGNING_PERSONAL"
        /\ \/ \E sw \in { "WRONG_DATA_LENGTH", "INVALID_DATA" } :
                FailWith(sw, opened, FreshScreen)
           \/ \E declared, n \in 0..MaxMsg :
                ProcessMsgChunk(Announced(declared), FreshScreen, n)
        /\ UNCHANGED settings
    BY <1>2, Zenon DEF SignPersonalFirst
  <2> HIDE DEF opened, Announced
  <2>5. CASE \E sw \in { "WRONG_DATA_LENGTH", "INVALID_DATA" } :
               FailWith(sw, opened, FreshScreen)
    BY <2>2, <2>4, <2>5, Fresh, SessionNoReview DEF FailWith
  <2>6. CASE \E declared, n \in 0..MaxMsg :
               ProcessMsgChunk(Announced(declared), FreshScreen, n)
    <3>1. 0..MaxMsg \subseteq Nat
      BY BoundsAssumption
    <3> QED BY <2>3, <2>4, <2>6, <3>1, Fresh, SessionMsgChunk DEF Resumes
  <2> QED BY <2>4, <2>5, <2>6
<1> QED BY <1>1, <1>2

\* A further chunk of a message keeps SessionInv.
LEMMA SessionSignPersonalMore ==
  ASSUME TypeOK, SessionInv, pc = "dispatch", NEW h \in Accepted, SignPersonalMore(h)
  PROVE  SessionInv'
<1>1. CASE FailWith("BAD_STATE", ctx, screen)
  BY <1>1, SessionThrow DEF SignPersonalMore, FailWith, Throw, SessionInv
<1>2. CASE /\ appState = "SIGNING_PERSONAL"
           /\ \E n \in 0..MaxMsg : ProcessMsgChunk(ctx, screen, n)
  <2>1. 0..MaxMsg \subseteq Nat /\ ctx \in Contexts
    BY BoundsAssumption DEF TypeOK
  <2>2. ctx.fed + ctx.remaining = ctx.declared
    BY <1>2 DEF SessionInv
  <2> QED BY <1>2, <2>1, <2>2, SessionMsgChunk DEF SignPersonalMore, Resumes
<1> QED BY <1>1, <1>2 DEF SignPersonalMore

\* Every command keeps SessionInv.
LEMMA SessionHandle ==
  ASSUME TypeOK, SessionInv, Handle
  PROVE  SessionInv'
<1>1. CASE CmdMalformed
  BY <1>1, SessionUntouched DEF CmdMalformed, Handle, Settled, Untouched
<1>2. ASSUME NEW sw \in Refusals, CmdRejected(sw)
      PROVE  SessionInv'
  BY <1>2, SessionUntouched DEF CmdRejected, Handle, Settled, Untouched
<1>3. ASSUME NEW h \in Accepted, GetAppInfo(h)
      PROVE  SessionInv'
  BY <1>3, Fresh, SessionNoReview DEF GetAppInfo, Handle
<1> QED BY <1>1, <1>2, <1>3, SessionGetPublicKey, SessionSignTxFirst,
           SessionSignTxMore, SessionSignPersonalFirst, SessionSignPersonalMore
        DEF Handle

-----------------------------------------------------------------------------
\* SessionInv: the loop, the buttons, the environment.

\* app_main's catch keeps or restores SessionInv.
LEMMA SessionCatch ==
  ASSUME TypeOK, SessionInv, CatchOther
  PROVE  SessionInv'
<1>1. CASE exc.sw = "OK"
  <2>1. Untouched
    BY <1>1 DEF CatchOther, KeepsContext, Untouched, appVars, uiVars
  <2> QED BY <1>1, <2>1, SessionUntouched DEF Settled
<1>2. CASE exc.sw # "OK"
  BY <1>2, SessionReset DEF CatchOther, KeepsContext, ResetAppContext
<1> QED BY <1>1, <1>2

\* The left and right buttons keep SessionInv.
LEMMA SessionMoves ==
  ASSUME TypeOK, SessionInv, PressRight \/ PressLeft
  PROVE  SessionInv'
<1>1. /\ screen'.flow = screen.flow /\ pc = "wait" /\ pc' = pc
      /\ UNCHANGED << appVars, callback, strings, settings >>
  BY DEF PressRight, PressLeft, MoveTo, TypeOK, Screens
<1> QED BY <1>1
        DEF SessionInv, Settled, appVars, PubkeyReview, TxReview, MsgReview, BlindSignGate

\* The menus keep SessionInv: no review is up while they are.
LEMMA SessionMenus ==
  ASSUME TypeOK, SessionInv,
         \/ OpenSettings \/ OpenAbout \/ Back
         \/ ToggleBlindSigning \/ ToggleDetailedDisplay
  PROVE  SessionInv'
<1>1. screen'.flow \in MenuFlows
  BY DEF OpenSettings, OpenAbout, Back, ToggleBlindSigning, ToggleDetailedDisplay,
     Menu, Show, MainMenu, MenuFlows
<1>2. pc = "wait" /\ UNCHANGED appVars
  BY DEF OpenSettings, OpenAbout, Back, ToggleBlindSigning, ToggleDetailedDisplay,
     Menu, At
<1> QED BY <1>1, <1>2, FlowKinds, SessionNoReview DEF SessionInv, Settled, appVars

\* The user's decision keeps or ends the session as a whole.
LEMMA SessionDecisions ==
  ASSUME TypeOK, SessionInv, NEW choice \in BOOLEAN,
         ValidatePubkey(choice) \/ ValidateTransaction(choice) \/ SignPersonal(choice)
  PROVE  SessionInv'
<1>1. UNCHANGED settings
  BY DEF ValidatePubkey, ValidateTransaction, SignPersonal, Decides
<1>2. CASE ResetAppContext
  BY <1>2, SessionReset DEF ResetAppContext
<1>3. CASE Throw("DENY", screen.by) /\ UNCHANGED << appVars, screen >>
  BY <1>1, <1>3, SessionThrow DEF Throw, appVars, SessionInv
<1>4. CASE \E sw \in { "SIGNATURE_FAIL", "OS", "DENY" } : ThrowIdle(sw)
  BY <1>1, <1>4, SessionThrow DEF ThrowIdle, Throw
<1> QED BY <1>2, <1>3, <1>4
        DEF ValidatePubkey, ValidateTransaction, SignPersonal, SignOrDeny, SignDigest

\* Every step keeps SessionInv.
LEMMA SessionNext ==
  ASSUME TypeOK, SessionInv, [Next]_vars
  PROVE  SessionInv'
<1>1. CASE Boot \/ UNCHANGED vars \/ IoRecvCommand \/ Receive \/ UsbReset
  <2>1. CASE Boot
    BY <2>1, SessionReset DEF Boot
  <2>2. CASE IoRecvCommand \/ Receive \/ UsbReset
    BY <2>2, SessionUntouched DEF IoRecvCommand, Receive, UsbReset, Settled, Untouched
  <2>3. CASE UNCHANGED vars
    BY <2>3, SessionUntouched DEF vars, Settled, Untouched
  <2> QED BY <1>1, <2>1, <2>2, <2>3
<1>2. CASE DismissBlindSignError
  BY <1>2, SessionUntouched DEF DismissBlindSignError, At, Settled, Untouched
<1>3. CASE PowerLoss \/ Quit
  BY <1>3, SessionReset DEF PowerLoss, Quit, Restart
<1> QED BY <1>1, <1>2, <1>3, SessionHandle, SessionCatch, SessionMoves, SessionMenus,
           SessionDecisions
        DEF Next, System, User

\* SessionInv holds in every state.
LEMMA SessionInvariant == Spec => []SessionInv
<1>1. Init => SessionInv
  BY MainMenuFlow, FlowKinds DEF Init, SessionInv, PubkeyReview, TxReview, MsgReview,
     BlindSignGate, MenuFlows
<1>2. TypeOK /\ SessionInv /\ [Next]_vars => SessionInv'
  BY SessionNext
<1> QED BY <1>1, <1>2, TypeCorrect, PTL DEF Spec

\* APP_STATE_IDLE means a zeroed context wherever a handler looks at it.
THEOREM IdleWiped == Spec => []IdleMeansWiped
<1>1. SessionInv => IdleMeansWiped
  BY DEF SessionInv, IdleMeansWiped, Settled
<1> QED BY <1>1, SessionInvariant, PTL

\* Flow, callback, session, strings and digest of a review agree.
THEOREM ReviewConsistent == Spec => []ReviewMatchesContext
<1>1. SessionInv => ReviewMatchesContext
  BY DEF SessionInv, ReviewMatchesContext, Settled
<1> QED BY <1>1, SessionInvariant, PTL

\* A transaction flagged by the parser as having data, or a message, is up for
\* approval only while blind signing is enabled.  Of data that the parser does
\* not flag it says nothing.
THEOREM BlindSignGated == Spec => []BlindSignGate
<1>1. SessionInv => BlindSignGate
  BY DEF SessionInv
<1> QED BY <1>1, SessionInvariant, PTL

-----------------------------------------------------------------------------
\* SignedIsShown: a signature is built in one place.

\* Only an approval puts a signature into the buffer.
LEMMA ReplyOrigin ==
  ASSUME TypeOK, [Next]_vars
  PROVE  \/ reply' = reply
         \/ reply'.kind # "sig"
         \/ SignDigest /\ \E choice \in BOOLEAN :
                            ValidateTransaction(choice) \/ SignPersonal(choice)
<1>1. CASE Handle
  <2>1. CASE CmdMalformed
    BY <2>1 DEF CmdMalformed, IoSendResponse, MakeReply
  <2>2. ASSUME NEW h \in Accepted, GetAppInfo(h) \/ GetPublicKey(h)
        PROVE  reply' = reply \/ reply'.kind # "sig"
    BY <2>2 DEF GetAppInfo, GetPublicKey, IoSendResponse, MakeReply, ioVars
  <2>3. ASSUME NEW sw \in Refusals, CmdRejected(sw)
        PROVE  reply' = reply
    BY <2>3 DEF CmdRejected, ioVars
  <2> QED BY <1>1, <2>1, <2>2, <2>3, SignHandlers DEF Handle, ioVars
<1>2. CASE CatchOther
  BY <1>2 DEF CatchOther, IoSendResponse, MakeReply
<1>3. CASE Receive \/ PowerLoss \/ Quit
  BY <1>3 DEF Receive, PowerLoss, Quit, Restart, Raw, MakeReply
<1>4. CASE \E choice \in BOOLEAN :
             ValidatePubkey(choice) \/ ValidateTransaction(choice) \/ SignPersonal(choice)
  <2>1. ASSUME NEW choice \in BOOLEAN, ValidatePubkey(choice)
        PROVE  reply' = reply \/ reply'.kind # "sig"
    BY <2>1 DEF ValidatePubkey, IoSendResponse, MakeReply, ioVars
  <2>2. ASSUME NEW choice \in BOOLEAN, ValidateTransaction(choice) \/ SignPersonal(choice)
        PROVE  SignDigest \/ reply' = reply
    BY <2>2 DEF ValidateTransaction, SignPersonal, SignOrDeny, ThrowIdle, ioVars
  <2> QED BY <1>4, <2>1, <2>2
<1>5. CASE \/ PressRight \/ PressLeft \/ OpenSettings \/ OpenAbout \/ Back
           \/ ToggleBlindSigning \/ ToggleDetailedDisplay
           \/ DismissBlindSignError
  BY <1>5 DEF PressRight, PressLeft, MoveTo, OpenSettings, OpenAbout, Back, Menu,
     ToggleBlindSigning, ToggleDetailedDisplay, DismissBlindSignError, ioVars
<1>6. CASE Boot \/ IoRecvCommand \/ UsbReset \/ UNCHANGED vars
  BY <1>6 DEF Boot, IoRecvCommand, UsbReset, vars, ioVars
<1> QED BY <1>1, <1>2, <1>3, <1>4, <1>5, <1>6 DEF Next, System, User

\* What an approval signs is what the review showed.
LEMMA SignatureShown ==
  ASSUME TypeOK, SessionInv, SignDigest,
         \E choice \in BOOLEAN : ValidateTransaction(choice) \/ SignPersonal(choice)
  PROVE  SignedIsShown'
<1>1. /\ pc = "wait"
      /\ screen.flow \in ReviewFlows
      /\ callback \in {"tx", "msg"}
  BY DEF ValidateTransaction, SignPersonal, Decides, At
<1>2. /\ PubkeyReview /\ TxReview /\ MsgReview
  BY <1>1 DEF SessionInv, Settled
<1>3. /\ strings.kind \in {"tx", "msg"}
      /\ strings.sess = ctx.digest.sess
      /\ strings.fed = ctx.digest.fed
      /\ strings.kind = "msg" => ctx.digest.fed = ctx.digest.declared
  BY <1>1, <1>2, FlowKinds DEF PubkeyReview, TxReview, MsgReview
<1>4. reply'.digest = ctx.digest /\ reply'.shown = strings
  <2>1. reply' = [MakeReply("sig", "OK", screen.by)
                    EXCEPT !.digest = ctx.digest, !.shown = strings]
    BY DEF SignDigest, IoSendResponse
  <2> QED BY <2>1 DEF MakeReply
<1> QED BY <1>3, <1>4 DEF SignedIsShown

\* A signature covers what the screens showed, and a message as announced.
THEOREM SignsWhatIsShown == Spec => []SignedIsShown
<1>1. Init => SignedIsShown
  BY DEF Init, SignedIsShown, Raw, MakeReply
<1>2. TypeOK /\ SessionInv /\ SignedIsShown /\ [Next]_vars => SignedIsShown'
  BY ReplyOrigin, SignatureShown DEF SignedIsShown
<1> QED BY <1>1, <1>2, TypeCorrect, SessionInvariant, PTL DEF Spec

-----------------------------------------------------------------------------
\* SeenInv.

\* A flow just put up at its first step.
Opens == \E f \in Flows, by \in CmdIds : screen' = Show(f, 1, by)

\* A transaction chunk leaves the screen alone or opens a flow at its start.
LEMMA TxChunkScreen ==
  ASSUME TypeOK, NEW c, NEW scr, NEW n, ProcessTxChunk(c, scr, n)
  PROVE  screen' = scr \/ Opens
BY ZenonT(60) DEF ProcessTxChunk, UiSignTx, ShowBlindSignError, ShowReview, FailWith, TypeOK,
   Opens, Flows, ReviewFlows, TxFlows, MsgFlows

\* So does a message chunk.
LEMMA MsgChunkScreen ==
  ASSUME TypeOK, NEW c, NEW scr, NEW n, ProcessMsgChunk(c, scr, n)
  PROVE  screen' = scr \/ Opens
BY DEF ProcessMsgChunk, UiSignPersonal, ShowBlindSignError, ShowReview, FailWith,
   TypeOK, Opens, Flows, ReviewFlows, TxFlows, MsgFlows

\* The main menu is opened at its start.
LEMMA MainMenuOpens ==
  ASSUME screen' = MainMenu
  PROVE  Opens
BY BoundsAssumption DEF MainMenu, Opens, Flows, MenuFlows, CmdIds

\* So is whatever a handler's reset shows.
LEMMA FreshOpens ==
  ASSUME screen' = FreshScreen
  PROVE  screen' = screen \/ Opens
BY MainMenuOpens DEF FreshScreen

\* So is whatever a command shows.
LEMMA HandleScreen ==
  ASSUME TypeOK, Handle
  PROVE  screen' = screen \/ Opens
<1>1. CASE CmdMalformed \/ \E sw \in Refusals : CmdRejected(sw)
  BY <1>1 DEF CmdMalformed, CmdRejected, uiVars
<1>2. ASSUME NEW h \in Accepted, GetAppInfo(h)
      PROVE  screen' = screen \/ Opens
  BY <1>2, FreshOpens DEF GetAppInfo
<1>3. ASSUME NEW h \in Accepted, GetPublicKey(h)
      PROVE  screen' = screen \/ Opens
  BY <1>3, FreshOpens DEF GetPublicKey, Opens, Flows, ReviewFlows, TypeOK
<1>4. ASSUME NEW h \in Accepted, SignTxFirst(h) \/ SignTxMore(h)
      PROVE  screen' = screen \/ Opens
  BY <1>4, FreshOpens, TxChunkScreen DEF SignTxFirst, SignTxMore, FailWith
<1>5. ASSUME NEW h \in Accepted, SignPersonalFirst(h) \/ SignPersonalMore(h)
      PROVE  screen' = screen \/ Opens
  BY <1>5, FreshOpens, MsgChunkScreen DEF SignPersonalFirst, SignPersonalMore, FailWith
<1> QED BY <1>1, <1>2, <1>3, <1>4, <1>5 DEF Handle

\* A flow opened at its first step has shown that step.
LEMMA SeenOpens ==
  ASSUME Opens
  PROVE  SeenInv'
BY DEF Opens, Show, SeenInv

\* Without FLOW_LOOP a button moves to a neighbour.
LEMMA SeenMoves ==
  ASSUME TypeOK, SeenInv, PressRight \/ PressLeft
  PROVE  SeenInv'
<1>1. CASE screen.flow \notin ReviewFlows
  BY <1>1 DEF PressRight, PressLeft, MoveTo, SeenInv, TypeOK, Screens
<1>2. CASE screen.flow \in ReviewFlows
  <2>1. ~Loops(screen.flow)
    BY <1>2, FlowKinds DEF Loops
  <2>2. screen.step \in Nat /\ screen.flow \in Flows /\ Len(Steps(screen.flow)) \in Nat
    BY StepsNonempty DEF TypeOK, Screens
  <2>3. PICK i \in {screen.step + 1, screen.step - 1, screen.step} : MoveTo(i)
    BY <2>1, <2>2 DEF PressRight, PressLeft, StepRight, StepLeft
  <2>4. /\ screen'.flow = screen.flow
        /\ screen'.step = i
        /\ screen'.seen = screen.seen \cup {i}
    BY <1>2, <2>3 DEF MoveTo, TypeOK, Screens
  <2>5. 1..i \subseteq 1..screen.step \cup {i}
    BY <2>2
  <2> QED BY <1>2, <2>4, <2>5 DEF SeenInv
<1> QED BY <1>1, <1>2

\* Every step keeps SeenInv.
LEMMA SeenNext ==
  ASSUME TypeOK, SeenInv, [Next]_vars
  PROVE  SeenInv'
<1>1. CASE screen' = screen
  BY <1>1 DEF SeenInv
<1>2. CASE CatchOther \/ Boot \/ PowerLoss \/ Quit
  BY <1>1, <1>2, SeenOpens, MainMenuOpens
     DEF CatchOther, Boot, PowerLoss, Quit, Restart, ResetAppContext
<1>3. CASE \/ OpenSettings \/ OpenAbout \/ Back
           \/ ToggleBlindSigning \/ ToggleDetailedDisplay
  BY <1>3 DEF OpenSettings, OpenAbout, Back, ToggleBlindSigning, ToggleDetailedDisplay,
     Menu, MainMenu, Show, SeenInv, ReviewFlows, TxFlows, MsgFlows
<1>4. CASE \E choice \in BOOLEAN :
             ValidatePubkey(choice) \/ ValidateTransaction(choice) \/ SignPersonal(choice)
  BY <1>1, <1>4, SeenOpens, MainMenuOpens
     DEF ValidatePubkey, ValidateTransaction, SignPersonal, SignOrDeny, SignDigest,
         ThrowIdle, ResetAppContext
<1>5. CASE IoRecvCommand \/ Receive \/ DismissBlindSignError \/ UsbReset \/ UNCHANGED vars
  BY <1>1, <1>5 DEF IoRecvCommand, Receive, DismissBlindSignError, UsbReset, vars, uiVars
<1> QED BY <1>1, <1>2, <1>3, <1>4, <1>5, HandleScreen, SeenOpens, SeenMoves
        DEF Next, System, User

\* In each review the decisions come last.
LEMMA DecisionsLast ==
  ASSUME NEW f \in ReviewFlows, NEW i \in 1..Len(Steps(f)),
         Steps(f)[i] \in {"accept", "reject"}
  PROVE  DisplaySteps(f) \subseteq 1..i
<1>1. CASE f = "get_pubkey"
  BY <1>1 DEF DisplaySteps, Steps
<1>2. CASE f = "sign_tx_simple"
  BY <1>2 DEF DisplaySteps, Steps
<1>3. CASE f = "sign_tx_detailed"
  BY <1>3 DEF DisplaySteps, Steps
<1>4. CASE f = "sign_personal_simple"
  BY <1>4 DEF DisplaySteps, Steps
<1>5. CASE f = "sign_personal_detailed"
  BY <1>5 DEF DisplaySteps, Steps
<1> QED BY <1>1, <1>2, <1>3, <1>4, <1>5 DEF ReviewFlows, TxFlows, MsgFlows

\* No decision before every screen of the review was shown.
THEOREM DecisionAfterReview == Spec => []ReviewedBeforeDecision
<1>1. Init => SeenInv
  BY MainMenuFlow, FlowKinds DEF Init, SeenInv, MenuFlows
<1>2. TypeOK /\ SeenInv /\ [Next]_vars => SeenInv'
  BY SeenNext
<1>3. TypeOK /\ SeenInv => ReviewedBeforeDecision
  BY DecisionsLast DEF TypeOK, SeenInv, ReviewedBeforeDecision
<1> QED BY <1>1, <1>2, <1>3, TypeCorrect, PTL DEF Spec

-----------------------------------------------------------------------------
\* ErrorInv.

\* A handler transmits nothing, and what it leaves in the buffer is no error.
LEMMA ErrorHandle ==
  ASSUME TypeOK, IoInv, ErrorInv, Handle
  PROVE  ErrorInv'
<1>1. /\ pc = "dispatch" /\ ioState # "WAITING" /\ ~wire.sent
      /\ ~IsError(reply)
  BY DEF Handle, IoInv, ErrorInv, IsError, Raw, MakeReply
<1>2. ASSUME NEW kind \in {"frame", "info", "pubkey"}, NEW sw, NEW by,
             IoSendResponse(MakeReply(kind, sw, by)), pc' = "recv"
      PROVE  ErrorInv'
  BY <1>1, <1>2 DEF IoSendResponse, MakeReply, ErrorInv, IsError
<1>3. ASSUME UNCHANGED ioVars, pc' \in {"recv", "catch"}
      PROVE  ErrorInv'
  BY <1>1, <1>3 DEF ioVars, ErrorInv, IsError
<1>4. CASE CmdMalformed
  BY <1>2, <1>4 DEF CmdMalformed, Return
<1>5. ASSUME NEW sw \in Refusals, CmdRejected(sw)
      PROVE  ErrorInv'
  BY <1>3, <1>5 DEF CmdRejected, Throw
<1>6. ASSUME NEW h \in Accepted, GetAppInfo(h)
      PROVE  ErrorInv'
  BY <1>2, <1>6 DEF GetAppInfo, Return
<1>7. ASSUME NEW h \in Accepted, GetPublicKey(h)
      PROVE  ErrorInv'
  BY <1>2, <1>3, <1>7 DEF GetPublicKey, Return, Throw
<1> QED BY <1>3, <1>4, <1>5, <1>6, <1>7, SignHandlers DEF Handle

\* app_main's catch wipes the session before an error is sent.
LEMMA ErrorCatch ==
  ASSUME TypeOK, ErrorInv, CatchOther
  PROVE  ErrorInv'
<1>1. pc = "catch" /\ pc' = "recv"
  BY DEF CatchOther
<1>2. reply'.kind = "sw" /\ reply'.sw = exc.sw
  BY DEF CatchOther, IoSendResponse, MakeReply
<1>3. (wire'.reply = reply') \/ wire' = wire
  BY DEF CatchOther, IoSendResponse, Transmit
<1>4. CASE exc.sw = "OK"
  <2>1. Wiped => Wiped'
    BY <1>4 DEF CatchOther, KeepsContext, Wiped, appVars
  <2> QED BY <1>1, <1>2, <1>3, <1>4, <2>1 DEF ErrorInv, IsError
<1>5. CASE exc.sw # "OK"
  <2>1. Wiped'
    BY <1>5, MainMenuFlow DEF CatchOther, KeepsContext, ResetAppContext, Wiped, MenuFlows
  <2> QED BY <1>1, <2>1 DEF ErrorInv
<1> QED BY <1>4, <1>5

\* A button on a menu leaves the device wiped if it was; the other screens
\* are up only while no error was reported.
LEMMA ErrorUser ==
  ASSUME TypeOK, ErrorInv, User
  PROVE  ErrorInv'
<1>1. CASE PressRight \/ PressLeft
  BY <1>1 DEF PressRight, PressLeft, MoveTo, ErrorInv, Wiped, TypeOK, Screens,
     ioVars, appVars
<1>2. CASE \/ OpenSettings \/ OpenAbout \/ Back
           \/ ToggleBlindSigning \/ ToggleDetailedDisplay
  BY <1>2 DEF OpenSettings, OpenAbout, Back, ToggleBlindSigning, ToggleDetailedDisplay,
     Menu, At, MainMenu, Show, MenuFlows, ErrorInv, Wiped, ioVars, appVars
<1>3. CASE DismissBlindSignError
  BY <1>3 DEF DismissBlindSignError, Throw, At, MenuFlows, ErrorInv, Wiped, ioVars
<1>4. CASE \E choice \in BOOLEAN :
             ValidatePubkey(choice) \/ ValidateTransaction(choice) \/ SignPersonal(choice)
  <2>1. /\ screen.flow \notin MenuFlows /\ pc = "wait"
    BY <1>4, FlowKinds DEF ValidatePubkey, ValidateTransaction, SignPersonal, Decides, At
  <2>2. ~(wire.sent /\ IsError(wire.reply))
    BY <2>1 DEF ErrorInv, Wiped
  <2>3. CASE pc' = pc /\ IoSendResponse(reply') /\ reply'.kind # "sw"
    <3>1. wire' = wire \/ wire'.reply = reply'
      BY <2>3 DEF IoSendResponse, Transmit
    <3> QED BY <2>1, <2>2, <2>3, <3>1 DEF ErrorInv, IsError
  <2>4. CASE pc' = "catch" /\ UNCHANGED ioVars
    BY <2>2, <2>4 DEF ErrorInv, IsError, ioVars
  <2>5. ASSUME NEW choice \in BOOLEAN, ValidatePubkey(choice)
        PROVE  ErrorInv'
    BY <2>3, <2>4, <2>5 DEF ValidatePubkey, IoSendResponse, MakeReply, Throw
  <2>6. ASSUME SignDigest
        PROVE  ErrorInv'
    BY <2>3, <2>6 DEF SignDigest, IoSendResponse, MakeReply
  <2>7. ASSUME NEW choice \in BOOLEAN, ValidateTransaction(choice) \/ SignPersonal(choice)
        PROVE  ErrorInv'
    BY <2>4, <2>6, <2>7 DEF ValidateTransaction, SignPersonal, SignOrDeny, ThrowIdle, Throw
  <2> QED BY <1>4, <2>5, <2>7
<1> QED BY <1>1, <1>2, <1>3, <1>4 DEF User

\* Every step keeps ErrorInv.
LEMMA ErrorNext ==
  ASSUME TypeOK, IoInv, ErrorInv, [Next]_vars
  PROVE  ErrorInv'
<1>1. CASE Boot
  BY <1>1, MainMenuFlow DEF Boot, ErrorInv, Wiped, MenuFlows
<1>2. CASE IoRecvCommand
  <2>1. wire' = wire \/ wire'.reply = reply
    BY <1>2 DEF IoRecvCommand, Transmit
  <2>2. Wiped => Wiped'
    BY <1>2 DEF IoRecvCommand, Wiped, appVars, uiVars
  <2> QED BY <1>2, <2>1, <2>2 DEF IoRecvCommand, ErrorInv
<1>3. CASE Receive \/ UsbReset \/ PowerLoss \/ Quit
  BY <1>3 DEF Receive, UsbReset, PowerLoss, Quit, Restart, ErrorInv, NoWire
<1>4. CASE UNCHANGED vars
  BY <1>4 DEF vars, ioVars, appVars, uiVars, ErrorInv, Wiped
<1> QED BY <1>1, <1>2, <1>3, <1>4, ErrorHandle, ErrorCatch, ErrorUser DEF Next, System

\* An error status read by the host leaves no session and no review behind.
THEOREM ErrorsWipe == Spec => []ErrorReplyWipes
<1>1. Init => IoInv /\ ErrorInv
  BY DEF Init, IoInv, ErrorInv, NoWire
<1>2. TypeOK /\ IoInv /\ ErrorInv /\ [Next]_vars => IoInv' /\ ErrorInv'
  BY IoNext, ErrorNext
<1>3. ErrorInv => ErrorReplyWipes
  BY DEF ErrorInv, ErrorReplyWipes, IsError, Wiped
<1> QED BY <1>1, <1>2, <1>3, TypeCorrect, PTL DEF Spec

-----------------------------------------------------------------------------
\* The stored settings survive every command, reset and power loss.
THEOREM SettingsKept == Spec => SettingsOnlyFromMenu
<1> DEFINE Allowed == settings' # settings =>
                        \/ pc = "wait" /\ screen.flow = "settings"
                        \/ pc = "boot" /\ ~settings.initialized
<1>1. [Next]_vars => Allowed
  <2>1. CASE Boot
    BY <2>1 DEF Boot, InitStorage
  <2>2. CASE ToggleBlindSigning \/ ToggleDetailedDisplay
    BY <2>2 DEF ToggleBlindSigning, ToggleDetailedDisplay, At
  <2>3. CASE Handle
    <3>1. ASSUME NEW h \in Accepted, GetAppInfo(h) \/ GetPublicKey(h)
          PROVE  UNCHANGED settings
      BY <3>1 DEF GetAppInfo, GetPublicKey
    <3> QED BY <2>3, <3>1, SignHandlers DEF Handle, CmdMalformed, CmdRejected
  <2>4. CASE IoRecvCommand \/ CatchOther \/ Receive \/ UsbReset \/ PowerLoss \/ Quit
    BY <2>4 DEF IoRecvCommand, CatchOther, Receive, UsbReset, PowerLoss, Quit, Restart
  <2>5. CASE \/ PressRight \/ PressLeft \/ OpenSettings \/ OpenAbout \/ Back
             \/ DismissBlindSignError
             \/ \E choice \in BOOLEAN :
                  \/ ValidatePubkey(choice) \/ ValidateTransaction(choice)
                  \/ SignPersonal(choice)
    BY <2>5 DEF PressRight, PressLeft, MoveTo, OpenSettings, OpenAbout, Back,
       DismissBlindSignError, ValidatePubkey, ValidateTransaction, SignPersonal, Decides
  <2>6. CASE UNCHANGED vars
    BY <2>6 DEF vars
  <2> QED BY <2>1, <2>2, <2>3, <2>4, <2>5, <2>6 DEF Next, System, User
<1>2. [Next]_vars => [Allowed]_vars
  BY <1>1
<1> QED BY <1>2, PTL DEF Spec, SettingsOnlyFromMenu

\* The ways a handler ends, as far as the host is concerned: it queues a
\* reply, throws, or asks the user.
Queues ==
  /\ \E r : /\ IoSendResponse(r)
             /\ r.kind \in { "frame", "info", "pubkey" } /\ r.by = cmdId
  /\ pc' = "recv" /\ cmdId' = cmdId /\ InMenu'

Throws ==
  /\ UNCHANGED << ioVars, cmdId >>
  /\ pc' = "catch" /\ exc'.by = cmdId
  /\ exc'.sw = "OK" => InMenu'

Asks ==
  /\ UNCHANGED << ioVars, cmdId >>
  /\ pc' = "recv" /\ Asking'

-----------------------------------------------------------------------------
\* ReplyInv.

\* The reset shows the main menu, which is a menu.
LEMMA MenuShown ==
  ASSUME screen' = MainMenu
  PROVE  InMenu'
BY MainMenuFlow DEF InMenu, MenuFlows

\* A handler's reset leaves a menu on the screen.
LEMMA FreshInMenu ==
  ASSUME InMenu
  PROVE  FreshScreen.flow \in MenuFlows
BY MainMenuFlow DEF FreshScreen, InMenu, MenuFlows

\* What ux_flow_init puts on the screen.
LEMMA ShownFlow ==
  ASSUME NEW flow, NEW step, NEW by
  PROVE  Show(flow, step, by).flow = flow /\ Show(flow, step, by).by = by
BY DEF Show

\* The end of a review's preparation.
LEMMA ShowReviewEnds ==
  ASSUME NEW kind, NEW c, NEW scr, ShowReview(kind, c, scr)
  PROVE  \/ /\ pc' = "recv"
            /\ screen'.flow \in ReviewFlows /\ screen'.by = cmdId
         \/ pc' = "catch" /\ exc' = [sw |-> "DISPLAY_FAIL", by |-> cmdId]
BY ShownFlow DEF ShowReview, Return, Throw, ReviewFlows, TxFlows, MsgFlows

\* The end of any other command that asks.
LEMMA BlindSignErrorEnds ==
  ASSUME ShowBlindSignError
  PROVE  pc' = "recv" /\ screen'.flow = "error_blind_sign" /\ screen'.by = cmdId
BY ShownFlow DEF ShowBlindSignError, Return

\* The end of a chunk: the question, or an exception with the screen as given
\* or of a failed rendering.
ChunkEnds(scr) ==
  \/ /\ pc' = "recv" /\ screen'.by = cmdId
     /\ screen'.flow \in ReviewFlows \cup {"error_blind_sign"}
  \/ /\ pc' = "catch" /\ exc'.by = cmdId
     /\ exc'.sw = "OK" => screen' = scr

\* A chunk that is refused, or not the last.
LEMMA FailWithEnds ==
  ASSUME NEW sw, NEW c, NEW scr, FailWith(sw, c, scr)
  PROVE  ChunkEnds(scr)
BY DEF FailWith, Throw, ChunkEnds

\* A review that is shown, cannot be rendered, or is not allowed.
LEMMA ReviewEnds ==
  ASSUME NEW kind, NEW c, NEW scr, ShowReview(kind, c, scr) \/ ShowBlindSignError
  PROVE  ChunkEnds(scr)
BY ShowReviewEnds, BlindSignErrorEnds DEF ChunkEnds

\* handler_sign_tx ends in one of them.
LEMMA TxChunkEnds ==
  ASSUME NEW c, NEW scr, NEW n, ProcessTxChunk(c, scr, n)
  PROVE  ChunkEnds(scr)
<1>1. ASSUME NEW d, UiSignTx(d, scr)
      PROVE  ChunkEnds(scr)
  BY <1>1, ReviewEnds DEF UiSignTx
<1> QED BY <1>1, FailWithEnds DEF ProcessTxChunk

\* So does handler_sign_personal.
LEMMA MsgChunkEnds ==
  ASSUME NEW c, NEW scr, NEW n, ProcessMsgChunk(c, scr, n)
  PROVE  ChunkEnds(scr)
<1>1. ASSUME NEW d, UiSignPersonal(d, scr)
      PROVE  ChunkEnds(scr)
  BY <1>1, ReviewEnds DEF UiSignPersonal
<1> QED BY <1>1, FailWithEnds DEF ProcessMsgChunk

\* A handler ends in one of the three ways.
LEMMA HandleEnds ==
  ASSUME ReplyInv, Handle
  PROVE  Queues \/ Throws \/ Asks
<1>1. pc = "dispatch" /\ InMenu /\ cmdId # 0
  BY DEF Handle, ReplyInv
<1>2. ASSUME NEW kind \in {"frame", "info", "pubkey"}, NEW sw,
             IoSendResponse(MakeReply(kind, sw, cmdId))
      PROVE  \E r : /\ IoSendResponse(r)
                    /\ r.kind \in { "frame", "info", "pubkey" } /\ r.by = cmdId
  BY <1>2 DEF MakeReply
<1>3. CASE CmdMalformed
  BY <1>1, <1>2, <1>3 DEF CmdMalformed, Return, Queues, InMenu, uiVars
<1>4. ASSUME NEW sw \in Refusals, CmdRejected(sw)
      PROVE  Throws
  BY <1>4 DEF CmdRejected, Throw, Throws, Refusals
<1>5. ASSUME NEW h \in Accepted, GetAppInfo(h)
      PROVE  Queues
  BY <1>1, <1>2, <1>5, FreshInMenu DEF GetAppInfo, Return, Queues, InMenu
<1>6. ASSUME NEW h \in Accepted, GetPublicKey(h)
      PROVE  Queues \/ Throws \/ Asks
  BY <1>1, <1>2, <1>6, FreshInMenu, ShownFlow
     DEF GetPublicKey, Return, Throw, Queues, Throws, Asks, Asking, InMenu, ReviewFlows
<1>7. ASSUME NEW scr, scr.flow \in MenuFlows, ChunkEnds(scr), UNCHANGED << ioVars, cmdId >>
      PROVE  Throws \/ Asks
  BY <1>1, <1>7 DEF ChunkEnds, Throws, Asks, Asking, InMenu
<1>8. ASSUME NEW h \in Accepted,
             \/ SignTxFirst(h) \/ SignTxMore(h)
             \/ SignPersonalFirst(h) \/ SignPersonalMore(h)
      PROVE  ChunkEnds(screen) \/ ChunkEnds(FreshScreen)
  BY <1>8, FailWithEnds, TxChunkEnds, MsgChunkEnds
     DEF SignTxFirst, SignTxMore, SignPersonalFirst, SignPersonalMore
<1>9. screen.flow \in MenuFlows /\ FreshScreen.flow \in MenuFlows
  BY <1>1, FreshInMenu DEF InMenu
<1> QED BY <1>3, <1>4, <1>5, <1>6, <1>7, <1>8, <1>9, SignHandlers DEF Handle

\* So every command is on its way to its reply.
LEMMA ReplyHandle ==
  ASSUME ReplyInv, Handle
  PROVE  ReplyInv'
<1>1. /\ pc = "dispatch" /\ ioState = "RECEIVED" /\ busy /\ cmdId # 0
      /\ ~wire.sent
  BY DEF Handle, ReplyInv
<1>2. CASE Queues
  <2>1. /\ ioState' = "READY" /\ outLen' /\ busy' /\ wire' = wire
        /\ reply'.kind # "raw" /\ reply'.by = cmdId
    BY <1>1, <1>2 DEF Queues, IoSendResponse
  <2> QED BY <1>1, <1>2, <2>1 DEF Queues, ReplyInv, ReplyBelongsToCommand
<1>3. CASE Throws
  BY <1>1, <1>3 DEF Throws, ioVars, ReplyInv, ReplyBelongsToCommand
<1>4. CASE Asks
  BY <1>1, <1>4 DEF Asks, ioVars, ReplyInv, ReplyBelongsToCommand
<1> QED BY <1>2, <1>3, <1>4, HandleEnds

\* A reply made while the command is unanswered inside io_exchange is
\* transmitted at once, and answers it.
LEMMA AnswersAsynch ==
  ASSUME ioState = "WAITING", busy, NEW r, IoSendResponse(r),
         r.kind # "raw", r.by = cmdId, cmdId # 0
  PROVE  /\ ioState' = "READY" /\ ~outLen' /\ ~busy'
         /\ ReplyBelongsToCommand' /\ UNCHANGED call
<1>1. wire' = [reply |-> r, to |-> cmdId, sent |-> TRUE] /\ ~busy' /\ ioState' = "READY"
  BY DEF IoSendResponse, Transmit
<1>2. ~outLen' /\ UNCHANGED call
  BY DEF IoSendResponse
<1> QED BY <1>1, <1>2 DEF ReplyBelongsToCommand

\* app_main's catch answers the command, now or with the next exchange.
LEMMA ReplyCatch ==
  ASSUME ReplyInv, CatchOther
  PROVE  ReplyInv'
<1>1. /\ ioState \in { "RECEIVED", "WAITING" } /\ busy /\ ~wire.sent
      /\ exc.by = cmdId /\ cmdId # 0 /\ (exc.sw = "OK" => InMenu)
  BY DEF CatchOther, ReplyInv
<1>2. InMenu' /\ pc' = "recv" /\ cmdId' = cmdId
  BY <1>1, MenuShown DEF CatchOther, KeepsContext, ResetAppContext, InMenu
<1> DEFINE r == MakeReply("sw", exc.sw, exc.by)
<1>3. IoSendResponse(r) /\ r.kind # "raw" /\ r.by = cmdId
  BY <1>1 DEF CatchOther, MakeReply
<1> HIDE DEF r
<1>4. CASE ioState = "WAITING"
  BY <1>1, <1>2, <1>3, <1>4, AnswersAsynch DEF ReplyInv
<1>5. CASE ioState = "RECEIVED"
  <2>1. /\ ioState' = "READY" /\ outLen' /\ busy' /\ wire' = wire
        /\ reply'.kind # "raw" /\ reply'.by = cmdId
    BY <1>1, <1>3, <1>5 DEF IoSendResponse
  <2> QED BY <1>1, <1>2, <2>1 DEF ReplyInv, ReplyBelongsToCommand
<1> QED BY <1>1, <1>4, <1>5

\* The loop blocks with a reply sent or a question on the screen.
LEMMA ReplyRecv ==
  ASSUME ReplyInv, IoRecvCommand
  PROVE  ReplyInv'
<1>1. pc = "recv" /\ UNCHANGED << reply, cmdId, screen >>
  BY DEF IoRecvCommand, uiVars
<1>2. CASE ioState = "RECEIVED"
  <2>1. /\ busy /\ Asking /\ pc' = "wait" /\ call' = "asynch" /\ ioState' = "WAITING"
        /\ UNCHANGED << wire, busy >>
    BY <1>1, <1>2 DEF IoRecvCommand, RecvState, ReplyInv
  <2> QED BY <1>1, <2>1 DEF ReplyInv, ReplyBelongsToCommand, Asking
<1>3. CASE ioState = "READY"
  <2>1. InMenu /\ pc' = "wait" /\ call' = "plain" /\ ioState' = "RECEIVED"
    BY <1>1, <1>3 DEF IoRecvCommand, RecvState, ReplyInv
  <2>2. CASE outLen
    <3>1. busy /\ reply.kind # "raw" /\ reply.by = cmdId /\ cmdId # 0
      BY <1>1, <1>3, <2>2 DEF ReplyInv
    <3>2. wire' = [reply |-> reply, to |-> cmdId, sent |-> TRUE] /\ ~busy'
      BY <1>3, <2>2, <3>1 DEF IoRecvCommand, Transmit
    <3> QED BY <1>1, <2>1, <3>1, <3>2 DEF ReplyInv, ReplyBelongsToCommand, InMenu
  <2>3. CASE ~outLen
    BY <1>1, <1>3, <2>1, <2>3 DEF IoRecvCommand, ReplyInv, ReplyBelongsToCommand, InMenu
  <2> QED BY <2>2, <2>3
<1> QED BY <1>1, <1>2, <1>3 DEF ReplyInv

\* A host that waits sends its command to a program that shows a menu.
LEMMA ReplyReceive ==
  ASSUME HostWaits, TypeOK, ReplyInv, Receive
  PROVE  ReplyInv'
<1>1. pc = "wait" /\ ~busy /\ InMenu
  BY DEF Receive, ReplyInv
<1>2. ioState' = "RECEIVED"
  BY <1>1 DEF Receive, StateOnReturn, ReplyInv
<1>3. cmdId' # 0
  BY BoundsAssumption DEF Receive, TypeOK, CmdIds
<1> QED BY <1>1, <1>2, <1>3
        DEF Receive, ReplyInv, ReplyBelongsToCommand, InMenu, uiVars, NoWire

\* With a menu on the screen the buttons only change the screen.
MenuStep ==
  /\ pc = "wait" /\ UNCHANGED << pc, ioVars, cmdId, appVars >>
  /\ InMenu <=> InMenu'
  /\ Asking => Asking'

\* The buttons outside the callbacks of the reviews do.
LEMMA ButtonsMenu ==
  ASSUME TypeOK,
         \/ PressRight \/ PressLeft
         \/ OpenSettings \/ OpenAbout \/ Back
         \/ ToggleBlindSigning \/ ToggleDetailedDisplay
  PROVE  MenuStep
<1>1. CASE PressRight \/ PressLeft
  BY <1>1 DEF PressRight, PressLeft, MoveTo, MenuStep, InMenu, Asking, TypeOK, Screens
<1>2. CASE \/ OpenSettings \/ OpenAbout \/ Back
           \/ ToggleBlindSigning \/ ToggleDetailedDisplay
  BY <1>2, FlowKinds, ShownFlow, MainMenuFlow
     DEF OpenSettings, OpenAbout, Back, ToggleBlindSigning, ToggleDetailedDisplay,
         Menu, At, MenuStep, InMenu, Asking, MenuFlows
<1> QED BY <1>1, <1>2

\* A review or the error screen is up only while its command is unanswered.
LEMMA AskingNow ==
  ASSUME ReplyInv, pc = "wait", screen.flow \in ReviewFlows \cup {"error_blind_sign"}
  PROVE  /\ call = "asynch" /\ ioState = "WAITING" /\ busy /\ ~wire.sent
         /\ screen.by = cmdId /\ cmdId # 0
BY FlowKinds DEF ReplyInv, InMenu, Asking, MenuFlows

\* The callbacks of the reviews answer and reset, or throw an error.
Answers ==
  /\ \E r : IoSendResponse(r) /\ r.kind \in { "pubkey", "sig" } /\ r.by = screen.by
  /\ screen' = MainMenu /\ ctx' = ZeroCtx /\ UNCHANGED << pc, cmdId >>

Refuses ==
  /\ UNCHANGED << ioVars, cmdId, ctx >>
  /\ pc' = "catch" /\ exc'.by = screen.by /\ exc'.sw # "OK"

\* Each of them does one of the two.
LEMMA CallbackEnds ==
  ASSUME \/ DismissBlindSignError
         \/ \E choice \in BOOLEAN :
              ValidatePubkey(choice) \/ ValidateTransaction(choice) \/ SignPersonal(choice)
  PROVE  /\ pc = "wait" /\ screen.flow \in ReviewFlows \cup {"error_blind_sign"}
         /\ Answers \/ Refuses
<1>1. CASE DismissBlindSignError
  BY <1>1 DEF DismissBlindSignError, At, Throw, Refuses, appVars
<1>2. ASSUME NEW sw, sw # "OK", Throw(sw, screen.by), UNCHANGED << ioVars, ctx, cmdId >>
      PROVE  Refuses
  BY <1>2 DEF Throw, Refuses
<1>3. ASSUME NEW choice \in BOOLEAN, ValidatePubkey(choice)
      PROVE  /\ pc = "wait" /\ screen.flow \in ReviewFlows
             /\ Answers \/ Refuses
  <2>1. pc = "wait" /\ screen.flow \in ReviewFlows /\ UNCHANGED cmdId
    BY <1>3 DEF ValidatePubkey, Decides, At
  <2>2. CASE choice
    <3>1. /\ IoSendResponse(MakeReply("pubkey", "OK", screen.by))
          /\ ResetAppContext /\ UNCHANGED pc
      BY <1>3, <2>2 DEF ValidatePubkey
    <3>2. /\ MakeReply("pubkey", "OK", screen.by).kind = "pubkey"
          /\ MakeReply("pubkey", "OK", screen.by).by = screen.by
      BY DEF MakeReply
    <3> QED BY <2>1, <3>1, <3>2 DEF Answers, ResetAppContext
  <2>3. CASE ~choice
    BY <1>2, <1>3, <2>1, <2>3 DEF ValidatePubkey, appVars
  <2> QED BY <2>1, <2>2, <2>3
<1>4. ASSUME NEW choice \in BOOLEAN, ValidateTransaction(choice) \/ SignPersonal(choice)
      PROVE  /\ pc = "wait" /\ screen.flow \in ReviewFlows
             /\ Answers \/ Refuses
  <2>1. pc = "wait" /\ screen.flow \in ReviewFlows /\ UNCHANGED cmdId
    BY <1>4 DEF ValidateTransaction, SignPersonal, Decides, At
  <2>2. SignOrDeny(choice)
    BY <1>4 DEF ValidateTransaction, SignPersonal
  <2>3. CASE SignDigest
    <3> DEFINE r == [MakeReply("sig", "OK", screen.by)
                       EXCEPT !.digest = ctx.digest, !.shown = strings]
    <3>1. r.kind = "sig" /\ r.by = screen.by
      BY DEF MakeReply
    <3> QED BY <2>1, <2>3, <3>1 DEF SignDigest, Answers, ResetAppContext
  <2>4. ASSUME NEW sw \in { "SIGNATURE_FAIL", "OS", "DENY" }, ThrowIdle(sw)
        PROVE  Refuses
    BY <1>2, <2>1, <2>4 DEF ThrowIdle
  <2> QED BY <2>1, <2>2, <2>3, <2>4 DEF SignOrDeny
<1> QED BY <1>1, <1>3, <1>4 DEF DismissBlindSignError, At

\* After a callback the command is answered, or an error on its way.
LEMMA ReplyCallback ==
  ASSUME ReplyInv, pc = "wait", screen.flow \in ReviewFlows \cup {"error_blind_sign"},
         Answers \/ Refuses
  PROVE  ReplyInv'
<1>1. CASE Answers
  BY <1>1, AskingNow, AnswersAsynch, MenuShown DEF Answers, ReplyInv
<1>2. CASE Refuses
  BY <1>2, AskingNow DEF Refuses, ioVars, ReplyInv, ReplyBelongsToCommand
<1> QED BY <1>1, <1>2

\* Every step keeps ReplyInv.
LEMMA ReplyNext ==
  ASSUME HostWaits, TypeOK, ReplyInv, [Next]_vars
  PROVE  ReplyInv'
<1>1. CASE Boot
  BY <1>1, MenuShown DEF Boot, ReplyInv, ReplyBelongsToCommand
<1>2. CASE MenuStep
  BY <1>2 DEF MenuStep, ioVars, ReplyInv, ReplyBelongsToCommand
<1>3. CASE UsbReset \/ PowerLoss \/ Quit
  BY <1>3 DEF UsbReset, PowerLoss, Quit, Restart, ReplyInv, ReplyBelongsToCommand, NoWire
<1>4. CASE UNCHANGED vars
  BY <1>4 DEF vars, ioVars, uiVars, ReplyInv, ReplyBelongsToCommand, InMenu, Asking
<1> QED BY <1>1, <1>2, <1>3, <1>4, ReplyHandle, ReplyCatch, ReplyRecv, ReplyReceive,
           ButtonsMenu, CallbackEnds, ReplyCallback
        DEF Next, System, User

\* Nothing has been received at the start.
LEMMA ReplyInit ==
  ASSUME Init
  PROVE  ReplyInv
BY DEF Init, ReplyInv, ReplyBelongsToCommand, NoWire

\* ReplyInv is an invariant.
LEMMA ReplyInvariant ==
  ASSUME HostWaits
  PROVE  Spec => []ReplyInv
<1>1. Init => ReplyInv
  BY ReplyInit
<1>2. TypeOK /\ ReplyInv /\ [Next]_vars => ReplyInv'
  BY ReplyNext
<1> QED BY <1>1, <1>2, TypeCorrect, PTL DEF Spec

\* Each transmission is a reply built for the command it answers
\* (io_send_response, io_recv_command).
THEOREM RepliesBelong ==
  ASSUME HostWaits
  PROVE  Spec => []ReplyBelongsToCommand
<1>1. ReplyInv => ReplyBelongsToCommand
  BY DEF ReplyInv
<1> QED BY <1>1, ReplyInvariant, PTL

\* The program blocks with a command unanswered only to ask the user about it.
THEOREM OnlyUserDelays ==
  ASSUME HostWaits
  PROVE  Spec => []OnlyUserKeepsHostWaiting
<1>1. ReplyInv => OnlyUserKeepsHostWaiting
  BY FlowKinds DEF ReplyInv, OnlyUserKeepsHostWaiting, InMenu, Asking, MenuFlows
<1> QED BY <1>1, ReplyInvariant, PTL

-----------------------------------------------------------------------------
\* FinalsInv and AckInv: the handlers.

Once(c)  == c.finals <= 1 /\ c.digest.finals = 0
Clean(c) == c.finals = 0 /\ c.digest.finals = 0

\* How a handler leaves the hash, and the session if it asks for more.
HashEnds ==
  /\ Once(ctx')
  /\ pc' = "recv" => Clean(ctx') \/ ~InMenu'
  /\ pc' = "catch" /\ exc'.sw = "OK" => Clean(ctx') /\ TakesMore'
  /\ pc' \in { "recv", "catch" }

\* No hash has been finalised when a handler starts, whether it resets or not.
LEMMA CleanStart ==
  ASSUME ReplyInv, FinalsInv, pc = "dispatch"
  PROVE  Clean(ctx) /\ Clean(FreshCtx)
BY DEF ReplyInv, FinalsInv, HashFinalizedOnce, Clean, FreshCtx, ZeroCtx, NoDigest

\* What the first chunk sets of a context does not concern the digest.
LEMMA CleanOpened ==
  ASSUME ReplyInv, FinalsInv, TypeOK, pc = "dispatch"
  PROVE  [FreshCtx EXCEPT !.sess = cmdId] \in Contexts /\ Clean([FreshCtx EXCEPT !.sess = cmdId])
<1>1. FreshCtx \in Contexts
  BY FreshType
<1> QED BY <1>1, CleanStart, OpenedType DEF Clean, Contexts

\* Finalising a hash that was not finalised.
LEMMA FinalizeOnce ==
  ASSUME NEW c \in Contexts, Clean(c)
  PROVE  Once(c) /\ Once(FinalizeHash(c))
<1>1. FinalizeHash(c).finals = c.finals + 1
  BY DEF FinalizeHash, Contexts
<1>2. FinalizeHash(c).digest.finals = c.finals
  BY DEF FinalizeHash, Contexts
<1> QED BY <1>1, <1>2 DEF Once, Clean, Contexts

\* The end of a complete transaction or message: its hash is finalised for a
\* question, or with an error on its way.
LEMMA AskedHash ==
  ASSUME NEW c \in Contexts, Clean(c), ctx' \in { c, FinalizeHash(c) },
         NEW kind, NEW scr, ShowReview(kind, c, scr) \/ ShowBlindSignError
  PROVE  HashEnds
<1>1. Once(ctx')
  BY FinalizeOnce
<1>2. CASE ShowReview(kind, c, scr)
  BY <1>1, <1>2, ShowReviewEnds, FlowKinds DEF HashEnds, InMenu, MenuFlows
<1>3. CASE ShowBlindSignError
  BY <1>1, <1>3, BlindSignErrorEnds, FlowKinds DEF HashEnds, InMenu, MenuFlows
<1> QED BY <1>2, <1>3

\* A chunk that ends with an error, or is not the last.
LEMMA FailedHash ==
  ASSUME NEW c \in Contexts, Clean(c), NEW sw, NEW scr, FailWith(sw, c, scr),
         sw = "OK" => TakesMore'
  PROVE  HashEnds
<1>1. ctx' = c /\ pc' = "catch" /\ exc'.sw = sw
  BY DEF FailWith, Throw
<1> QED BY <1>1, FinalizeOnce DEF HashEnds

\* A chunk of a transaction.
LEMMA HashTxChunk ==
  ASSUME appState' = "SIGNING_TX", NEW c \in Contexts, Clean(c), NEW scr,
         NEW n \in {0, 1}, ProcessTxChunk(c, scr, n)
  PROVE  HashEnds
<1> DEFINE Parsed(o, data) ==
      [c EXCEPT !.phase = o.phase, !.data = data,
                !.fed = IF c.phase = "done" THEN @ ELSE @ + n]
<1>1. PICK o \in TxOutcomes(c.phase, n), data \in BOOLEAN :
        \/ UiSignTx(Parsed(o, data), scr)
        \/ o.status = "PROCESSING" /\ FailWith("OK", Parsed(o, data), scr)
        \/ FailWith("TX_PARSING_FAIL", Parsed(o, data), scr)
  BY Zenon DEF ProcessTxChunk
<1> DEFINE parsed == Parsed(o, data)
           fed == IF c.phase = "done" THEN c.fed ELSE c.fed + n
<1>2. o.phase \in Phases
  BY OnwardsType DEF TxOutcomes, Contexts
<1>3. parsed \in Contexts /\ Clean(parsed) /\ parsed.phase = o.phase
  <2>1. fed \in Nat
    BY DEF Contexts
  <2>2. parsed = [c EXCEPT !.phase = o.phase, !.data = data, !.fed = fed]
    OBVIOUS
  <2> HIDE DEF parsed, fed
  <2> QED BY <1>2, <2>1, <2>2 DEF Contexts, Clean
<1> HIDE DEF Parsed, parsed
<1>4. CASE UiSignTx(parsed, scr)
  BY <1>3, <1>4, AskedHash DEF UiSignTx
<1>5. CASE o.status = "PROCESSING" /\ FailWith("OK", parsed, scr)
  <2>1. ctx' = parsed
    BY <1>5 DEF FailWith
  <2>2. o.phase \in { "head", "v", "tail" }
    <3>1. o.phase \in Onwards(c.phase) /\ o.phase # "done"
      BY <1>5 DEF TxOutcomes
    <3> QED BY <3>1 DEF Onwards
  <2>3. TakesMore'
    BY <1>3, <2>1, <2>2 DEF TakesMore, Signing
  <2> QED BY <1>3, <1>5, <2>3, FailedHash
<1>6. CASE FailWith("TX_PARSING_FAIL", parsed, scr)
  BY <1>3, <1>6, FailedHash
<1> QED BY <1>1, <1>4, <1>5, <1>6 DEF parsed

\* A chunk of a message.
LEMMA HashMsgChunk ==
  ASSUME appState' = "SIGNING_PERSONAL", NEW c \in Contexts, Clean(c), NEW scr,
         NEW n \in Nat, ProcessMsgChunk(c, scr, n)
  PROVE  HashEnds
<1>1. CASE n > c.remaining
  <2>1. FailWith("WRONG_DATA_LENGTH", c, scr)
    BY <1>1 DEF ProcessMsgChunk
  <2> QED BY <2>1, FailedHash
<1>2. CASE ~(n > c.remaining)
  <2> DEFINE fed == c.fed + n
             remaining == c.remaining - n
             hashed == [c EXCEPT !.fed = fed, !.remaining = remaining]
  <2>1. fed \in Nat /\ remaining \in Nat
    BY <1>2 DEF Contexts
  <2>2. \/ hashed.remaining > 0 /\ FailWith("OK", hashed, scr)
        \/ UiSignPersonal(hashed, scr)
    BY <1>2, Zenon DEF ProcessMsgChunk
  <2> HIDE DEF fed, remaining
  <2>3. hashed \in Contexts /\ Clean(hashed)
    BY <2>1 DEF Contexts, Clean
  <2> HIDE DEF hashed
  <2>4. CASE hashed.remaining > 0 /\ FailWith("OK", hashed, scr)
    <3>1. ctx' = hashed
      BY <2>4 DEF FailWith
    <3>2. TakesMore'
      BY <2>4, <3>1 DEF TakesMore, Signing
    <3> QED BY <2>3, <2>4, <3>2, FailedHash
  <2>5. CASE UiSignPersonal(hashed, scr)
    BY <2>3, <2>5, AskedHash DEF UiSignPersonal
  <2> QED BY <2>2, <2>4, <2>5
<1> QED BY <1>1, <1>2

\* The first chunk of a transaction.
LEMMA HashSignTxFirst ==
  ASSUME TypeOK, ReplyInv, FinalsInv, pc = "dispatch", NEW h \in Accepted, SignTxFirst(h)
  PROVE  HashEnds
<1>1. CASE h.lc = 0
  BY <1>1, CleanStart, FailedHash DEF SignTxFirst, TypeOK
<1>2. CASE h.lc # 0
  <2> DEFINE opened == [FreshCtx EXCEPT !.sess = cmdId]
             parsing == [opened EXCEPT !.phase = "head", !.fed = 0, !.finals = 0]
  <2>1. opened \in Contexts /\ Clean(opened)
    BY CleanOpened
  <2>2. parsing \in Contexts /\ Clean(parsing)
    <3> HIDE DEF opened
    <3> QED BY <2>1 DEF Contexts, Phases, Clean
  <2>3. /\ appState' = "SIGNING_TX"
        /\ \/ FailWith("WRONG_DATA_LENGTH", opened, FreshScreen)
           \/ \E n \in {0, 1} : ProcessTxChunk(parsing, FreshScreen, n)
    BY <1>2, Zenon DEF SignTxFirst
  <2> HIDE DEF opened, parsing
  <2> QED BY <2>1, <2>2, <2>3, FailedHash, HashTxChunk
<1> QED BY <1>1, <1>2

\* The first chunk of a message.
LEMMA HashSignPersonalFirst ==
  ASSUME TypeOK, ReplyInv, FinalsInv, pc = "dispatch",
         NEW h \in Accepted, SignPersonalFirst(h)
  PROVE  HashEnds
<1>1. CASE h.lc = 0
  BY <1>1, CleanStart, FailedHash DEF SignPersonalFirst, TypeOK
<1>2. CASE h.lc # 0
  <2> DEFINE opened == [FreshCtx EXCEPT !.sess = cmdId]
             Announced(declared) ==
               [opened EXCEPT !.declared = declared, !.remaining = declared,
                              !.fed = 0, !.finals = 0]
  <2>1. opened \in Contexts /\ Clean(opened)
    BY CleanOpened
  <2>2. \A declared \in Nat : Announced(declared) \in Contexts /\ Clean(Announced(declared))
    <3> HIDE DEF opened
    <3> QED BY <2>1 DEF Contexts, Clean
  <2>3. /\ appState' = "SIGNING_PERSONAL"
        /\ \/ \E sw \in { "WRONG_DATA_LENGTH", "INVALID_DATA" } :
                FailWith(sw, opened, FreshScreen)
           \/ \E declared, n \in 0..MaxMsg :
                ProcessMsgChunk(Announced(declared), FreshScreen, n)
    BY <1>2, Zenon DEF SignPersonalFirst
  <2> HIDE DEF opened, Announced
  <2>4. 0..MaxMsg \subseteq Nat
    BY BoundsAssumption
  <2> QED BY <2>1, <2>2, <2>3, <2>4, FailedHash, HashMsgChunk
<1> QED BY <1>1, <1>2

\* A further chunk.
LEMMA HashSignMore ==
  ASSUME TypeOK, ReplyInv, FinalsInv, pc = "dispatch", NEW h \in Accepted,
         SignTxMore(h) \/ SignPersonalMore(h)
  PROVE  HashEnds
<1>1. ctx \in Contexts /\ Clean(ctx) /\ h.lc \in {0, 1} /\ 0..MaxMsg \subseteq Nat
  BY CleanStart, BoundsAssumption DEF TypeOK, Accepted, Headers
<1>2. CASE FailWith("BAD_STATE", ctx, screen)
  BY <1>1, <1>2, FailedHash
<1>3. CASE appState' = "SIGNING_TX" /\ ProcessTxChunk(ctx, screen, h.lc)
  BY <1>1, <1>3, HashTxChunk
<1>4. CASE /\ appState' = "SIGNING_PERSONAL"
           /\ \E n \in 0..MaxMsg : ProcessMsgChunk(ctx, screen, n)
  BY <1>1, <1>4, HashMsgChunk
<1> QED BY <1>2, <1>3, <1>4 DEF SignTxMore, SignPersonalMore

\* Every command leaves the hash, and the session, as it should.
LEMMA HashHandle ==
  ASSUME TypeOK, ReplyInv, FinalsInv, Handle
  PROVE  HashEnds
<1>1. pc = "dispatch" /\ Clean(ctx) /\ Clean(FreshCtx)
  BY CleanStart DEF Handle
<1>2. ASSUME ctx' \in { ctx, FreshCtx },
             \/ Return
             \/ \E sw \in Refusals : Throw(sw, cmdId)
      PROVE  HashEnds
  BY <1>1, <1>2 DEF HashEnds, Clean, Once, Return, Throw, Refusals
<1>3. CASE CmdMalformed \/ \E sw \in Refusals : CmdRejected(sw)
  BY <1>2, <1>3 DEF CmdMalformed, CmdRejected, appVars
<1>4. ASSUME NEW h \in Accepted, GetAppInfo(h)
      PROVE  HashEnds
  BY <1>2, <1>4 DEF GetAppInfo
<1>5. ASSUME NEW h \in Accepted, GetPublicKey(h)
      PROVE  HashEnds
  <2>1. Clean(ctx') /\ Once(ctx')
    <3>1. ctx' = [FreshCtx EXCEPT !.sess = cmdId]
      BY <1>5 DEF GetPublicKey
    <3> QED BY <1>1, <3>1, CleanOpened, FinalizeOnce
  <2>2. \/ pc' = "recv"
        \/ pc' = "catch" /\ exc'.sw # "OK"
    BY <1>5 DEF GetPublicKey, Return, Throw
  <2> QED BY <2>1, <2>2 DEF HashEnds
<1> QED BY <1>1, <1>3, <1>4, <1>5,
           HashSignTxFirst, HashSignPersonalFirst, HashSignMore DEF Handle

-----------------------------------------------------------------------------
\* FinalsInv and AckInv.

\* What a wiped context holds.
LEMMA WipedHash == Clean(ZeroCtx) /\ Once(ZeroCtx)
BY DEF Clean, Once, ZeroCtx, NoDigest

\* Every step keeps FinalsInv.
LEMMA FinalsNext ==
  ASSUME TypeOK, ReplyInv, FinalsInv, [Next]_vars
  PROVE  FinalsInv'
<1>1. CASE Handle
  BY <1>1, HashHandle DEF HashEnds, FinalsInv, HashFinalizedOnce, Once, Clean
<1>2. CASE ctx' = ZeroCtx
  BY <1>2, WipedHash DEF FinalsInv, HashFinalizedOnce, Once, Clean
<1>3. CASE Boot \/ PowerLoss \/ Quit
  BY <1>2, <1>3 DEF Boot, PowerLoss, Quit, Restart
<1>4. CASE CatchOther
  <2>1. CASE exc.sw = "OK"
    BY <1>4, <2>1 DEF CatchOther, KeepsContext, appVars, FinalsInv, HashFinalizedOnce
  <2>2. CASE exc.sw # "OK"
    BY <1>2, <1>4, <2>2 DEF CatchOther, KeepsContext, ResetAppContext
  <2> QED BY <2>1, <2>2
<1>5. CASE IoRecvCommand \/ Receive
  BY <1>5 DEF IoRecvCommand, Receive, appVars, uiVars, InMenu, FinalsInv, HashFinalizedOnce
<1>6. CASE MenuStep
  BY <1>6 DEF MenuStep, appVars, FinalsInv, HashFinalizedOnce
<1>7. CASE pc = "wait" /\ (Answers \/ Refuses)
  BY <1>2, <1>7 DEF Answers, Refuses, FinalsInv, HashFinalizedOnce
<1>8. CASE UsbReset
  BY <1>8 DEF UsbReset, appVars, FinalsInv, HashFinalizedOnce
<1>9. CASE UNCHANGED vars
  BY <1>9 DEF vars, appVars, uiVars, InMenu, FinalsInv, HashFinalizedOnce
<1> QED BY <1>1, <1>3, <1>4, <1>5, <1>6, <1>7, <1>8, <1>9, ButtonsMenu, CallbackEnds
        DEF Next, System, User

\* Every step keeps AckInv.
LEMMA AckNext ==
  ASSUME TypeOK, ReplyInv, FinalsInv, AckInv, [Next]_vars
  PROVE  AckInv'
<1>1. CASE Handle
  <2>1. pc = "dispatch" /\ ioState = "RECEIVED" /\ ~wire.sent
    BY <1>1 DEF Handle, ReplyInv
  <2>2. ~wire'.sent /\ (ioState' = "READY" => reply'.kind # "sw")
    BY <1>1, <2>1, HandleEnds DEF Queues, Throws, Asks, IoSendResponse, ioVars
  <2> QED BY <1>1, <2>2, HashHandle DEF HashEnds, AckInv, AckKeepsSession
<1>2. CASE CatchOther
  <2>1. ~wire.sent /\ pc' = "recv" /\ reply'.sw = exc.sw
    BY <1>2 DEF CatchOther, ReplyInv, IoSendResponse, MakeReply
  <2>2. wire' = wire \/ wire'.reply = reply'
    BY <1>2 DEF CatchOther, IoSendResponse, Transmit
  <2>3. exc.sw = "OK" => TakesMore'
    BY <1>2 DEF CatchOther, KeepsContext, appVars, AckInv, TakesMore
  <2> QED BY <2>1, <2>2, <2>3 DEF AckInv, AckKeepsSession
<1>3. CASE IoRecvCommand
  <2>1. /\ pc = "recv" /\ pc' # "recv" /\ pc' # "catch" /\ UNCHANGED appVars
        /\ \/ wire' = wire
           \/ wire'.reply = reply /\ ioState = "READY" /\ outLen
    BY <1>3 DEF IoRecvCommand, Transmit
  <2>2. TakesMore => TakesMore'
    BY <2>1 DEF appVars, TakesMore
  <2> QED BY <2>1, <2>2 DEF AckInv, AckKeepsSession
<1>4. CASE Receive \/ UsbReset \/ PowerLoss \/ Quit
  BY <1>4 DEF Receive, UsbReset, PowerLoss, Quit, Restart, NoWire, AckInv, AckKeepsSession
<1>5. CASE Boot
  BY <1>5 DEF Boot, ReplyInv, AckInv, AckKeepsSession
<1>6. CASE MenuStep
  BY <1>6 DEF MenuStep, ioVars, appVars, AckInv, AckKeepsSession, TakesMore
<1>7. CASE /\ pc = "wait" /\ screen.flow \in ReviewFlows \cup {"error_blind_sign"}
           /\ Answers \/ Refuses
  <2>1. ioState = "WAITING" /\ ~wire.sent /\ busy
    BY <1>7, AskingNow
  <2>2. CASE Answers
    <3>1. wire'.reply.kind # "sw" /\ pc' = "wait"
      BY <1>7, <2>1, <2>2 DEF Answers, IoSendResponse, Transmit
    <3> QED BY <3>1 DEF AckInv, AckKeepsSession
  <2>3. CASE Refuses
    BY <2>1, <2>3 DEF Refuses, ioVars, AckInv, AckKeepsSession
  <2> QED BY <1>7, <2>2, <2>3
<1>8. CASE UNCHANGED vars
  BY <1>8 DEF vars, ioVars, appVars, AckInv, AckKeepsSession, TakesMore
<1> QED BY <1>1, <1>2, <1>3, <1>4, <1>5, <1>6, <1>7, <1>8, ButtonsMenu, CallbackEnds
        DEF Next, System, User

\* Nothing is hashed and nothing acknowledged at the start.
LEMMA FinalsAckInit ==
  ASSUME Init
  PROVE  FinalsInv /\ AckInv
BY WipedHash
   DEF Init, NoWire, Once, FinalsInv, HashFinalizedOnce, AckInv, AckKeepsSession

\* Both are invariants.
LEMMA FinalsAckInvariant ==
  ASSUME HostWaits
  PROVE  Spec => []FinalsInv /\ []AckInv
<1>1. Init => FinalsInv /\ AckInv
  BY FinalsAckInit
<1>2. TypeOK /\ ReplyInv /\ FinalsInv /\ AckInv /\ [Next]_vars => FinalsInv' /\ AckInv'
  BY FinalsNext, AckNext
<1> QED BY <1>1, <1>2, TypeCorrect, ReplyInvariant, PTL DEF Spec

\* A hash is finalised once (ui_sign_tx, ui_sign_personal): a command that could
\* go on with a finalised hash comes only after the question, and its answer
\* wipes the context.
THEOREM FinalizedOnce ==
  ASSUME HostWaits
  PROVE  Spec => []HashFinalizedOnce
<1>1. FinalsInv => HashFinalizedOnce
  BY DEF FinalsInv
<1> QED BY <1>1, FinalsAckInvariant, PTL

\* A chunk that is acknowledged leaves a session that can take the next one
\* (CATCH_OTHER in app_main, handler_sign_tx, handler_sign_personal).
THEOREM AckKept ==
  ASSUME HostWaits
  PROVE  Spec => []AckKeepsSession
<1>1. AckInv => AckKeepsSession
  BY DEF AckInv
<1> QED BY <1>1, FinalsAckInvariant, PTL

-----------------------------------------------------------------------------
\* The refinement of SigningSession.  On top of the invariants above it takes
\* Numbered: every session has a number.

StepInv == TypeOK /\ IoInv /\ SessionInv /\ SeenInv /\ ErrorInv /\ Numbered

-----------------------------------------------------------------------------
\* The steps of SigningSession, in terms of the mapping.

\* The session, if any, is gone.
LEMMA DropStep ==
  ASSUME cmdId' = cmdId, ~FreshNow', SessionNow' = 0, OfferNow' = Nothing, ~ReadNow',
         SignedNow' \in {SignedNow, Nothing}
  PROVE  Session!Next
BY DEF Session!Next, Session!Drop, Session!NoOffer, Session!None, Nothing, Covers,
       NoStrings

\* The command has no effect on the session.
LEMMA IgnoreStep ==
  ASSUME ~FreshNow', UNCHANGED << cmdId, SessionNow, OfferNow, ReadNow, SignedNow >>
  PROVE  Session!Next
BY DEF Session!Next, Session!Ignore

\* The command opens a session.
LEMMA OpenStep ==
  ASSUME FreshNow, ~FreshNow', UNCHANGED << cmdId, SignedNow >>,
         SessionNow' = cmdId, OfferNow' = Nothing, ~ReadNow'
  PROVE  Session!Next
BY DEF Session!Next, Session!Open, Session!TakeUp, Session!NoOffer, Session!None,
       Nothing, Covers, NoStrings

\* The command completes a session: it is offered.
LEMMA PresentStep ==
  ASSUME FreshNow, ~FreshNow', UNCHANGED << cmdId, SignedNow >>,
         SessionNow' \in {SessionNow, cmdId} \ {0},
         OfferNow' \in [sess : {SessionNow'}, fed : Nat], ~ReadNow'
  PROVE  Session!Next
BY DEF Session!Next, Session!Present, Session!TakeUp

\* The session is not offered any longer.
LEMMA WithdrawStep ==
  ASSUME FreshNow, ~FreshNow', UNCHANGED << cmdId, SignedNow, SessionNow >>,
         OfferNow' = Nothing, ~ReadNow'
  PROVE  Session!Next
BY DEF Session!Next, Session!Withdraw, Session!TakeUp, Session!NoOffer, Session!None,
       Nothing, Covers, NoStrings

\* The offer is read to its end.
LEMMA ReadStep ==
  ASSUME OfferNow # Nothing, ReadNow',
         UNCHANGED << cmdId, FreshNow, SessionNow, OfferNow, SignedNow >>
  PROVE  Session!Next
BY DEF Session!Next, Session!Read, Session!None, Nothing, Covers, NoStrings

\* The offer is signed.
LEMMA ApproveStep ==
  ASSUME OfferNow # Nothing, ReadNow, SignedNow' = OfferNow, SessionNow' = 0,
         OfferNow' = Nothing, ~ReadNow', UNCHANGED << cmdId, FreshNow >>
  PROVE  Session!Next
BY DEF Session!Next, Session!Approve, Session!NoOffer, Session!None, Nothing, Covers,
       NoStrings

\* The host sends the next command.
LEMMA ReceiveStep ==
  ASSUME cmdId' = cmdId + 1, FreshNow', SignedNow' = Nothing,
         UNCHANGED << SessionNow, OfferNow, ReadNow >>
  PROVE  Session!Next
BY DEF Session!Next, Session!Receive, Session!None, Nothing, Covers, NoStrings
-----------------------------------------------------------------------------
\* How the signing handlers end.

\* With an error on its way; with an acknowledgement; with the blind-signing
\* error; with a review of the session.
Fails == pc' = "catch" /\ exc'.sw # "OK"
Ends(sess, scr) ==
  /\ ctx'.sess = sess
  /\ \/ Fails
     \/ pc' = "catch" /\ exc'.sw = "OK" /\ screen' = scr /\ strings' = strings
     \/ pc' = "recv" /\ screen'.flow = "error_blind_sign"
     \/ /\ pc' = "recv"
        /\ \E f \in TxFlows \cup MsgFlows : screen' = Show(f, 1, cmdId)
        /\ strings'.sess = sess /\ strings'.fed \in Nat

\* FailWith ends in an error or an acknowledgement.
LEMMA FailEnds ==
  ASSUME NEW sw, NEW c, NEW scr, FailWith(sw, c, scr)
  PROVE  Ends(c.sess, scr)
BY DEF FailWith, Throw, Ends, Fails

\* A review, or the error of a rendering.
LEMMA ReviewEndsSession ==
  ASSUME NEW c \in Contexts, NEW scr, NEW kind \in {"tx", "msg"},
         ctx' = FinalizeHash(c), ShowReview(kind, c, scr)
  PROVE  Ends(c.sess, scr)
<1>1. /\ ctx'.sess = c.sess
      /\ strings'.sess = c.sess /\ strings'.fed \in Nat
  BY FinalizeFields DEF ShowReview, Contexts
<1>2. CASE Throw("DISPLAY_FAIL", cmdId)
  BY <1>1, <1>2 DEF Throw, Ends, Fails
<1>3. CASE Return /\ \E f \in TxFlows \cup MsgFlows : screen' = Show(f, 1, cmdId)
  BY <1>1, <1>3 DEF Return, Ends
<1>4. \/ Throw("DISPLAY_FAIL", cmdId)
      \/ Return /\ \E f \in TxFlows \cup MsgFlows : screen' = Show(f, 1, cmdId)
  BY DEF ShowReview, TxFlows, MsgFlows
<1> QED BY <1>2, <1>3, <1>4

\* The blind-signing error.
LEMMA BlindEnds ==
  ASSUME NEW c, NEW sess, NEW scr, ctx' = c, c.sess = sess, ShowBlindSignError
  PROVE  Ends(sess, scr)
BY DEF ShowBlindSignError, Return, Show, Ends

\* A complete transaction.
LEMMA UiTxEnds ==
  ASSUME NEW c \in Contexts, NEW scr, UiSignTx(c, scr)
  PROVE  Ends(c.sess, scr)
BY ReviewEndsSession, BlindEnds DEF UiSignTx

\* A complete message.
LEMMA UiMsgEnds ==
  ASSUME NEW c \in Contexts, NEW scr, UiSignPersonal(c, scr)
  PROVE  Ends(c.sess, scr)
BY ReviewEndsSession, BlindEnds, FinalizeFields DEF UiSignPersonal

\* A transaction chunk.
LEMMA TxChunkEndsSession ==
  ASSUME NEW c \in Contexts, NEW scr, NEW n \in {0, 1}, ProcessTxChunk(c, scr, n)
  PROVE  Ends(c.sess, scr)
<1> DEFINE Parsed(o, data) ==
      [c EXCEPT !.phase = o.phase, !.data = data,
                !.fed = IF c.phase = "done" THEN @ ELSE @ + n]
<1>1. PICK o \in TxOutcomes(c.phase, n), data \in BOOLEAN :
        \/ UiSignTx(Parsed(o, data), scr)
        \/ \E sw \in {"OK", "TX_PARSING_FAIL"} : FailWith(sw, Parsed(o, data), scr)
  BY Zenon DEF ProcessTxChunk
<1> DEFINE parsed == Parsed(o, data)
           fed == IF c.phase = "done" THEN c.fed ELSE c.fed + n
<1>2. parsed \in Contexts /\ parsed.sess = c.sess
  <2>1. o.phase \in Phases
    BY OnwardsType DEF TxOutcomes, Contexts
  <2>2. fed \in Nat
    BY DEF Contexts
  <2>3. parsed = [c EXCEPT !.phase = o.phase, !.data = data, !.fed = fed]
    OBVIOUS
  <2> HIDE DEF parsed, fed
  <2> QED BY <2>1, <2>2, <2>3 DEF Contexts
<1>3. UiSignTx(parsed, scr) \/ \E sw \in {"OK", "TX_PARSING_FAIL"} : FailWith(sw, parsed, scr)
  BY <1>1
<1> HIDE DEF Parsed, parsed
<1> QED BY <1>2, <1>3, UiTxEnds, FailEnds

\* A message chunk.
LEMMA MsgChunkEndsSession ==
  ASSUME NEW c \in Contexts, NEW scr, NEW n \in Nat, ProcessMsgChunk(c, scr, n)
  PROVE  Ends(c.sess, scr)
<1> DEFINE fed == c.fed + n
           remaining == c.remaining - n
           hashed == [c EXCEPT !.fed = fed, !.remaining = remaining]
<1>1. CASE n > c.remaining
  BY <1>1, FailEnds DEF ProcessMsgChunk
<1>2. CASE ~(n > c.remaining)
  <2>1. fed \in Nat /\ remaining \in Nat
    BY <1>2 DEF Contexts
  <2>2. FailWith("OK", hashed, scr) \/ UiSignPersonal(hashed, scr)
    BY <1>2, Zenon DEF ProcessMsgChunk
  <2> HIDE DEF fed, remaining
  <2>3. hashed \in Contexts /\ hashed.sess = c.sess
    BY <2>1 DEF Contexts
  <2> HIDE DEF hashed
  <2> QED BY <2>2, <2>3, FailEnds, UiMsgEnds
<1> QED BY <1>1, <1>2

-----------------------------------------------------------------------------
\* The handlers.

\* A first command opens the session it names; a later one goes on with the
\* session and the screen there are.
Opened(sess, scr) == sess = cmdId /\ scr.flow \notin ReviewFlows
GoesOn(sess, scr) == sess = ctx.sess /\ scr = screen
Concludes ==
  /\ UNCHANGED << ioVars, cmdId >>
  /\ \/ Fails /\ UNCHANGED appVars
     \/ \E sess \in Nat \ {0}, scr \in {screen, FreshScreen} :
          Ends(sess, scr) /\ (Opened(sess, scr) \/ GoesOn(sess, scr))

\* A review opened at its first step has more to show.
LEMMA UnreadAtFirst ==
  \A f \in TxFlows \cup MsgFlows : ~(DisplaySteps(f) \subseteq {1})
<1> SUFFICES ASSUME NEW f \in TxFlows \cup MsgFlows
             PROVE  2 \in DisplaySteps(f)
  OBVIOUS
<1>1. CASE f = "sign_tx_simple"
  BY <1>1 DEF DisplaySteps, Steps
<1>2. CASE f = "sign_tx_detailed"
  BY <1>2 DEF DisplaySteps, Steps
<1>3. CASE f = "sign_personal_simple"
  BY <1>3 DEF DisplaySteps, Steps
<1>4. CASE f = "sign_personal_detailed"
  BY <1>4 DEF DisplaySteps, Steps
<1> QED BY <1>1, <1>2, <1>3, <1>4 DEF TxFlows, MsgFlows

\* A failing step drops the session, unless it touches the reply.
LEMMA FailingStep ==
  ASSUME Fails, UNCHANGED << reply, cmdId >>
  PROVE  Session!Next
<1>1. Doomed' /\ ~FreshNow'
  BY DEF Fails, Doomed, FreshNow
<1>2. SessionNow' = 0 /\ OfferNow' = Nothing /\ ~ReadNow'
  BY <1>1 DEF SessionNow, OfferNow, ReadNow, Offered
<1>3. SignedNow' = SignedNow
  BY DEF SignedNow
<1> QED BY <1>1, <1>2, <1>3, DropStep

\* Every end of a signing handler is a step of SigningSession.
LEMMA EndsStep ==
  ASSUME StepInv, pc = "dispatch", NEW sess \in Nat \ {0}, NEW scr, Ends(sess, scr),
         UNCHANGED << reply, cmdId >>, Opened(sess, scr) \/ GoesOn(sess, scr)
  PROVE  Session!Next
<1>1. FreshNow /\ ~Doomed /\ SessionNow = ctx.sess /\ SignedNow' = SignedNow
  BY DEF FreshNow, Doomed, SessionNow, SignedNow
<1>2. CASE Fails
  BY <1>2, FailingStep
<1>3. CASE ~Fails /\ pc' \in {"catch", "recv"} /\ ctx'.sess = sess
  <2>1. ~FreshNow' /\ ~Doomed' /\ SessionNow' = sess
    BY <1>3 DEF FreshNow, Fails, Doomed, SessionNow
  <2>2. CASE screen' = scr /\ strings' = strings
    <3>1. CASE Opened(sess, scr)
      <4>1. ~Offered'
        BY <2>2, <3>1, FlowKinds DEF Opened, Offered
      <4> QED BY <1>1, <2>1, <3>1, <4>1, OpenStep DEF Opened, OfferNow, ReadNow
    <3>2. CASE GoesOn(sess, scr)
      BY <1>1, <2>1, <2>2, <3>2, IgnoreStep DEF GoesOn, OfferNow, ReadNow, Offered
    <3> QED BY <3>1, <3>2
  <2>3. CASE screen'.flow = "error_blind_sign"
    <3>1. ~Offered'
      BY <2>3, FlowKinds DEF Offered
    <3>2. OfferNow' = Nothing /\ ~ReadNow'
      BY <3>1 DEF OfferNow, ReadNow
    <3> QED BY <1>1, <2>1, <3>2, OpenStep, WithdrawStep DEF Opened, GoesOn
  <2>4. CASE /\ \E f \in TxFlows \cup MsgFlows : screen' = Show(f, 1, cmdId)
             /\ strings'.sess = sess /\ strings'.fed \in Nat
    <3>1. PICK f \in TxFlows \cup MsgFlows : screen' = Show(f, 1, cmdId)
      BY <2>4
    <3>2. screen'.flow = f /\ screen'.seen = {1}
      BY <3>1, FlowKinds DEF Show
    <3>3. OfferNow' \in [sess : {SessionNow'}, fed : Nat]
      BY <2>1, <2>4, <3>2 DEF OfferNow, Offered, Covers
    <3>4. ~ReadNow'
      BY <3>2, UnreadAtFirst DEF ReadNow
    <3> QED BY <1>1, <2>1, <3>3, <3>4, PresentStep DEF Opened, GoesOn
  <2> QED BY <1>3, <2>2, <2>3, <2>4 DEF Ends
<1> QED BY <1>2, <1>3 DEF Ends
\* What a session's first command works on.
LEMMA OpenedContexts ==
  ASSUME TypeOK
  PROVE  LET opened == [FreshCtx EXCEPT !.sess = cmdId]
         IN /\ opened \in Contexts /\ opened.sess = cmdId
            /\ [opened EXCEPT !.phase = "head", !.fed = 0, !.finals = 0] \in Contexts
            /\ [opened EXCEPT !.phase = "head", !.fed = 0, !.finals = 0].sess = cmdId
            /\ \A n \in Nat :
                 LET c == [opened EXCEPT !.declared = n, !.remaining = n,
                                         !.fed = 0, !.finals = 0]
                 IN c \in Contexts /\ c.sess = cmdId
<1> DEFINE opened == [FreshCtx EXCEPT !.sess = cmdId]
<1>1. opened \in Contexts /\ opened.sess = cmdId
  BY OpenedType, FreshType DEF Contexts
<1> HIDE DEF opened
<1>2. LET c == [opened EXCEPT !.phase = "head", !.fed = 0, !.finals = 0]
      IN c \in Contexts /\ c.sess = cmdId
  BY <1>1 DEF Contexts, Phases
<1>3. \A n \in Nat :
        LET c == [opened EXCEPT !.declared = n, !.remaining = n, !.fed = 0, !.finals = 0]
        IN c \in Contexts /\ c.sess = cmdId
  BY <1>1 DEF Contexts
<1> QED BY <1>1, <1>2, <1>3 DEF opened

\* The first chunk of a transaction.
LEMMA ConcludesSignTxFirst ==
  ASSUME StepInv, pc = "dispatch", NEW h \in Accepted, SignTxFirst(h)
  PROVE  Concludes
<1>1. CASE h.lc = 0
  BY <1>1 DEF SignTxFirst, FailWith, Throw, Fails, Concludes, appVars
<1>2. CASE h.lc # 0
  <2> DEFINE opened == [FreshCtx EXCEPT !.sess = cmdId]
             parsing == [opened EXCEPT !.phase = "head", !.fed = 0, !.finals = 0]
  <2>1. /\ \/ FailWith("WRONG_DATA_LENGTH", opened, FreshScreen)
           \/ \E n \in {0, 1} : ProcessTxChunk(parsing, FreshScreen, n)
        /\ UNCHANGED << ioVars, cmdId >>
    BY <1>2, Zenon DEF SignTxFirst
  <2>2. /\ opened.sess = cmdId
        /\ parsing \in Contexts /\ parsing.sess = cmdId
    BY OpenedContexts DEF StepInv
  <2> HIDE DEF opened, parsing
  <2>3. Ends(cmdId, FreshScreen)
    BY <2>1, <2>2, FailEnds, TxChunkEndsSession
  <2>4. cmdId \in Nat \ {0} /\ Opened(cmdId, FreshScreen)
    BY Fresh, BoundsAssumption DEF StepInv, TypeOK, CmdIds, Numbered, Opened
  <2> QED BY <2>1, <2>3, <2>4 DEF Concludes
<1> QED BY <1>1, <1>2

\* A further chunk of a transaction.
LEMMA ConcludesSignTxMore ==
  ASSUME StepInv, pc = "dispatch", NEW h \in Accepted, SignTxMore(h)
  PROVE  Concludes
<1>1. CASE FailWith("BAD_STATE", ctx, screen)
  BY <1>1 DEF SignTxMore, FailWith, Throw, Fails, Concludes, appVars
<1>2. CASE appState = "SIGNING_TX" /\ ProcessTxChunk(ctx, screen, h.lc)
  <2>1. h.lc \in {0, 1} /\ ctx \in Contexts /\ ctx.sess \in Nat \ {0}
    BY <1>2, BoundsAssumption
       DEF Accepted, Headers, StepInv, TypeOK, Numbered, Contexts, CmdIds
  <2>2. Ends(ctx.sess, screen) /\ GoesOn(ctx.sess, screen)
    BY <1>2, <2>1, TxChunkEndsSession DEF GoesOn
  <2> QED BY <2>1, <2>2 DEF SignTxMore, Concludes
<1> QED BY <1>1, <1>2 DEF SignTxMore

\* The first chunk of a message.
LEMMA ConcludesSignPersonalFirst ==
  ASSUME StepInv, pc = "dispatch", NEW h \in Accepted, SignPersonalFirst(h)
  PROVE  Concludes
<1>1. CASE h.lc = 0
  BY <1>1 DEF SignPersonalFirst, FailWith, Throw, Fails, Concludes, appVars
<1>2. CASE h.lc # 0
  <2> DEFINE opened == [FreshCtx EXCEPT !.sess = cmdId]
             Announced(declared) ==
               [opened EXCEPT !.declared = declared, !.remaining = declared,
                              !.fed = 0, !.finals = 0]
  <2>1. /\ \/ \E sw \in { "WRONG_DATA_LENGTH", "INVALID_DATA" } :
                FailWith(sw, opened, FreshScreen)
           \/ \E declared, n \in 0..MaxMsg :
                ProcessMsgChunk(Announced(declared), FreshScreen, n)
        /\ UNCHANGED << ioVars, cmdId >>
    BY <1>2, Zenon DEF SignPersonalFirst
  <2>2. /\ opened.sess = cmdId
        /\ \A n \in Nat : Announced(n) \in Contexts /\ Announced(n).sess = cmdId
    BY OpenedContexts DEF StepInv
  <2>3. 0..MaxMsg \subseteq Nat
    BY BoundsAssumption
  <2> HIDE DEF opened, Announced
  <2>4. Ends(cmdId, FreshScreen)
    BY <2>1, <2>2, <2>3, FailEnds, MsgChunkEndsSession
  <2>5. cmdId \in Nat \ {0} /\ Opened(cmdId, FreshScreen)
    BY Fresh, BoundsAssumption DEF StepInv, TypeOK, CmdIds, Numbered, Opened
  <2> QED BY <2>1, <2>4, <2>5 DEF Concludes
<1> QED BY <1>1, <1>2

\* A further chunk of a message.
LEMMA ConcludesSignPersonalMore ==
  ASSUME StepInv, pc = "dispatch", NEW h \in Accepted, SignPersonalMore(h)
  PROVE  Concludes
<1>1. CASE FailWith("BAD_STATE", ctx, screen)
  BY <1>1 DEF SignPersonalMore, FailWith, Throw, Fails, Concludes, appVars
<1>2. CASE /\ appState = "SIGNING_PERSONAL"
           /\ \E n \in 0..MaxMsg : ProcessMsgChunk(ctx, screen, n)
  <2>1. 0..MaxMsg \subseteq Nat /\ ctx \in Contexts /\ ctx.sess \in Nat \ {0}
    BY <1>2, BoundsAssumption DEF StepInv, TypeOK, Numbered, Contexts, CmdIds
  <2>2. Ends(ctx.sess, screen) /\ GoesOn(ctx.sess, screen)
    BY <1>2, <2>1, MsgChunkEndsSession DEF GoesOn
  <2> QED BY <2>1, <2>2 DEF SignPersonalMore, Concludes
<1> QED BY <1>1, <1>2 DEF SignPersonalMore

\* So each of the four is a step of SigningSession.
LEMMA StepSigning ==
  ASSUME StepInv, pc = "dispatch", Concludes
  PROVE  Session!Next
BY EndsStep, FailingStep DEF Concludes, ioVars

\* A step that ends with a fresh or wiped session and no review drops it.
LEMMA WipingStep ==
  ASSUME cmdId' = cmdId, pc' # "dispatch", ctx' = ZeroCtx,
         screen'.flow \notin TxFlows \cup MsgFlows,
         SignedNow' \in {SignedNow, Nothing}
  PROVE  Session!Next
<1>1. ZeroCtx.sess = 0
  BY DEF ZeroCtx
<1>2. ~FreshNow' /\ SessionNow' = 0 /\ ~Offered'
  BY <1>1 DEF FreshNow, SessionNow, Offered
<1>3. OfferNow' = Nothing /\ ~ReadNow'
  BY <1>2 DEF OfferNow, ReadNow
<1> QED BY <1>2, <1>3, DropStep

\* GET_APP_INFO ends the session.
LEMMA StepGetAppInfo ==
  ASSUME StepInv, pc = "dispatch", NEW h \in Accepted, GetAppInfo(h)
  PROVE  Session!Next
<1>1. ctx' = ZeroCtx /\ screen'.flow \notin ReviewFlows
  BY Fresh DEF StepInv, GetAppInfo
<1>2. reply'.kind = "info"
  BY DEF GetAppInfo, IoSendResponse, MakeReply
<1>3. SignedNow' = Nothing
  BY <1>2 DEF SignedNow
<1>4. pc' # "dispatch" /\ cmdId' = cmdId
  BY DEF GetAppInfo, Return
<1> QED BY <1>1, <1>3, <1>4, FlowKinds, WipingStep

\* While a command is taken up the buffer holds no signature.
LEMMA NothingSigned ==
  ASSUME StepInv, pc = "dispatch"
  PROVE  SignedNow = Nothing
BY DEF StepInv, ErrorInv, SignedNow, Raw, MakeReply

\* GET_PUBLIC_KEY opens a session that offers nothing to sign.
LEMMA StepGetPublicKey ==
  ASSUME StepInv, pc = "dispatch", NEW h \in Accepted, GetPublicKey(h)
  PROVE  Session!Next
<1>1. FreshNow /\ cmdId' = cmdId /\ ctx'.sess = cmdId
  BY FreshType DEF FreshNow, StepInv, GetPublicKey, Contexts
<1>2. CASE Fails /\ UNCHANGED ioVars
  BY <1>1, <1>2, FailingStep DEF ioVars
<1>3. CASE /\ pc' = "recv"
           /\ screen' = FreshScreen \/ screen' = Show("get_pubkey", 1, cmdId)
           /\ reply' = reply \/ reply'.kind = "pubkey"
  <2>1. screen'.flow \notin TxFlows \cup MsgFlows
    BY <1>3, Fresh, FlowKinds DEF StepInv, Show
  <2>2. ~FreshNow' /\ ~Doomed' /\ ~Offered'
    BY <1>3, <2>1 DEF FreshNow, Doomed, Offered
  <2>3. SessionNow' = cmdId /\ OfferNow' = Nothing /\ ~ReadNow'
    BY <1>1, <2>2 DEF SessionNow, OfferNow, ReadNow
  <2>4. SignedNow' = SignedNow
    BY <1>3, NothingSigned DEF SignedNow
  <2> QED BY <1>1, <2>2, <2>3, <2>4, OpenStep
<1>4. CASE /\ Return
           /\ screen' = FreshScreen
           /\ IoSendResponse(MakeReply("pubkey", "OK", cmdId))
  BY <1>3, <1>4 DEF Return, IoSendResponse, MakeReply
<1> QED BY <1>2, <1>3, <1>4 DEF GetPublicKey, Throw, Return, Fails, ioVars

\* Every command is a step of SigningSession.
LEMMA StepHandle ==
  ASSUME StepInv, Handle
  PROVE  Session!Next
<1>1. pc = "dispatch" /\ FreshNow /\ ~Doomed
  BY DEF Handle, FreshNow, Doomed
<1>2. CASE CmdMalformed
  <2>1. /\ pc' = "recv" /\ reply'.kind = "frame" /\ UNCHANGED << cmdId, appVars, uiVars >>
    BY <1>2 DEF CmdMalformed, Return, IoSendResponse, MakeReply
  <2>2. SignedNow' = SignedNow
    BY <1>1, <2>1, NothingSigned DEF SignedNow
  <2>3. ~FreshNow' /\ UNCHANGED << SessionNow, OfferNow, ReadNow >>
    BY <1>1, <2>1 DEF FreshNow, SessionNow, OfferNow, ReadNow, Offered, Doomed, appVars, uiVars
  <2> QED BY <2>1, <2>2, <2>3, IgnoreStep
<1>3. ASSUME NEW sw \in Refusals, CmdRejected(sw)
      PROVE  Session!Next
  <2>1. sw # "OK"
    BY DEF Refusals
  <2> QED BY <1>3, <2>1, FailingStep DEF CmdRejected, Throw, Fails, ioVars
<1> QED BY <1>1, <1>2, <1>3, StepGetAppInfo, StepGetPublicKey, StepSigning,
           ConcludesSignTxFirst, ConcludesSignTxMore,
           ConcludesSignPersonalFirst, ConcludesSignPersonalMore
        DEF Handle
-----------------------------------------------------------------------------
\* The loop and the environment.

\* app_main's catch acknowledges, or finishes what the exception began.
LEMMA StepCatch ==
  ASSUME StepInv, CatchOther
  PROVE  Session!Next
<1>1. /\ pc = "catch" /\ pc' = "recv" /\ cmdId' = cmdId
      /\ strings' = strings /\ reply'.kind = "sw"
  BY DEF CatchOther, IoSendResponse, MakeReply
<1>2. SignedNow' = Nothing
  BY <1>1 DEF SignedNow
<1>3. CASE exc.sw = "OK"
  <2>1. UNCHANGED << ctx, screen >> /\ SignedNow = Nothing
    BY <1>1, <1>3 DEF CatchOther, KeepsContext, appVars, StepInv, Numbered, SignedNow
  <2>2. ~FreshNow' /\ UNCHANGED << SessionNow, OfferNow, ReadNow >>
    BY <1>1, <1>3, <2>1 DEF FreshNow, SessionNow, OfferNow, ReadNow, Offered, Doomed
  <2> QED BY <1>1, <1>2, <2>1, <2>2, IgnoreStep
<1>4. CASE exc.sw # "OK"
  <2>1. ctx' = ZeroCtx /\ screen' = MainMenu
    BY <1>4 DEF CatchOther, KeepsContext, ResetAppContext
  <2> QED BY <1>1, <1>2, <2>1, MainMenuFlow, FlowKinds, WipingStep DEF MenuFlows
<1> QED BY <1>3, <1>4

\* A step that shows in SigningSession not at all.
Hidden == UNCHANGED << cmdId, FreshNow, SessionNow, OfferNow, ReadNow, SignedNow >>

\* Starting up, waiting for a command and a reset of the connection.
LEMMA StepLoop ==
  ASSUME StepInv, Boot \/ IoRecvCommand \/ Receive \/ UsbReset
  PROVE  Session!Next \/ Hidden
<1>1. CASE Boot
  BY <1>1, MainMenuFlow, FlowKinds
     DEF Boot, Hidden, FreshNow, SessionNow, OfferNow, ReadNow, SignedNow, Offered,
         Doomed, ZeroCtx, MenuFlows
<1>2. CASE IoRecvCommand
  <2>1. /\ pc = "recv" /\ pc' = "wait"
        /\ UNCHANGED << cmdId, ctx, screen, strings, reply >>
    BY <1>2 DEF IoRecvCommand, StepInv, IoInv, appVars, uiVars
  <2> QED BY <2>1 DEF Hidden, FreshNow, SessionNow, OfferNow, ReadNow, SignedNow,
                      Offered, Doomed
<1>3. CASE Receive
  <2>1. /\ pc = "wait" /\ pc' = "dispatch" /\ cmdId' = cmdId + 1 /\ reply' = Raw
        /\ UNCHANGED << ctx, screen, strings >>
    BY <1>3 DEF Receive, appVars, uiVars
  <2>2. SignedNow' = Nothing /\ FreshNow'
    BY <2>1 DEF SignedNow, FreshNow, Raw, MakeReply
  <2>3. UNCHANGED << SessionNow, OfferNow, ReadNow >>
    BY <2>1 DEF SessionNow, OfferNow, ReadNow, Offered, Doomed
  <2> QED BY <2>1, <2>2, <2>3, ReceiveStep
<1>4. CASE UsbReset
  <2>1. pc' = "boot" /\ UNCHANGED << cmdId, reply >>
    BY <1>4 DEF UsbReset
  <2>2. ~FreshNow' /\ SessionNow' = 0 /\ OfferNow' = Nothing /\ ~ReadNow'
    BY <2>1 DEF FreshNow, SessionNow, OfferNow, ReadNow, Offered, Doomed
  <2>3. SignedNow' = SignedNow
    BY <2>1 DEF SignedNow
  <2> QED BY <2>1, <2>2, <2>3, DropStep
<1> QED BY <1>1, <1>2, <1>3, <1>4

\* A loss of power, or leaving the application.
LEMMA StepRestart ==
  ASSUME Restart
  PROVE  Session!Next
<1>1. pc' = "boot" /\ cmdId' = cmdId /\ reply' = Raw
  BY DEF Restart
<1>2. ~FreshNow' /\ SessionNow' = 0 /\ OfferNow' = Nothing /\ ~ReadNow'
  BY <1>1 DEF FreshNow, SessionNow, OfferNow, ReadNow, Offered, Doomed
<1>3. SignedNow' = Nothing
  BY <1>1 DEF SignedNow, Raw, MakeReply
<1> QED BY <1>1, <1>2, <1>3, DropStep
-----------------------------------------------------------------------------
\* The buttons.

\* A review of a transaction or a message offers its session.
LEMMA ReviewOffers ==
  ASSUME StepInv, pc = "wait", screen.flow \in TxFlows \cup MsgFlows
  PROVE  /\ OfferNow = Covers(strings) /\ OfferNow = Covers(ctx.digest)
         /\ OfferNow # Nothing
         /\ callback \in {"tx", "msg"}
<1>1. /\ appState # "IDLE"
      /\ strings.sess = ctx.digest.sess /\ strings.fed = ctx.digest.fed
      /\ ctx.digest.sess = ctx.sess
      /\ callback \in {"tx", "msg"}
  BY DEF StepInv, SessionInv, Settled, TxReview, MsgReview
<1>2. strings.sess # 0
  BY <1>1, BoundsAssumption DEF StepInv, Numbered, TypeOK, Contexts, CmdIds
<1>3. OfferNow = Covers(strings)
  BY DEF OfferNow, Offered, Doomed
<1> QED BY <1>1, <1>2, <1>3 DEF Covers, Nothing, NoStrings

\* Moving through a flow: at most the end of the offer is reached.
LEMMA StepMove ==
  ASSUME StepInv, PressRight \/ PressLeft
  PROVE  Session!Next \/ Hidden
<1>1. /\ pc = "wait" /\ pc' = "wait" /\ screen'.flow = screen.flow
      /\ screen.flow \in ReviewFlows => screen.seen \subseteq screen'.seen
      /\ UNCHANGED << cmdId, ctx, strings, reply >>
  <2>1. PICK i : MoveTo(i)
    BY DEF PressRight, PressLeft
  <2>2. screen \in Screens
    BY DEF StepInv, TypeOK
  <2> QED BY <2>1, <2>2 DEF MoveTo, ioVars, appVars, Screens
<1>2. UNCHANGED << FreshNow, SessionNow, OfferNow, SignedNow >>
  BY <1>1 DEF FreshNow, SessionNow, OfferNow, SignedNow, Offered, Doomed
<1>3. CASE ReadNow'
  <2>1. screen.flow \in TxFlows \cup MsgFlows
    BY <1>1, <1>3 DEF ReadNow, Offered
  <2> QED BY <1>1, <1>2, <1>3, <2>1, ReviewOffers, ReadStep
<1>4. CASE ~ReadNow'
  <2>1. ~ReadNow
    BY <1>1, <1>4, FlowKinds DEF ReadNow, Offered, Doomed
  <2>2. UNCHANGED ReadNow
    BY <1>4, <2>1 DEF ReadNow
  <2> QED BY <1>1, <1>2, <2>2 DEF Hidden
<1> QED BY <1>3, <1>4

\* The menus offer nothing.
LEMMA StepMenus ==
  ASSUME \/ OpenSettings \/ OpenAbout \/ Back
         \/ ToggleBlindSigning \/ ToggleDetailedDisplay
  PROVE  Hidden
<1>1. /\ screen.flow \notin TxFlows \cup MsgFlows
      /\ screen'.flow \notin TxFlows \cup MsgFlows
  BY DEF OpenSettings, OpenAbout, Back, ToggleBlindSigning, ToggleDetailedDisplay,
     Menu, At, MainMenu, Show, TxFlows, MsgFlows
<1>2. UNCHANGED << pc, cmdId, ctx, reply, exc >>
  BY DEF OpenSettings, OpenAbout, Back, ToggleBlindSigning, ToggleDetailedDisplay,
     Menu, ioVars, appVars
<1> QED BY <1>1, <1>2 DEF Hidden, FreshNow, SessionNow, OfferNow, ReadNow, SignedNow,
                          Offered, Doomed

\* An approval signs the offer; it is reached at the end of the review only.
LEMMA StepApprove ==
  ASSUME StepInv, SignDigest, NEW cb \in {"tx", "msg"}, Decides(cb, TRUE)
  PROVE  Session!Next
<1>1. /\ pc = "wait" /\ callback = cb
      /\ screen.flow \in ReviewFlows
      /\ Steps(screen.flow)[screen.step] = "accept"
  BY DEF Decides, At
<1>2. screen.flow \in TxFlows \cup MsgFlows
  BY <1>1, FlowKinds DEF StepInv, SessionInv, Settled, PubkeyReview
<1>3. ReadNow
  <2>1. /\ screen.step \in 1..Len(Steps(screen.flow))
        /\ 1..screen.step \subseteq screen.seen
    BY <1>1 DEF StepInv, TypeOK, SeenInv
  <2>2. DisplaySteps(screen.flow) \subseteq 1..screen.step
    BY <1>1, <2>1, DecisionsLast
  <2> QED BY <1>1, <1>2, <2>1, <2>2 DEF ReadNow, Offered, Doomed
<1>4. OfferNow # Nothing /\ OfferNow = Covers(ctx.digest)
  BY <1>1, <1>2, ReviewOffers
<1>5. /\ pc' = pc /\ cmdId' = cmdId /\ ctx' = ZeroCtx /\ screen' = MainMenu
  BY DEF SignDigest, Decides, ResetAppContext
<1>6. reply'.kind = "sig" /\ reply'.digest = ctx.digest
  <2>1. reply' = [MakeReply("sig", "OK", screen.by)
                    EXCEPT !.digest = ctx.digest, !.shown = strings]
    BY DEF SignDigest, IoSendResponse
  <2> QED BY <2>1 DEF MakeReply
<1>7. SignedNow' = OfferNow
  BY <1>4, <1>6 DEF SignedNow, Covers
<1>8. /\ SessionNow' = 0 /\ OfferNow' = Nothing /\ ~ReadNow'
      /\ UNCHANGED FreshNow
  BY <1>1, <1>5, MainMenuFlow, FlowKinds
     DEF SessionNow, OfferNow, ReadNow, FreshNow, Offered, Doomed, ZeroCtx, MenuFlows
<1> QED BY <1>3, <1>4, <1>5, <1>7, <1>8, ApproveStep

\* A refusal, and a signature that fails.
LEMMA StepRefuse ==
  ASSUME NEW sw, sw # "OK", NEW by, Throw(sw, by), UNCHANGED << ioVars, cmdId >>
  PROVE  Session!Next
BY FailingStep DEF Throw, Fails, ioVars

\* Every button is a step of SigningSession or hidden.
LEMMA StepUser ==
  ASSUME StepInv, User
  PROVE  Session!Next \/ Hidden
<1>1. CASE DismissBlindSignError
  BY <1>1, StepRefuse DEF DismissBlindSignError
<1>2. ASSUME NEW choice \in BOOLEAN, ValidatePubkey(choice)
      PROVE  Session!Next
  <2>1. cmdId' = cmdId /\ pc = "wait"
    BY <1>2 DEF ValidatePubkey, Decides, At
  <2>2. CASE choice
    <3>1. /\ ctx' = ZeroCtx /\ screen' = MainMenu /\ reply'.kind = "pubkey"
          /\ pc' = pc
      BY <1>2, <2>2 DEF ValidatePubkey, ResetAppContext, IoSendResponse, MakeReply
    <3>2. SignedNow' = Nothing
      BY <3>1 DEF SignedNow
    <3> QED BY <2>1, <3>1, <3>2, MainMenuFlow, FlowKinds, WipingStep DEF MenuFlows
  <2>3. CASE ~choice
    BY <1>2, <2>1, <2>3, StepRefuse DEF ValidatePubkey
  <2> QED BY <2>2, <2>3
<1>3. ASSUME NEW choice \in BOOLEAN, NEW cb \in {"tx", "msg"},
             Decides(cb, choice), SignOrDeny(choice)
      PROVE  Session!Next
  <2>1. cmdId' = cmdId
    BY <1>3 DEF Decides
  <2>2. CASE choice /\ SignDigest
    BY <1>3, <2>2, StepApprove
  <2>3. CASE \E sw \in { "SIGNATURE_FAIL", "OS", "DENY" } : ThrowIdle(sw)
    BY <2>1, <2>3, StepRefuse DEF ThrowIdle
  <2> QED BY <1>3, <2>2, <2>3 DEF SignOrDeny
<1> QED BY <1>1, <1>2, <1>3, StepMove, StepMenus
        DEF User, ValidateTransaction, SignPersonal

-----------------------------------------------------------------------------
\* Numbered.

\* Every command leaves its session with a number.
LEMMA NumberedHandle ==
  ASSUME StepInv, Handle
  PROVE  Numbered'
<1>1. /\ pc = "dispatch" /\ reply = Raw /\ reply.kind # "sig"
      /\ cmdId \in Nat \ {0}
  BY BoundsAssumption
     DEF Handle, StepInv, ErrorInv, Numbered, TypeOK, CmdIds, Raw, MakeReply
<1>2. CASE CmdMalformed \/ \E sw \in Refusals : CmdRejected(sw)
  BY <1>1, <1>2
     DEF CmdMalformed, CmdRejected, Throw, Return, StepInv, Numbered, ioVars, appVars
<1>3. ASSUME NEW h \in Accepted, GetAppInfo(h)
      PROVE  Numbered'
  BY <1>3 DEF GetAppInfo, Return, Numbered
<1>4. ASSUME NEW h \in Accepted, GetPublicKey(h)
      PROVE  Numbered'
  <2>1. ctx'.sess = cmdId /\ cmdId' = cmdId
    BY <1>4, FreshType DEF GetPublicKey, StepInv, Contexts
  <2>2. pc' = "recv" \/ Fails
    BY <1>4 DEF GetPublicKey, Return, Throw, Fails
  <2> QED BY <1>1, <2>1, <2>2 DEF Numbered, Fails
<1>5. CASE Concludes
  BY <1>1, <1>5 DEF Concludes, Ends, Fails, Numbered, StepInv, ioVars, appVars
<1> QED BY <1>1, <1>2, <1>3, <1>4, <1>5,
           ConcludesSignTxFirst, ConcludesSignTxMore,
           ConcludesSignPersonalFirst, ConcludesSignPersonalMore
        DEF Handle

\* Every step keeps Numbered.
LEMMA NumberedNext ==
  ASSUME StepInv, [Next]_vars
  PROVE  Numbered'
<1>1. CASE Boot \/ PowerLoss \/ Quit
  BY <1>1 DEF Boot, PowerLoss, Quit, Restart, Numbered
<1>2. CASE Receive
  BY <1>2, BoundsAssumption DEF Receive, Numbered, appVars, StepInv, TypeOK, CmdIds
<1>3. CASE IoRecvCommand \/ UsbReset
  BY <1>3 DEF IoRecvCommand, UsbReset, Numbered, appVars, StepInv
<1>4. CASE CatchOther
  BY <1>4 DEF CatchOther, ResetAppContext, Numbered, appVars, StepInv
<1>5. CASE \/ PressRight \/ PressLeft \/ OpenSettings \/ OpenAbout \/ Back
           \/ ToggleBlindSigning \/ ToggleDetailedDisplay
  BY <1>5 DEF PressRight, PressLeft, MoveTo, OpenSettings, OpenAbout, Back,
     ToggleBlindSigning, ToggleDetailedDisplay, Menu, At, Numbered, appVars, StepInv
<1>6. CASE DismissBlindSignError
  BY <1>6 DEF DismissBlindSignError, Throw, At, Numbered, appVars, StepInv
<1>7. CASE \E choice \in BOOLEAN :
             ValidatePubkey(choice) \/ ValidateTransaction(choice) \/ SignPersonal(choice)
  <2>1. pc = "wait"
    BY <1>7 DEF ValidatePubkey, ValidateTransaction, SignPersonal, Decides, At
  <2>2. CASE ResetAppContext /\ UNCHANGED << pc, exc >>
    BY <2>1, <2>2 DEF ResetAppContext, Numbered
  <2>3. CASE Throw("DENY", screen.by) /\ UNCHANGED appVars
    BY <2>3 DEF Throw, appVars, Numbered, StepInv
  <2>4. CASE \E sw \in { "SIGNATURE_FAIL", "OS", "DENY" } : ThrowIdle(sw)
    BY <2>4 DEF ThrowIdle, Throw, Numbered
  <2> QED BY <1>7, <2>2, <2>3, <2>4
          DEF ValidatePubkey, ValidateTransaction, SignPersonal, SignOrDeny, SignDigest
<1>8. CASE UNCHANGED vars
  BY <1>8 DEF vars, ioVars, appVars, Numbered, StepInv
<1> QED BY <1>1, <1>2, <1>3, <1>4, <1>5, <1>6, <1>7, <1>8, NumberedHandle
        DEF Next, System, User

-----------------------------------------------------------------------------
\* The refinement.

\* Every step maps to a step of SigningSession or to none.
LEMMA StepSimulates ==
  ASSUME StepInv, [Next]_vars
  PROVE  [Session!Next]_Session!vars
<1>1. Hidden => UNCHANGED Session!vars
  BY DEF Hidden, Session!vars
<1>2. CASE UNCHANGED vars
  <2>1. UNCHANGED << pc, cmdId, exc, ctx, screen, strings, reply >>
    BY <1>2 DEF vars, ioVars, appVars, uiVars
  <2>2. Hidden
    BY <2>1 DEF Hidden, FreshNow, SessionNow, OfferNow, ReadNow, SignedNow, Offered, Doomed
  <2> QED BY <1>1, <2>2
<1> QED BY <1>1, <1>2, StepHandle, StepCatch, StepLoop, StepRestart, StepUser
        DEF Next, System, PowerLoss, Quit

\* ConfluxApp implements SigningSession: a signature covers what was offered
\* and read, the session ends with it, and every failure ends the session.
THEOREM ImplementsSession == Spec => Implements
<1>1. Init => Session!Init
  BY DEF Init, Session!Init, Session!None, FreshNow, SessionNow, OfferNow, ReadNow,
     SignedNow, Offered, Doomed, Nothing, Covers, NoStrings, Raw, MakeReply
<1>2. Init => IoInv /\ SessionInv /\ SeenInv /\ ErrorInv /\ Numbered
  BY MainMenuFlow, FlowKinds
     DEF Init, IoInv, SessionInv, SeenInv, ErrorInv, Numbered, NoWire, PubkeyReview,
         TxReview, MsgReview, BlindSignGate, MenuFlows
<1> DEFINE Rest == IoInv /\ SessionInv /\ SeenInv /\ ErrorInv /\ Numbered
<1>3. TypeOK /\ Rest /\ [Next]_vars => Rest'
  BY IoNext, SessionNext, SeenNext, ErrorNext, NumberedNext DEF StepInv
<1>4. TypeOK /\ Rest /\ [Next]_vars => [Session!Next]_Session!vars
  BY StepSimulates DEF StepInv
<1> HIDE DEF Rest
<1>5. Init => Rest
  BY <1>2 DEF Rest
<1> QED BY <1>1, <1>3, <1>4, <1>5, TypeCorrect, PTL DEF Spec, Implements, Session!Spec
============================================================================
