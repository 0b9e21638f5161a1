------------------------------ MODULE UxFlows ------------------------------
(***************************************************************************)
(* The screens of the application (src/ui/flows.c, src/ui/steps.c): a flow *)
(* is a sequence of steps; the two buttons move to the neighbouring step,  *)
(* and pressing both runs the callback of the step on the screen.  Only a  *)
(* flow declared with FLOW_LOOP wraps around.                              *)
(***************************************************************************)
EXTENDS Naturals, Sequences

MenuFlows   == {"main_menu", "settings", "about"}
TxFlows     == {"sign_tx_simple", "sign_tx_detailed"}
MsgFlows    == {"sign_personal_simple", "sign_personal_detailed"}
ReviewFlows == {"get_pubkey"} \cup TxFlows \cup MsgFlows
Flows       == MenuFlows \cup ReviewFlows \cup {"error_blind_sign"}

\* The UX_FLOW declarations.
Steps(flow) ==
  CASE flow = "main_menu" -> << "ready", "settings", "about", "exit" >>
    [] flow = "settings"  -> << "blind_sign", "display_style", "back" >>
    [] flow = "about"     -> << "about", "version", "back" >>
    [] flow = "get_pubkey" ->
         << "start", "path", "address", "accept", "reject" >>
    [] flow = "sign_tx_simple" ->
         << "start", "receiver", "amount", "fees", "accept", "reject" >>
    [] flow = "sign_tx_detailed" ->
         << "start", "sender", "receiver", "amount", "fees", "nonce",
            "network", "data", "accept", "reject" >>
    [] flow = "sign_personal_simple" ->
         << "start", "hash", "accept", "reject" >>
    [] flow = "sign_personal_detailed" ->
         << "start", "signer", "hash", "accept", "reject" >>
    [] OTHER -> << "blind_sign_disabled" >>

\* A seeded fault: the review flows declared with FLOW_LOOP as well.
LoopsEverywhere(flow) == TRUE

\* Flows declared with FLOW_LOOP.
Loops(flow) == flow \in MenuFlows

\* The step the right (left) button leads to: lib_ux, as the flows use it.
StepRight(flow, i) ==
  IF i < Len(Steps(flow)) THEN i + 1 ELSE IF Loops(flow) THEN 1 ELSE i

StepLeft(flow, i) ==
  IF i > 1 THEN i - 1 ELSE IF Loops(flow) THEN Len(Steps(flow)) ELSE i

\* What a review has to show before it asks: every step ahead of "accept".
DisplaySteps(flow) ==
  {i \in 1..Len(Steps(flow)) : Steps(flow)[i] \notin {"accept", "reject"}}
============================================================================
