------------------------- MODULE ConfluxAppSession -------------------------
(***************************************************************************)
(* ConfluxApp implements SigningSession.  From the moment an exception is  *)
(* on its way that app_main answers with an error, or the program is about *)
(* to start over, its session counts as gone: what is left of it in        *)
(* G_context and on the screen is never acted upon again.                  *)
(***************************************************************************)
EXTENDS ConfluxAppProps

Doomed  == pc = "boot" \/ (pc = "catch" /\ exc.sw # "OK")
Offered == ~Doomed /\ screen.flow \in TxFlows \cup MsgFlows

Covers(x) == [sess |-> x.sess, fed |-> x.fed]
Nothing   == Covers(NoStrings)

SessionNow == IF Doomed THEN 0 ELSE ctx.sess
OfferNow   == IF Offered THEN Covers(strings) ELSE Nothing
ReadNow    == Offered /\ DisplaySteps(screen.flow) \subseteq screen.seen
SignedNow  == IF reply.kind = "sig" THEN Covers(reply.digest) ELSE Nothing
FreshNow   == pc = "dispatch"

Session == INSTANCE SigningSession WITH
  now     <- cmdId,
  fresh   <- FreshNow,
  session <- SessionNow,
  offer   <- OfferNow,
  read    <- ReadNow,
  signed  <- SignedNow

\* A signature covers one session, opened by one command, exactly as far as
\* the user was shown it and read it to its end; it ends the session, and so
\* does every failure, refusal and reset (app_main, the handlers and the
\* callbacks of the review flows).
Implements == Session!Spec

-----------------------------------------------------------------------------
\* What the proof needs beyond the invariants of ConfluxAppProps: sessions
\* have the number of a command, and a command is acknowledged only before
\* there is anything in the buffer.
Numbered ==
  /\ pc = "dispatch" => cmdId > 0
  /\ appState # "IDLE" => ctx.sess > 0
  /\ pc = "catch" /\ exc.sw = "OK" => reply.kind # "sig"
============================================================================
