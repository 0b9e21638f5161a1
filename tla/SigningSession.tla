--------------------------- MODULE SigningSession ---------------------------
(***************************************************************************)
(* What the application promises about signatures, without its mechanism:  *)
(* no loop, no exceptions, no reply state machine, no screens.             *)
(*                                                                         *)
(* A command may open a session, and replaces any other by doing so.  A    *)
(* session may be offered to the user: so much of it is put on the screen. *)
(* An offer is signed only once the user has read it to its end and        *)
(* approved it, the signature covers the offer, and the session ends with  *)
(* it.  Anything may fail at any time, and then nothing is left to sign.   *)
(***************************************************************************)
EXTENDS Naturals

VARIABLES
  now,      \* number of the last command
  fresh,    \* that command has not been taken up yet
  session,  \* the command that opened the session, 0 without one
  offer,    \* what the user is asked to sign, or None
  read,     \* the user has seen all of the offer
  signed    \* what the last reply signs, or None

vars == << now, fresh, session, offer, read, signed >>

Offers == [sess : Nat, fed : Nat]
None   == [sess |-> 0, fed |-> 0]

Init ==
  /\ now = 0 /\ fresh = FALSE
  /\ session = 0 /\ offer = None /\ read = FALSE
  /\ signed = None

NoOffer == offer' = None /\ read' = FALSE

\* The host sends a command; the session and the offer stay as they are.
Receive ==
  /\ now' = now + 1
  /\ fresh' = TRUE
  /\ signed' = None
  /\ UNCHANGED << session, offer, read >>

\* The command has no effect on the session, or is acknowledged.
Ignore ==
  /\ fresh' = FALSE
  /\ UNCHANGED << now, session, offer, read, signed >>

TakeUp == fresh /\ fresh' = FALSE /\ UNCHANGED << now, signed >>

\* The command opens a session, which ends the previous one and its offer.
Open ==
  /\ TakeUp
  /\ session' = now
  /\ NoOffer

\* The command completes its own session or the one that was open: the user
\* is asked about that one, and starts to read.
Present ==
  /\ TakeUp
  /\ session' \in {session, now} \ {0}
  /\ offer' \in [sess : {session'}, fed : Nat]
  /\ read' = FALSE

\* The open session must not be signed; it is not offered any longer.
Withdraw ==
  /\ TakeUp
  /\ UNCHANGED session
  /\ NoOffer

\* The user reaches the end of the offer.
Read ==
  /\ offer # None
  /\ read' = TRUE
  /\ UNCHANGED << now, fresh, session, offer, signed >>

\* The user approves what was read to its end.
Approve ==
  /\ offer # None /\ read
  /\ signed' = offer
  /\ session' = 0
  /\ NoOffer
  /\ UNCHANGED << now, fresh >>

\* A refusal, an error, another kind of command, a reset of the connection
\* or of the device.
Drop ==
  /\ fresh' = FALSE
  /\ session' = 0
  /\ NoOffer
  /\ signed' \in {signed, None}
  /\ UNCHANGED now

Next ==
  \/ Receive \/ Ignore \/ Open \/ Present \/ Withdraw
  \/ Read \/ Approve \/ Drop

Spec == Init /\ [][Next]_vars
============================================================================
