----------------------------- MODULE TxPhases -----------------------------
(***************************************************************************)
(* What the command handlers need to know of the transaction parser        *)
(* (src/eth/rlp_parser.c): the group of fields it has reached and what one *)
(* call of process_tx_chunk may return from there.  ConfluxApp works with  *)
(* this summary; RlpParser models the parser itself and is shown to keep   *)
(* to it.                                                                  *)
(***************************************************************************)
EXTENDS Naturals

\* parser_context.currentField: not initialised, a field ahead of V, V
\* itself, R or S, everything read.
Phases == { "none", "head", "v", "tail", "done" }

\* Where a call that starts in a phase can end.
Onwards(phase) ==
  CASE phase = "head" -> { "head", "v", "tail", "done" }
    [] phase = "v"    -> { "v", "tail", "done" }
    [] phase = "tail" -> { "tail", "done" }
    [] OTHER          -> { "done" }

\* The results of a call with an empty chunk (n = 0) or another.  The chunk
\* may end at or inside V (a transaction without v, r, s is complete there);
\* nothing is read once the last field is done.
TxOutcomes(phase, n) ==
  { o \in [phase : Onwards(phase), status : {"PROCESSING", "FINISHED", "FAULT"}] :
      /\ o.status = "FINISHED" => o.phase \in { "v", "done" }
      /\ o.status # "FINISHED" => o.phase # "done"
      /\ o.status = "FAULT"    => n > 0
      /\ n = 0 => o.phase = phase /\ (phase = "v" => o.status = "FINISHED") }
============================================================================
