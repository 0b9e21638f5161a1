-------------------------- MODULE MCCommandPayload --------------------------
(***************************************************************************)
(* Commands for TLC: requests, encoded as COMMANDS.md says, the longest of *)
(* each kind also cut short at every byte, and frames with a wrong Lc.     *)
(***************************************************************************)
EXTENDS CommandPayloadProps, SequencesExt

Word(n) == << 0, 0, n, n + 1 >>

MCRequests ==
  [ kind : Kinds, path : { << Word(1) >>, << Word(1), Word(11) >> },
    chain : { Word(31) }, length : { Word(41) }, chunk : { << >>, << 51 >> } ]

Cut(s) == { SubSeq(s, 1, n) : n \in 0..Len(s) }

MCFrames ==
  LET whole == { r \in MCRequests : Len(r.path) = 2 /\ r.chunk # << >> } IN
  { FrameOf(r.kind, Payload(r)) : r \in MCRequests }
  \cup UNION { { FrameOf(r.kind, p) : p \in Cut(Payload(r)) } : r \in whole }
  \cup { << 224, 4, 0, 0 >>, << 224, 4, 0, 0, 9, 1 >>,
         FrameOf(<< SIGN_TX, 0 >>, << 0, 1, 2, 3, 4 >>),
         FrameOf(<< SIGN_TX, 0 >>, << 3 >> \o FlattenSeq([i \in 1..3 |-> Word(i)])) }

-----------------------------------------------------------------------------
\* Claims the code does not keep.

\* "buffer too small": a path is read only from a payload that holds it.
ShortPathRejected == path # << >> => 1 + 4 * Len(path) <= size
============================================================================
