----------------------------- MODULE MCPullLoop -----------------------------
(***************************************************************************)
(* PullLoop for TLC.                                                       *)
(***************************************************************************)
EXTENDS PullLoop

\* A proper challenge, one that decodes to 31 bytes, one that does not decode,
\* and an overlong string.
MCNonces ==
  {[chars |-> 44, bytes |-> 32], [chars |-> 43, bytes |-> 31]}
    \union {[chars |-> 44, bytes |-> -1], [chars |-> 65, bytes |-> 48]}
=============================================================================
