------------------------------ MODULE JobAnswer ------------------------------
(***************************************************************************)
(* What the pull loop promises the gateway about the jobs of ONE           *)
(* connection (src/src/run.rs 1-6, src/src/protocol.rs 14-16): jobs are    *)
(* served one at a time; the answer to a job is a series of chunk frames,  *)
(* bounded in total size, and then a terminal frame (done or job_error);   *)
(* the next job starts only after that.  The wall-clock limit may OVERRULE *)
(* a job at any moment until its answer has left, with a job_error of its  *)
(* own.  A lost connection forgets everything: the gateway re-queues.      *)
(*                                                                         *)
(* PullLoop implements this specification (PullLoop!Answers).              *)
(***************************************************************************)
EXTENDS Integers, Sequences

CONSTANTS Jobs,          \* job deliveries of one connection
          NoJob,         \* "no job is being served"
          MaxJobOutput,  \* limits::MAX_JOB_OUTPUT_BYTES
          DeltaSizes     \* lengths of a non-empty SSE delta

VARIABLES stage,    \* where the job being served stands
          current,  \* the job being served, or NoJob
          taken,    \* jobs read off this connection
          answer,   \* answer[j]: the frames queued for j, in order
          sent      \* sent[j]: bytes of the chunk frames queued for j

vars == <<stage, current, taken, answer, sent>>

Terminal == {"done", "job_error"}
FrameKinds == {"chunk"} \union Terminal

TypeOK ==
  /\ stage \in {"none", "streaming", "ended", "overruled"}
  /\ current \in Jobs \union {NoJob}
  /\ taken \subseteq Jobs
  /\ answer \in [Jobs -> Seq(FrameKinds)]
  /\ sent \in [Jobs -> Nat]

Init ==
  /\ stage = "none"
  /\ current = NoJob
  /\ taken = {}
  /\ answer = [j \in Jobs |-> << >>]
  /\ sent = [j \in Jobs |-> 0]

Queue(f) == answer' = [answer EXCEPT ![current] = Append(@, f)]

Take(j) ==
  /\ stage = "none"
  /\ j \notin taken
  /\ stage' = "streaming"
  /\ current' = j
  /\ taken' = taken \union {j}
  /\ UNCHANGED <<answer, sent>>

Chunk(n) ==
  /\ stage = "streaming"
  /\ sent[current] + n <= MaxJobOutput
  /\ Queue("chunk")
  /\ sent' = [sent EXCEPT ![current] = @ + n]
  /\ UNCHANGED <<stage, current, taken>>

End(f) ==
  /\ stage = "streaming"
  /\ stage' = "ended"
  /\ Queue(f)
  /\ UNCHANGED <<current, taken, sent>>

Overrule ==
  /\ stage \in {"streaming", "ended"}
  /\ stage' = "overruled"
  /\ Queue("job_error")
  /\ UNCHANGED <<current, taken, sent>>

Release ==
  /\ stage \in {"ended", "overruled"}
  /\ stage' = "none"
  /\ current' = NoJob
  /\ UNCHANGED <<taken, answer, sent>>

Drop ==
  /\ stage' = "none"
  /\ current' = NoJob
  /\ taken' = {}
  /\ answer' = [j \in Jobs |-> << >>]
  /\ sent' = [j \in Jobs |-> 0]

Next ==
  \/ \E j \in Jobs : Take(j)
  \/ \E n \in DeltaSizes : Chunk(n)
  \/ \E f \in Terminal : End(f)
  \/ Overrule
  \/ Release
  \/ Drop

Spec == Init /\ [][Next]_vars

-----------------------------------------------------------------------------
HasTerminal(s) == \E i \in 1..Len(s) : s[i] \in Terminal

\* A terminal frame may only be followed by the job_error of the time limit,
\* and that one by nothing.
Orderly(s) ==
  \A i \in 1..Len(s) :
    s[i] \in Terminal => /\ i >= Len(s) - 1
                         /\ i < Len(s) => s[Len(s)] = "job_error"

(***************************************************************************)
(* The gateway may close the books on a job as soon as the client turns to *)
(* the next one: every job taken off this connection, except the one in    *)
(* service, has had a terminal frame, no chunk follows a terminal frame    *)
(* (run.rs 284-368), and no job carries more than the output limit.        *)
(***************************************************************************)
AnswersInTurn ==
  /\ \A j \in taken \ {current} : HasTerminal(answer[j])
  /\ \A j \in Jobs : Orderly(answer[j]) /\ sent[j] <= MaxJobOutput
  /\ \A j \in Jobs \ taken : answer[j] = << >>
=============================================================================
