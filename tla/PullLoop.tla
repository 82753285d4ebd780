------------------------------ MODULE PullLoop ------------------------------
(***************************************************************************)
(* `nexus-client start`: src/src/run.rs.  One client process dials the     *)
(* gateway, signs the gateway's challenge, waits for `ready` and serves    *)
(* one job at a time over the socket; a lost socket is redialled after an  *)
(* exponential backoff; ctrl-c may arrive at any await.                    *)
(*                                                                         *)
(* The process is one task, so a step is the code between two awaits.  pc  *)
(* names the await the task is suspended in; every other step belongs to   *)
(* the gateway, the network, the upstream model, a timer or the user.      *)
(*                                                                         *)
(* Data: a job is one delivery of a `job` frame; a nonce is the length of  *)
(* its base58 string and the number of bytes it decodes to; a delta is its *)
(* length.  SseStream models how upstream bytes become deltas.             *)
(***************************************************************************)
EXTENDS Integers, Sequences, FiniteSets

CONSTANTS
  Jobs,           \* deliveries of `job` frames on one connection
  NoJob,          \* not a job
  Nonces,         \* challenges the gateway may send
  MaxNonceChars,  \* limits::MAX_NONCE_CHARS
  NonceBytes,     \* limits::NONCE_BYTES
  AuthDomainTag,  \* limits::AUTH_DOMAIN_TAG
  MaxJobOutput,   \* limits::MAX_JOB_OUTPUT_BYTES
  DeltaSizes,     \* lengths of a non-empty delta (a bound of the model)
  BackoffMin,     \* run::BACKOFF_MIN, seconds
  BackoffMax,     \* run::BACKOFF_MAX, seconds
  MaxInbox        \* frames in flight to the client (a bound of the model)

ASSUME JobsAssumption == NoJob \notin Jobs
ASSUME NoncesAssumption ==
  \A n \in Nonces : n.chars \in Nat /\ n.bytes \in Int
ASSUME LimitsAssumption ==
  /\ MaxNonceChars \in Nat /\ NonceBytes \in Nat
  /\ MaxJobOutput \in Nat
  /\ DeltaSizes \subseteq Nat \ {0}
  /\ MaxInbox \in Nat
ASSUME BackoffAssumption ==
  /\ BackoffMin \in Nat \ {0} /\ BackoffMax \in Nat
  /\ BackoffMin <= BackoffMax

VARIABLES
  pc,       \* the await the client is suspended in
  outcome,  \* how run() returned, "none" while it runs
  backoff,  \* reconnect_loop's `backoff`, 0 for None
  sigint,   \* ctrl-c was pressed
  sock,     \* the TCP connection: "none", "up", or "down" (peer gone)
  inbox,    \* frames that reached the client and were not read yet
  signed,   \* messages the node key signed on this connection
  taken,    \* jobs read off this connection
  current,  \* the job in handle_job, or NoJob
  total,    \* stream_job's `total_out`
  answer,   \* answer[j]: frames queued in the sink for j, in order
  sent      \* sent[j]: bytes of the chunk frames queued for j

loopVars == <<outcome, backoff>>
connVars == <<sock, inbox, signed>>
jobVars  == <<taken, current, total, answer, sent>>
vars == <<pc, outcome, backoff, sigint, sock, inbox, signed,
          taken, current, total, answer, sent>>

-----------------------------------------------------------------------------
\* ServerFrame::parse: a text frame of a known kind, or "other" (pings, binary
\* and unparsable text, which every loop ignores), a close frame, or a frame
\* tungstenite refuses (oversized, malformed): next() yields Err.
ServerFrame ==
  [kind : {"challenge"}, nonce : Nonces]
    \union [kind : {"job"}, job : Jobs]
    \union [kind : {"ready", "rejected", "other", "close", "invalid"}]

Terminal == {"done", "job_error"}
FrameKinds == {"chunk"} \union Terminal

Offline   == {"dial", "sleep", "stopped"}
Handshake == {"challenge", "sendAuth", "ready"}
\* Awaits inside the tokio::time::timeout of handle_job.
Timed     == {"post", "stream", "sendChunk", "sendEnd"}
InJob     == Timed \union {"sendExpired"}
Serving   == {"idle", "sendClose"} \union InJob
\* Awaits on Sink::send: the frame is queued, the flush is pending.
Sending   == {"sendAuth", "sendChunk", "sendEnd", "sendExpired", "sendClose"}

validate_nonce(n) == n.chars <= MaxNonceChars /\ n.bytes = NonceBytes
\* Mutant of auth_message: the tag is forgotten.
BareNonce(n) == <<n>>

auth_message(n) == <<AuthDomainTag, n>>
\* Mutant of next_backoff: no ceiling.
UncappedBackoff(b) == IF b = 0 THEN BackoffMin ELSE 2 * b

next_backoff(b) ==
  IF b = 0 THEN BackoffMin
           ELSE IF 2 * b <= BackoffMax THEN 2 * b ELSE BackoffMax

TypeOK ==
  /\ pc \in Offline \union Handshake \union Serving
  /\ outcome \in {"none", "rejected", "shutdown"}
  /\ backoff \in Nat
  /\ sigint \in BOOLEAN
  /\ sock \in {"none", "up", "down"}
  /\ inbox \in Seq(ServerFrame)
  /\ signed \in Seq({AuthDomainTag} \X Nonces)
  /\ taken \subseteq Jobs
  /\ current \in Jobs \union {NoJob}
  /\ total \in Nat
  /\ answer \in [Jobs -> Seq(FrameKinds)]
  /\ sent \in [Jobs -> Nat]

Init ==
  /\ pc = "dial"
  /\ outcome = "none"
  /\ backoff = 0
  /\ sigint = FALSE
  /\ sock = "none"
  /\ inbox = << >>
  /\ signed = << >>
  /\ taken = {}
  /\ current = NoJob
  /\ total = 0
  /\ answer = [j \in Jobs |-> << >>]
  /\ sent = [j \in Jobs |-> 0]

-----------------------------------------------------------------------------
\* serve() returns and drops the socket, with all it had queued.
HangUp ==
  /\ sock' = "none"
  /\ inbox' = << >>
  /\ signed' = << >>
  /\ taken' = {}
  /\ current' = NoJob
  /\ total' = 0
  /\ answer' = [j \in Jobs |-> << >>]
  /\ sent' = [j \in Jobs |-> 0]

\* SessionOutcome::Disconnected: reconnect_loop goes to sleep.
Disconnected ==
  /\ HangUp
  /\ pc' = "sleep"
  /\ backoff' = next_backoff(backoff)
  /\ UNCHANGED <<outcome, sigint>>

\* SessionOutcome::Rejected and Shutdown: run() returns.
Stop(why) ==
  /\ HangUp
  /\ pc' = "stopped"
  /\ outcome' = why
  /\ UNCHANGED <<backoff, sigint>>

\* ws.next() yields a frame, or None / Err.
Reads(f) == inbox # << >> /\ f = Head(inbox) /\ inbox' = Tail(inbox)
ReadEnds ==
  \/ inbox = << >> /\ sock = "down"
  \/ inbox # << >> /\ Head(inbox).kind = "invalid"

DialOk ==
  /\ pc = "dial"
  /\ pc' = "challenge"
  /\ sock' = "up"
  /\ UNCHANGED <<loopVars, sigint, inbox, signed, jobVars>>

DialFails == pc = "dial" /\ Disconnected

Wake ==
  /\ pc = "sleep"
  /\ pc' = "dial"
  /\ UNCHANGED <<loopVars, sigint, connVars, jobVars>>

\* Mutant of RecvChallenge: a second challenge is answered as well.
RecvChallengeAgain ==
  /\ pc \in {"challenge", "ready"}
  /\ \E n \in Nonces :
       /\ Reads([kind |-> "challenge", nonce |-> n])
       /\ validate_nonce(n)
       /\ signed' = Append(signed, auth_message(n))
  /\ pc' = "sendAuth"
  /\ UNCHANGED <<loopVars, sigint, sock, jobVars>>

\* The challenge: validated, then signed; a bad nonce drops the connection.
RecvChallenge ==
  /\ pc = "challenge"
  /\ \E n \in Nonces :
       /\ Reads([kind |-> "challenge", nonce |-> n])
       /\ validate_nonce(n)
       /\ signed' = Append(signed, auth_message(n))
  /\ pc' = "sendAuth"
  /\ UNCHANGED <<loopVars, sigint, sock, jobVars>>

RecvBadChallenge ==
  /\ pc = "challenge"
  /\ inbox # << >>
  /\ \E n \in Nonces :
       /\ Head(inbox) = [kind |-> "challenge", nonce |-> n]
       /\ ~ validate_nonce(n)
  /\ Disconnected

RecvReady ==
  /\ pc = "ready"
  /\ Reads([kind |-> "ready"])
  /\ pc' = "idle"
  /\ UNCHANGED <<loopVars, sigint, sock, signed, jobVars>>

\* Mutant of RecvRejected: a late `rejected` ends the process.
RecvLateRejected ==
  /\ pc \in {"challenge", "ready", "idle"}
  /\ inbox # << >>
  /\ Head(inbox).kind = "rejected"
  /\ Stop("rejected")

RecvRejected ==
  /\ pc \in {"challenge", "ready"}
  /\ inbox # << >>
  /\ Head(inbox).kind = "rejected"
  /\ Stop("rejected")

RecvJob ==
  /\ pc = "idle"
  /\ \E j \in Jobs :
       /\ Reads([kind |-> "job", job |-> j])
       /\ taken' = taken \union {j}
       /\ current' = j
  /\ pc' = "post"
  /\ total' = 0
  /\ UNCHANGED <<loopVars, sigint, sock, signed, answer, sent>>

RecvClose ==
  /\ pc = "idle"
  /\ inbox # << >>
  /\ Head(inbox).kind = "close"
  /\ Disconnected

\* The kinds of frame each of the three loops does something about.
Handled ==
  CASE pc = "challenge" -> {"challenge", "rejected", "invalid"}
    [] pc = "ready"     -> {"ready", "rejected", "invalid"}
    [] pc = "idle"      -> {"job", "close", "invalid"}

RecvIgnored ==
  /\ pc \in {"challenge", "ready", "idle"}
  /\ \E f \in ServerFrame : Reads(f) /\ f.kind \notin Handled
  /\ UNCHANGED <<pc, loopVars, sigint, sock, signed, jobVars>>

\* Mutant of RecvEnd: the end of the stream is ignored, only errors count.
RecvErrOnly ==
  /\ pc \in {"challenge", "ready", "idle"}
  /\ inbox # << >> /\ Head(inbox).kind = "invalid"
  /\ Disconnected

RecvEnd ==
  /\ pc \in {"challenge", "ready", "idle"}
  /\ ReadEnds
  /\ Disconnected

-----------------------------------------------------------------------------
\* handle_job / stream_job.  Sink::send queues the frame at once; the await is
\* for the flush, and dropping the future leaves the frame in the sink.
Queue(f) == answer' = [answer EXCEPT ![current] = Append(@, f)]

SendEnd(f) ==
  /\ Queue(f)
  /\ pc' = "sendEnd"
  /\ UNCHANGED <<loopVars, sigint, connVars, taken, current, sent>>

PostOk ==
  /\ pc = "post"
  /\ pc' = "stream"
  /\ UNCHANGED <<loopVars, sigint, connVars, jobVars>>

\* The POST failed, or the status was not 2xx and the error text was read.
PostFails == pc = "post" /\ SendEnd("job_error") /\ UNCHANGED total

\* A non-empty delta is counted first, then sent if the total allows.
UpstreamDelta ==
  /\ pc = "stream"
  /\ \E n \in DeltaSizes :
       /\ total' = total + n
       /\ total' <= MaxJobOutput
       /\ sent' = [sent EXCEPT ![current] = @ + n]
  /\ Queue("chunk")
  /\ pc' = "sendChunk"
  /\ UNCHANGED <<loopVars, sigint, connVars, taken, current>>

UpstreamOverLimit ==
  /\ pc = "stream"
  /\ \E n \in DeltaSizes : total' = total + n
  /\ total' > MaxJobOutput
  /\ SendEnd("job_error")

\* A read error, or a line longer than the buffer.
UpstreamFails == pc = "stream" /\ SendEnd("job_error") /\ UNCHANGED total

\* `[DONE]`, or the end of the body.
UpstreamDone == pc = "stream" /\ SendEnd("done") /\ UNCHANGED total

\* Mutants of JobTimeout: it tells the gateway nothing; it can strike again
\* while its frame is sent; it does not cover the POST.
SilentTimeout ==
  /\ pc \in Timed
  /\ pc' = "idle"
  /\ current' = NoJob
  /\ total' = 0
  /\ UNCHANGED <<loopVars, sigint, connVars, taken, answer, sent>>

RepeatedTimeout ==
  /\ pc \in InJob
  /\ Queue("job_error")
  /\ pc' = "sendExpired"
  /\ UNCHANGED <<loopVars, sigint, connVars, taken, current, total, sent>>

TimeoutOfStreamOnly ==
  /\ pc \in Timed \ {"post"}
  /\ Queue("job_error")
  /\ pc' = "sendExpired"
  /\ UNCHANGED <<loopVars, sigint, connVars, taken, current, total, sent>>

\* The timeout of handle_job fires: stream_job is dropped where it stands, and
\* the error frame is sent outside the timeout.
JobTimeout ==
  /\ pc \in Timed
  /\ Queue("job_error")
  /\ pc' = "sendExpired"
  /\ UNCHANGED <<loopVars, sigint, connVars, taken, current, total, sent>>

\* Mutant of SendOk: what arrived during the job is discarded with it.
SendOkDiscards ==
  /\ pc \in Sending \ {"sendClose"}
  /\ pc' = CASE pc = "sendAuth"  -> "ready"
             [] pc = "sendChunk" -> "stream"
             [] OTHER            -> "idle"
  /\ IF pc' = "idle" THEN current' = NoJob /\ total' = 0 /\ inbox' = << >>
                     ELSE UNCHANGED <<current, total, inbox>>
  /\ UNCHANGED <<loopVars, sigint, sock, signed, taken, answer, sent>>

\* The flush completes.
SendOk ==
  /\ pc \in Sending \ {"sendClose"}
  /\ pc' = CASE pc = "sendAuth"  -> "ready"
             [] pc = "sendChunk" -> "stream"
             [] OTHER            -> "idle"
  /\ IF pc' = "idle" THEN current' = NoJob /\ total' = 0
                     ELSE UNCHANGED <<current, total>>
  /\ UNCHANGED <<loopVars, sigint, connVars, taken, answer, sent>>

\* The flush fails: only on a socket whose peer is gone.
SendFails ==
  /\ pc \in Sending \ {"sendClose"}
  /\ sock = "down"
  /\ Disconnected

-----------------------------------------------------------------------------
\* Mutant of CtrlC: the signal is looked at between jobs only.
CtrlCBetweenJobs == sigint /\ pc \in {"dial", "sleep", "idle"} /\ Stop("shutdown")

\* ctrl-c wins the select in run(), whatever the loop is doing ...
CtrlC == sigint /\ pc # "stopped" /\ Stop("shutdown")

\* ... or the select in the job loop, which first sends a close frame.
CtrlCInJobLoop ==
  /\ sigint
  /\ pc = "idle"
  /\ pc' = "sendClose"
  /\ UNCHANGED <<loopVars, sigint, connVars, jobVars>>

CloseSent == pc = "sendClose" /\ Stop("shutdown")

\* The environment: the user, the gateway, the network.
PressCtrlC ==
  /\ ~ sigint
  /\ pc # "stopped"
  /\ sigint' = TRUE
  /\ UNCHANGED <<pc, loopVars, connVars, jobVars>>

Waiting(j) == \E i \in 1..Len(inbox) : inbox[i] = [kind |-> "job", job |-> j]

\* The gateway sends any frame at any time, a job only once per connection;
\* after a close frame it sends nothing more.
GatewaySends ==
  /\ sock = "up"
  /\ Len(inbox) < MaxInbox
  /\ \E f \in ServerFrame :
       /\ \A j \in Jobs : f = [kind |-> "job", job |-> j]
                            => j \notin taken /\ ~ Waiting(j)
       /\ inbox' = Append(inbox, f)
       /\ sock' = IF f.kind = "close" THEN "down" ELSE "up"
  /\ UNCHANGED <<pc, loopVars, sigint, signed, jobVars>>

\* The connection breaks; what was in flight to the client may be lost.
PeerDrops ==
  /\ sock = "up"
  /\ sock' = "down"
  /\ inbox' \in {inbox, << >>}
  /\ UNCHANGED <<pc, loopVars, sigint, signed, jobVars>>

-----------------------------------------------------------------------------
Connect == DialOk \/ DialFails \/ Wake
Receive ==
  \/ RecvChallenge \/ RecvBadChallenge \/ RecvReady \/ RecvRejected
  \/ RecvJob \/ RecvClose \/ RecvIgnored \/ RecvEnd
Upstream ==
  \/ PostOk \/ PostFails \/ UpstreamDelta \/ UpstreamOverLimit
  \/ UpstreamFails \/ UpstreamDone
Send == SendOk \/ SendFails
Shutdown == CtrlC \/ CtrlCInJobLoop \/ CloseSent
Environment == PressCtrlC \/ GatewaySends \/ PeerDrops

Next ==
  Connect \/ Receive \/ Upstream \/ JobTimeout \/ Send \/ Shutdown
    \/ Environment

Spec == Init /\ [][Next]_vars

\* What tokio's scheduler and timers give: a dial ends, a sleep ends, a frame
\* that arrived is read, the job timer fires, a signal is seen, and a write to
\* a dead socket ends.  NOT that the gateway drains a live socket, that it
\* sends anything, or that the upstream ever answers.
FairSpec ==
  /\ Spec
  /\ WF_vars(Connect) /\ WF_vars(Receive)
  /\ WF_vars(JobTimeout) /\ WF_vars(CtrlC)
  /\ WF_vars(sock = "down" /\ Send)

\* The gateway keeps reading, so that every flush completes.
Draining == WF_vars(Send)

-----------------------------------------------------------------------------
\* Where the job in service stands, for the promise JobAnswer makes of it.
Stage ==
  CASE pc \in {"post", "stream", "sendChunk"} -> "streaming"
    [] pc = "sendEnd"     -> "ended"
    [] pc = "sendExpired" -> "overruled"
    [] OTHER              -> "none"

Answers == INSTANCE JobAnswer WITH stage <- Stage

(***************************************************************************)
(* The serve loop with its timeouts, blocked flushes and dropped futures   *)
(* (run.rs 220-368) does to the answers what JobAnswer allows, and nothing *)
(* else: a cancelled stream_job never lets a chunk or a `done` follow the  *)
(* time limit's job_error, and no step of a job runs after its session.    *)
(***************************************************************************)
ImplementsJobAnswer == Answers!Spec

(***************************************************************************)
(* Jobs are answered in turn, each within the output limit, and nothing is *)
(* sent for a job after its verdict (run.rs 220-278, 339-353).             *)
(***************************************************************************)
AnswersInTurn == Answers!AnswersInTurn

(***************************************************************************)
(* The node key signs at most one message per connection, however many     *)
(* challenges the gateway sends; the message is the domain tag before a    *)
(* nonce of the exact length (run.rs 155-181, limits.rs 113-124); and no   *)
(* job is served on a connection the key did not sign for.                 *)
(***************************************************************************)
SignsOneChallenge ==
  /\ Len(signed) <= 1
  /\ \A i \in 1..Len(signed) : /\ signed[i][1] = AuthDomainTag
                                /\ signed[i][2].bytes = NonceBytes
                                /\ signed[i][2].chars <= MaxNonceChars
  /\ pc \in Serving => Len(signed) = 1

(***************************************************************************)
(* The process ends only by ctrl-c or by a `rejected` read during the      *)
(* handshake, never by a failed dial, a lost socket, a bad challenge or a  *)
(* `rejected` in mid-session (run.rs 112-143, 236-237).                    *)
(***************************************************************************)
StopsDeliberately ==
  [][pc # "stopped" /\ pc' = "stopped" =>
       \/ sigint /\ outcome' = "shutdown"
       \/ /\ pc \in Handshake
          /\ inbox # << >> /\ Head(inbox).kind = "rejected"
          /\ outcome' = "rejected"]_vars

(***************************************************************************)
(* The reconnect schedule: every disconnect, and nothing else, moves the   *)
(* backoff: to the floor the first time, to its double or the ceiling      *)
(* afterwards (run.rs 30-35, 125-140; tests/loop_test.rs).                 *)
(***************************************************************************)
BackoffSchedule ==
  [][/\ backoff' # backoff => pc' = "sleep"
     /\ pc' = "sleep" /\ pc # "sleep" =>
          /\ backoff' >= BackoffMin /\ backoff' <= BackoffMax
          /\ backoff' > backoff \/ backoff' = BackoffMax
          /\ backoff' <= 2 * backoff \/ backoff' = BackoffMin]_vars

(***************************************************************************)
(* A broken connection never leaves the node hanging: whatever it was      *)
(* doing - handshake, idle, waiting for an upstream that never answers,    *)
(* flushing - it dials again or has been stopped (run.rs 112-143, 253-278).*)
(***************************************************************************)
LostSocketIsRedialled == sock = "down" ~> pc \in {"dial", "stopped"}

(***************************************************************************)
(* NX-4: no upstream and no gateway can pin a job forever: a job in service*)
(* gets a terminal frame queued, or its connection is gone, even if the    *)
(* upstream stays silent and the gateway stops draining (limits.rs 55-57,  *)
(* run.rs 264-277).                                                        *)
(***************************************************************************)
JobSettles ==
  \A j \in Jobs :
    current = j ~> j \notin taken \/ Answers!HasTerminal(answer[j])

(***************************************************************************)
(* ctrl-c stops the process from every await, a blocked flush and a backoff*)
(* sleep included (run.rs 93-98, 221-225).                                 *)
(***************************************************************************)
CtrlCStops == sigint ~> pc = "stopped"

(***************************************************************************)
(* A job that waits in the socket behind another one is reached: it is     *)
(* answered to the end, or the session is over, provided the gateway keeps *)
(* reading (run.rs 220-246).                                               *)
(***************************************************************************)
QueuedJobAnswered ==
  Draining =>
    \A j \in Jobs :
      Waiting(j) /\ pc \in Serving ~>
        \/ j \in taken /\ Answers!HasTerminal(answer[j])
        \/ pc \in Offline

(***************************************************************************)
(* run.rs 3-5 and protocol.rs 14-16: a job is answered by chunk frames and *)
(* then a terminal `done`, OR a `job_error`.  Once the client is back in   *)
(* the job loop, every frame of the job has left.                          *)
(***************************************************************************)
OneTerminalFrame ==
  pc = "idle" =>
    \A j \in taken :
      Cardinality({i \in 1..Len(answer[j]) : answer[j][i] \in Terminal}) = 1
=============================================================================
