--------------------------- MODULE PullLoopProofs ---------------------------
(***************************************************************************)
(* PullLoop implements JobAnswer, signs one challenge per connection and   *)
(* follows its reconnect schedule: for every set of jobs and nonces, every *)
(* limit and every inbox length.                                           *)
(***************************************************************************)
EXTENDS PullLoop, TLAPS

\* A job waits at most once in the inbox, and never after it was taken.
InboxInv ==
  \A i \in 1..Len(inbox) :
    inbox[i].kind = "job" =>
      /\ inbox[i].job \notin taken
      /\ \A k \in 1..Len(inbox) :
           inbox[k].kind = "job" /\ inbox[k].job = inbox[i].job => k = i

\* handle_job's locals describe the job in service.
JobInv ==
  /\ current # NoJob <=> pc \in InJob
  /\ current # NoJob => current \in taken
  /\ pc \in {"post", "stream", "sendChunk"} => total = sent[current]
  /\ \A j \in Jobs \ taken : sent[j] = 0

\* One good signature from the challenge on.
SignInv ==
  /\ Len(signed) = IF pc \in Offline \union {"challenge"} THEN 0 ELSE 1
  /\ \A i \in 1..Len(signed) : validate_nonce(signed[i][2])

BackoffInv == backoff = 0 \/ backoff \in BackoffMin..BackoffMax

Inv == TypeOK /\ InboxInv /\ JobInv /\ SignInv /\ BackoffInv

-----------------------------------------------------------------------------
\* ServerFrame is only looked into through these facts.
LEMMA FrameFacts ==
  /\ \A n \in Nonces : [kind |-> "challenge", nonce |-> n] \in ServerFrame
  /\ \A j \in Jobs : /\ [kind |-> "job", job |-> j] \in ServerFrame
                     /\ [kind |-> "job", job |-> j].kind = "job"
                     /\ [kind |-> "job", job |-> j].job = j
  /\ \A f \in ServerFrame :
       f.kind = "job" => f.job \in Jobs /\ f = [kind |-> "job", job |-> f.job]
BY DEF ServerFrame

LEMMA TailFacts ==
  ASSUME NEW S, NEW q \in Seq(S), q # << >>
  PROVE  /\ Tail(q) \in Seq(S)
         /\ Head(q) \in S
         /\ Head(q) = q[1]
         /\ Len(q) \in Nat /\ Len(q) > 0
         /\ Len(Tail(q)) = Len(q) - 1
         /\ \A i \in 1..Len(Tail(q)) : Tail(q)[i] = q[i + 1]
OBVIOUS

\* Reading a frame leaves the rest of the inbox in order, without that frame.
LEMMA ReadKeepsInbox ==
  ASSUME Inv, NEW f, Reads(f), taken' \subseteq taken \union {f.job},
         taken' # taken => f.kind = "job"
  PROVE  f \in ServerFrame /\ inbox' \in Seq(ServerFrame) /\ InboxInv'
<1>1. /\ inbox \in Seq(ServerFrame) /\ inbox # << >> /\ inbox' = Tail(inbox)
      /\ f = inbox[1] /\ f \in ServerFrame
  BY TailFacts DEF Reads, Inv, TypeOK
<1>2. /\ inbox' \in Seq(ServerFrame)
      /\ Len(inbox) \in Nat /\ Len(inbox) > 0 /\ Len(inbox') = Len(inbox) - 1
      /\ \A i \in 1..Len(inbox') : inbox'[i] = inbox[i + 1]
  BY <1>1, TailFacts
<1>3. ASSUME NEW i \in 1..Len(inbox'), inbox'[i].kind = "job"
      PROVE  /\ inbox'[i].job \notin taken'
             /\ \A k \in 1..Len(inbox') :
                  inbox'[k].kind = "job" /\ inbox'[k].job = inbox'[i].job
                    => k = i
  <2>1. /\ i + 1 \in 1..Len(inbox) /\ 1 \in 1..Len(inbox) /\ i + 1 # 1
        /\ inbox'[i] = inbox[i + 1]
    BY <1>2
  <2>2. inbox[i + 1].job \notin taken
    BY <1>3, <2>1 DEF Inv, InboxInv
  <2>3. f.kind = "job" => inbox[i + 1].job # f.job
    BY <1>1, <1>3, <2>1 DEF Inv, InboxInv
  <2>4. inbox'[i].job \notin taken'
    BY <2>1, <2>2, <2>3
  <2>5. ASSUME NEW k \in 1..Len(inbox'), inbox'[k].kind = "job",
               inbox'[k].job = inbox'[i].job
        PROVE  k = i
    <3>1. k + 1 \in 1..Len(inbox) /\ inbox'[k] = inbox[k + 1]
      BY <1>2
    <3>2. k + 1 = i + 1
      BY <1>3, <2>1, <2>5, <3>1 DEF Inv, InboxInv
    <3> QED
      BY <3>2
  <2> QED
    BY <2>4, <2>5
<1> QED
  BY <1>1, <1>2, <1>3 DEF InboxInv

LEMMA NextBackoff ==
  ASSUME BackoffInv
  PROVE  /\ next_backoff(backoff) \in BackoffMin..BackoffMax
         /\ next_backoff(backoff) > backoff \/ next_backoff(backoff) = BackoffMax
         /\ next_backoff(backoff) <= 2 * backoff
              \/ next_backoff(backoff) = BackoffMin
<1>1. CASE backoff = 0
  BY <1>1, BackoffAssumption DEF next_backoff
<1>2. CASE backoff \in BackoffMin..BackoffMax
  BY <1>2, BackoffAssumption DEF next_backoff
<1> QED
  BY <1>1, <1>2 DEF BackoffInv

-----------------------------------------------------------------------------
USE DEF Offline, Handshake, Serving, InJob, Timed

\* With the socket, everything that belonged to the connection goes.
LEMMA HangUpInv ==
  ASSUME Inv, HangUp, pc' \in Offline,
         outcome' \in {"none", "rejected", "shutdown"}, sigint' \in BOOLEAN,
         backoff' \in {backoff, next_backoff(backoff)}
  PROVE  Inv'
<1>1. BackoffInv' /\ backoff' \in Nat
  BY NextBackoff, BackoffAssumption DEF Inv, BackoffInv, TypeOK
<1>2. TypeOK'
  BY <1>1 DEF HangUp, TypeOK
<1>3. InboxInv' /\ JobInv' /\ SignInv'
  BY DEF HangUp, InboxInv, JobInv, SignInv
<1> QED
  BY <1>1, <1>2, <1>3 DEF Inv

LEMMA DisconnectedInv == ASSUME Inv, Disconnected PROVE Inv'
BY HangUpInv DEF Disconnected, Inv, TypeOK

LEMMA StopInv ==
  ASSUME Inv, NEW why \in {"rejected", "shutdown"}, Stop(why) PROVE Inv'
BY HangUpInv DEF Stop, Inv, TypeOK

LEMMA RecvChallengeInv == ASSUME Inv, RecvChallenge PROVE Inv'
<1>1. PICK n \in Nonces : /\ Reads([kind |-> "challenge", nonce |-> n])
                          /\ validate_nonce(n)
                          /\ signed' = Append(signed, auth_message(n))
  BY DEF RecvChallenge
<1>2. /\ inbox' \in Seq(ServerFrame) /\ InboxInv'
  BY <1>1, ReadKeepsInbox DEF RecvChallenge, jobVars
<1>3. /\ signed = << >> /\ auth_message(n) \in {AuthDomainTag} \X Nonces
      /\ signed \in Seq({AuthDomainTag} \X Nonces)
      /\ auth_message(n)[2] = n
  BY DEF RecvChallenge, Inv, TypeOK, SignInv, auth_message
<1>4. /\ signed' \in Seq({AuthDomainTag} \X Nonces)
      /\ Len(signed') = 1 /\ signed'[1] = auth_message(n)
  BY <1>1, <1>3
<1>5. SignInv'
  BY <1>1, <1>3, <1>4 DEF RecvChallenge, SignInv
<1>6. TypeOK'
  BY <1>2, <1>4 DEF RecvChallenge, Inv, TypeOK, loopVars, jobVars
<1>7. JobInv' /\ BackoffInv'
  BY DEF RecvChallenge, Inv, JobInv, BackoffInv, loopVars, jobVars
<1> QED
  BY <1>2, <1>5, <1>6, <1>7 DEF Inv

LEMMA RecvReadyInv == ASSUME Inv, RecvReady PROVE Inv'
<1>1. inbox' \in Seq(ServerFrame) /\ InboxInv'
  BY ReadKeepsInbox DEF RecvReady, jobVars
<1>2. TypeOK'
  BY <1>1 DEF RecvReady, Inv, TypeOK, loopVars, jobVars
<1>3. JobInv' /\ SignInv' /\ BackoffInv'
  BY DEF RecvReady, Inv, JobInv, SignInv, BackoffInv, loopVars, jobVars
<1> QED
  BY <1>1, <1>2, <1>3 DEF Inv

LEMMA RecvIgnoredInv == ASSUME Inv, RecvIgnored PROVE Inv'
<1>1. inbox' \in Seq(ServerFrame) /\ InboxInv'
  BY ReadKeepsInbox DEF RecvIgnored, jobVars
<1>2. TypeOK'
  BY <1>1 DEF RecvIgnored, Inv, TypeOK, loopVars, jobVars
<1>3. JobInv' /\ SignInv' /\ BackoffInv'
  BY DEF RecvIgnored, Inv, JobInv, SignInv, BackoffInv, loopVars, jobVars
<1> QED
  BY <1>1, <1>2, <1>3 DEF Inv

\* The job read is new to this connection: nothing was sent for it yet.
LEMMA RecvJobInv == ASSUME Inv, RecvJob PROVE Inv' /\ current' \notin taken
<1>1. PICK j \in Jobs : /\ Reads([kind |-> "job", job |-> j])
                        /\ taken' = taken \union {j}
                        /\ current' = j
  BY DEF RecvJob
<1> DEFINE f == [kind |-> "job", job |-> j]
<1>2. f.kind = "job" /\ f.job = j
  OBVIOUS
<1>3. inbox' \in Seq(ServerFrame) /\ InboxInv'
  <2> HIDE DEF f
  <2> QED
    BY <1>1, <1>2, ReadKeepsInbox DEF f
<1>4. j \notin taken
  <2>1. inbox # << >> /\ inbox[1] = f /\ 1 \in 1..Len(inbox)
    BY <1>1, TailFacts DEF Reads, Inv, TypeOK
  <2> QED
    BY <2>1, <1>2 DEF Inv, InboxInv
<1>5. TypeOK'
  BY <1>1, <1>3 DEF RecvJob, Inv, TypeOK, loopVars
<1>6. JobInv'
  BY <1>1, <1>4, JobsAssumption DEF RecvJob, Inv, TypeOK, JobInv
<1>7. SignInv' /\ BackoffInv'
  BY DEF RecvJob, Inv, SignInv, BackoffInv, loopVars
<1> QED
  BY <1>1, <1>3, <1>4, <1>5, <1>6, <1>7 DEF Inv

\* A step of a job queues a frame, and touches neither inbox nor signature.
LEMMA QueueType ==
  ASSUME Inv, NEW f \in FrameKinds, Queue(f), current # NoJob
  PROVE  answer' \in [Jobs -> Seq(FrameKinds)]
<1>1. current \in Jobs /\ Append(answer[current], f) \in Seq(FrameKinds)
  BY DEF Inv, TypeOK
<1> QED
  BY <1>1 DEF Queue, Inv, TypeOK

LEMMA UpstreamInv ==
  ASSUME Inv,
         PostOk \/ PostFails \/ UpstreamDelta \/ UpstreamOverLimit
           \/ UpstreamFails \/ UpstreamDone \/ JobTimeout
  PROVE  Inv'
<1> USE DEF SendEnd, PostFails, PostOk, UpstreamDelta, UpstreamOverLimit,
            UpstreamFails, UpstreamDone, JobTimeout, loopVars, connVars, jobVars
<1>1. /\ pc \in Timed /\ current # NoJob /\ current \in Jobs
      /\ pc' \in Timed \union {"sendExpired"}
      /\ UNCHANGED <<outcome, backoff, sigint, connVars, taken, current>>
  BY DEF Inv, TypeOK, JobInv
<1>2. answer' \in [Jobs -> Seq(FrameKinds)]
  <2>1. CASE PostOk
    BY <2>1 DEF Inv, TypeOK
  <2>2. CASE ~ PostOk
    BY <2>2, <1>1, QueueType DEF FrameKinds, Terminal
  <2> QED
    BY <2>1, <2>2
<1>3. /\ total' \in Nat /\ sent' \in [Jobs -> Nat]
      /\ \A j \in Jobs \ {current} : sent'[j] = sent[j]
      /\ pc' \in {"post", "stream", "sendChunk"} => total' = sent'[current]
  <2>1. CASE UpstreamDelta
    <3>1. PICK n \in DeltaSizes :
            total' = total + n /\ sent' = [sent EXCEPT ![current] = @ + n]
      BY <2>1
    <3> QED
      BY <2>1, <3>1, <1>1, LimitsAssumption DEF Inv, TypeOK, JobInv
  <2>2. CASE ~ UpstreamDelta
    BY <2>2, <1>1, LimitsAssumption DEF Inv, TypeOK, JobInv
  <2> QED
    BY <2>1, <2>2
<1>4. TypeOK'
  BY <1>1, <1>2, <1>3 DEF Inv, TypeOK
<1>5. JobInv'
  BY <1>1, <1>3 DEF Inv, JobInv
<1>6. InboxInv' /\ SignInv' /\ BackoffInv'
  BY <1>1 DEF Inv, InboxInv, SignInv, BackoffInv
<1> QED
  BY <1>4, <1>5, <1>6 DEF Inv

LEMMA SendOkInv == ASSUME Inv, SendOk PROVE Inv'
<1> USE DEF SendOk, Sending, loopVars, connVars
<1>1. /\ pc = "sendAuth" => pc' = "ready"
      /\ pc = "sendChunk" => pc' = "stream"
      /\ pc \in {"sendEnd", "sendExpired"} => pc' = "idle"
      /\ pc \in {"sendAuth", "sendChunk", "sendEnd", "sendExpired"}
  OBVIOUS
<1>2. TypeOK' /\ JobInv'
  BY <1>1, JobsAssumption DEF Inv, TypeOK, JobInv
<1>3. InboxInv' /\ SignInv' /\ BackoffInv'
  BY <1>1 DEF Inv, InboxInv, SignInv, BackoffInv
<1> QED
  BY <1>2, <1>3 DEF Inv

LEMMA GatewaySendsInv == ASSUME Inv, GatewaySends PROVE Inv'
<1>1. PICK f \in ServerFrame :
        /\ \A j \in Jobs : f = [kind |-> "job", job |-> j]
                             => j \notin taken /\ ~ Waiting(j)
        /\ inbox' = Append(inbox, f)
        /\ sock' \in {"up", "down"}
  BY DEF GatewaySends
<1>2. /\ inbox' \in Seq(ServerFrame) /\ Len(inbox) \in Nat
      /\ Len(inbox') = Len(inbox) + 1
      /\ inbox'[Len(inbox) + 1] = f
      /\ \A i \in 1..Len(inbox) : /\ inbox'[i] = inbox[i]
                                  /\ inbox[i] \in ServerFrame
  BY <1>1 DEF Inv, TypeOK
<1>3. f.kind = "job" => f.job \notin taken
                        /\ \A i \in 1..Len(inbox) :
                             ~ (inbox[i].kind = "job" /\ inbox[i].job = f.job)
  BY <1>1, <1>2, FrameFacts DEF Waiting
<1>4. InboxInv'
  <2>1. taken' = taken
    BY DEF GatewaySends, jobVars
  <2> SUFFICES ASSUME NEW i \in 1..Len(inbox'), inbox'[i].kind = "job"
               PROVE  /\ inbox'[i].job \notin taken
                      /\ \A k \in 1..Len(inbox') :
                           inbox'[k].kind = "job"
                             /\ inbox'[k].job = inbox'[i].job => k = i
    BY <2>1 DEF InboxInv
  <2>2. CASE i = Len(inbox) + 1
    BY <2>2, <1>2, <1>3
  <2>3. CASE i \in 1..Len(inbox)
    BY <2>3, <1>2, <1>3 DEF Inv, InboxInv
  <2> QED
    BY <1>2, <2>2, <2>3
<1>5. TypeOK'
  BY <1>1, <1>2 DEF GatewaySends, Inv, TypeOK, loopVars, jobVars
<1>6. JobInv' /\ SignInv' /\ BackoffInv'
  BY DEF GatewaySends, Inv, JobInv, SignInv, BackoffInv, loopVars, jobVars
<1> QED
  BY <1>4, <1>5, <1>6 DEF Inv

LEMMA PeerDropsInv == ASSUME Inv, PeerDrops PROVE Inv'
<1> USE DEF PeerDrops, loopVars, jobVars
<1>1. inbox' = inbox \/ inbox' = << >>
  OBVIOUS
<1>2. inbox' \in Seq(ServerFrame) /\ InboxInv'
  <2>1. CASE inbox' = inbox
    BY <2>1 DEF Inv, TypeOK, InboxInv
  <2>2. CASE inbox' = << >>
    BY <2>2 DEF InboxInv
  <2> QED
    BY <1>1, <2>1, <2>2
<1>3. TypeOK'
  BY <1>2 DEF Inv, TypeOK
<1>4. JobInv' /\ SignInv' /\ BackoffInv'
  BY DEF Inv, JobInv, SignInv, BackoffInv
<1> QED
  BY <1>2, <1>3, <1>4 DEF Inv

LEMMA QuietInv ==
  ASSUME Inv,
         DialOk \/ Wake \/ CtrlCInJobLoop \/ PressCtrlC \/ UNCHANGED vars
  PROVE  Inv'
<1> USE DEF DialOk, Wake, CtrlCInJobLoop, PressCtrlC, vars, loopVars, connVars,
            jobVars
<1>1. TypeOK'
  BY DEF Inv, TypeOK
<1>2. InboxInv' /\ JobInv' /\ SignInv' /\ BackoffInv'
  BY DEF Inv, InboxInv, JobInv, SignInv, BackoffInv
<1> QED
  BY <1>1, <1>2 DEF Inv

LEMMA InitInv == Init => Inv
<1> SUFFICES ASSUME Init PROVE Inv
  OBVIOUS
<1>1. TypeOK
  <2>1. << >> \in Seq(ServerFrame) /\ << >> \in Seq({AuthDomainTag} \X Nonces)
    OBVIOUS
  <2>2. /\ [j \in Jobs |-> << >>] \in [Jobs -> Seq(FrameKinds)]
        /\ [j \in Jobs |-> 0] \in [Jobs -> Nat]
    OBVIOUS
  <2> QED
    BY <2>1, <2>2 DEF Init, TypeOK
<1>2. InboxInv /\ JobInv
  BY DEF Init, InboxInv, JobInv
<1>3. SignInv /\ BackoffInv
  BY DEF Init, SignInv, BackoffInv
<1> QED
  BY <1>1, <1>2, <1>3 DEF Inv

LEMMA NextInv == ASSUME Inv, [Next]_vars PROVE Inv'
<1>1. CASE Connect
  BY <1>1, QuietInv, DisconnectedInv DEF Connect, DialFails
<1>2. CASE Receive
  BY <1>2, RecvChallengeInv, RecvReadyInv, RecvIgnoredInv, RecvJobInv,
     DisconnectedInv, StopInv
     DEF Receive, RecvBadChallenge, RecvRejected, RecvClose, RecvEnd
<1>3. CASE Upstream \/ JobTimeout
  BY <1>3, UpstreamInv DEF Upstream
<1>4. CASE Send
  BY <1>4, SendOkInv, DisconnectedInv DEF Send, SendFails
<1>5. CASE Shutdown
  BY <1>5, StopInv, QuietInv DEF Shutdown, CtrlC, CloseSent
<1>6. CASE Environment
  BY <1>6, QuietInv, GatewaySendsInv, PeerDropsInv DEF Environment
<1>7. CASE UNCHANGED vars
  BY <1>7, QuietInv
<1> QED
  BY <1>1, <1>2, <1>3, <1>4, <1>5, <1>6, <1>7 DEF Next

LEMMA SpecInv == Spec => []Inv
<1>1. Inv /\ [Next]_vars => Inv'
  BY NextInv
<1> QED
  BY InitInv, <1>1, PTL DEF Spec

(***************************************************************************)
(* Every variable keeps its type, whatever the gateway and upstream send.  *)
(***************************************************************************)
THEOREM TypeCorrect == Spec => []TypeOK
<1>1. Inv => TypeOK
  BY DEF Inv
<1> QED
  BY SpecInv, <1>1, PTL

(***************************************************************************)
(* The node key signs one well-formed, domain-tagged challenge per         *)
(* connection, and no job is served on a connection it did not sign for.   *)
(***************************************************************************)
THEOREM AlwaysSignsOneChallenge == Spec => []SignsOneChallenge
<1>1. ASSUME Inv PROVE SignsOneChallenge
  <2>1. \A i \in 1..Len(signed) : signed[i] \in {AuthDomainTag} \X Nonces
    BY <1>1 DEF Inv, TypeOK
  <2>2. \A i \in 1..Len(signed) :
          signed[i][1] = AuthDomainTag /\ validate_nonce(signed[i][2])
    BY <1>1, <2>1 DEF Inv, SignInv
  <2>3. Len(signed) <= 1 /\ (pc \in Serving => Len(signed) = 1)
    BY <1>1 DEF Inv, SignInv
  <2> QED
    BY <2>2, <2>3 DEF SignsOneChallenge, validate_nonce
<1> QED
  BY SpecInv, <1>1, PTL

(***************************************************************************)
(* The backoff moves at a disconnect and only then, along the schedule.    *)
(***************************************************************************)
THEOREM AlwaysOnSchedule == Spec => BackoffSchedule
<1> DEFINE Step ==
      /\ backoff' # backoff => pc' = "sleep"
      /\ pc' = "sleep" /\ pc # "sleep" =>
           /\ backoff' >= BackoffMin /\ backoff' <= BackoffMax
           /\ backoff' > backoff \/ backoff' = BackoffMax
           /\ backoff' <= 2 * backoff \/ backoff' = BackoffMin
<1>1. ASSUME Inv, [Next]_vars PROVE [Step]_vars
  <2>1. CASE Disconnected
    BY <1>1, <2>1, NextBackoff, BackoffAssumption DEF Disconnected, Inv
  <2>2. CASE backoff' = backoff /\ (pc' = "sleep" => pc = "sleep")
    BY <2>2
  <2>3. Disconnected \/ (backoff' = backoff /\ (pc' = "sleep" => pc = "sleep"))
    <3>1. CASE Connect
      BY <3>1 DEF Connect, DialOk, DialFails, Wake, loopVars
    <3>2. CASE Receive
      BY <3>2 DEF Receive, RecvChallenge, RecvBadChallenge, RecvReady,
         RecvRejected, RecvJob, RecvClose, RecvIgnored, RecvEnd, Stop, loopVars
    <3>3. CASE Upstream \/ JobTimeout
      BY <3>3 DEF Upstream, PostOk, PostFails, UpstreamDelta, UpstreamOverLimit,
         UpstreamFails, UpstreamDone, SendEnd, JobTimeout, loopVars
    <3>4. CASE Send
      BY <3>4 DEF Send, SendOk, SendFails, Sending, loopVars
    <3>5. CASE Shutdown
      BY <3>5 DEF Shutdown, CtrlC, CtrlCInJobLoop, CloseSent, Stop, loopVars
    <3>6. CASE Environment
      BY <3>6 DEF Environment, PressCtrlC, GatewaySends, PeerDrops, loopVars
    <3>7. CASE UNCHANGED vars
      BY <3>7 DEF vars
    <3> QED
      BY <1>1, <3>1, <3>2, <3>3, <3>4, <3>5, <3>6, <3>7 DEF Next
  <2> QED
    BY <2>1, <2>2, <2>3
<1> QED
  BY <1>1, SpecInv, PTL DEF Spec, BackoffSchedule

\* A close frame is only sent for ctrl-c.
CloseInv == pc = "sendClose" => sigint

LEMMA StepStops ==
  ASSUME TypeOK, CloseInv, [Next]_vars
  PROVE  /\ CloseInv'
         /\ pc # "stopped" /\ pc' = "stopped" =>
              \/ sigint /\ outcome' = "shutdown"
              \/ /\ pc \in Handshake
                 /\ inbox # << >> /\ Head(inbox).kind = "rejected"
                 /\ outcome' = "rejected"
<1>1. CASE Connect
  BY <1>1 DEF Connect, DialOk, DialFails, Wake, Disconnected, CloseInv
<1>2. CASE Receive
  <2>1. CASE RecvRejected
    BY <2>1 DEF RecvRejected, Stop, Handshake, CloseInv
  <2>2. CASE Receive /\ ~ RecvRejected
    BY <2>2 DEF Receive, RecvChallenge, RecvBadChallenge, RecvReady, RecvJob, RecvClose,
       RecvIgnored, RecvEnd, Disconnected, CloseInv
  <2> QED BY <1>2, <2>1, <2>2
<1>3. CASE Upstream \/ JobTimeout
  BY <1>3 DEF Upstream, PostOk, PostFails, UpstreamDelta, UpstreamOverLimit,
     UpstreamFails, UpstreamDone, SendEnd, JobTimeout, CloseInv
<1>4. CASE Send
  BY <1>4 DEF Send, SendOk, SendFails, Sending, Disconnected, CloseInv
<1>5. CASE Shutdown
  BY <1>5 DEF Shutdown, CtrlC, CtrlCInJobLoop, CloseSent, Stop, CloseInv
<1>6. CASE Environment
  BY <1>6 DEF Environment, PressCtrlC, GatewaySends, PeerDrops, CloseInv, TypeOK
<1>7. CASE UNCHANGED vars
  BY <1>7 DEF vars, CloseInv
<1> QED BY <1>1, <1>2, <1>3, <1>4, <1>5, <1>6, <1>7 DEF Next

(***************************************************************************)
(* Only ctrl-c and a `rejected` of the handshake end the process, in       *)
(* whatever await they meet it (run.rs 112-143, 221-225).                  *)
(***************************************************************************)
THEOREM AlwaysStopsDeliberately == Spec => StopsDeliberately
<1>1. Init => CloseInv
  BY DEF Init, CloseInv
<1>2. TypeOK /\ CloseInv /\ [Next]_vars => CloseInv'
  BY StepStops
<1>3. TypeOK /\ CloseInv /\ [Next]_vars =>
        [pc # "stopped" /\ pc' = "stopped" =>
           \/ sigint /\ outcome' = "shutdown"
           \/ /\ pc \in Handshake
              /\ inbox # << >> /\ Head(inbox).kind = "rejected"
              /\ outcome' = "rejected"]_vars
  BY StepStops
<1> QED
  BY <1>1, <1>2, <1>3, TypeCorrect, PTL DEF Spec, StopsDeliberately

-----------------------------------------------------------------------------
\* The promise to the gateway.

\* Losing the socket, for whatever reason, is the Drop of JobAnswer.
LEMMA HangUpDrops ==
  ASSUME HangUp, pc' \in Offline
  PROVE  Answers!Drop
BY DEF HangUp, Answers!Drop, Stage

LEMMA StepAnswers ==
  ASSUME Inv, [Next]_vars
  PROVE  [Answers!Next]_(Answers!vars)
<1> USE DEF Stage, Answers!vars, vars, loopVars, connVars, jobVars
<1>1. CASE Disconnected \/ \E why \in {"rejected", "shutdown"} : Stop(why)
  BY <1>1, HangUpDrops DEF Disconnected, Stop, Answers!Next
<1>2. CASE DialOk \/ Wake \/ CtrlCInJobLoop \/ PressCtrlC
  BY <1>2 DEF DialOk, Wake, CtrlCInJobLoop, PressCtrlC
<1>3. CASE GatewaySends \/ PeerDrops
  BY <1>3 DEF GatewaySends, PeerDrops
<1>4. CASE RecvChallenge \/ RecvReady \/ RecvIgnored
  BY <1>4 DEF RecvChallenge, RecvReady, RecvIgnored
<1>5. CASE RecvJob
  <2>1. PICK j \in Jobs : taken' = taken \union {j} /\ current' = j
    BY <1>5 DEF RecvJob
  <2>2. j \notin taken
    BY <1>5, <2>1, RecvJobInv
  <2>3. Answers!Take(j)
    BY <1>5, <2>1, <2>2 DEF RecvJob, Answers!Take
  <2> QED
    BY <2>3 DEF Answers!Next
<1>6. CASE PostOk
  BY <1>6 DEF PostOk
<1>7. CASE PostFails \/ UpstreamOverLimit \/ UpstreamFails \/ UpstreamDone
  <2>1. PICK f \in Terminal : SendEnd(f) /\ pc \in {"post", "stream"}
    BY <1>7 DEF PostFails, UpstreamOverLimit, UpstreamFails, UpstreamDone,
       Terminal
  <2>2. f \in Answers!Terminal /\ Answers!End(f)
    BY <2>1 DEF SendEnd, Queue, Answers!End, Answers!Queue, Terminal,
       Answers!Terminal
  <2> QED
    BY <2>2 DEF Answers!Next
<1>8. CASE UpstreamDelta
  <2>1. PICK n \in DeltaSizes : /\ total' = total + n
                                /\ total' <= MaxJobOutput
                                /\ sent' = [sent EXCEPT ![current] = @ + n]
    BY <1>8 DEF UpstreamDelta
  <2>2. sent[current] + n <= MaxJobOutput
    BY <1>8, <2>1 DEF UpstreamDelta, Inv, JobInv
  <2>3. Answers!Chunk(n)
    BY <1>8, <2>1, <2>2
       DEF UpstreamDelta, Queue, Answers!Chunk, Answers!Queue
  <2> QED
    BY <2>3 DEF Answers!Next
<1>9. CASE JobTimeout
  BY <1>9 DEF JobTimeout, Queue, Answers!Overrule, Answers!Queue, Answers!Next
<1>10. CASE SendOk
  <2>1. CASE pc \in {"sendAuth", "sendChunk"}
    BY <1>10, <2>1 DEF SendOk
  <2>2. CASE pc \in {"sendEnd", "sendExpired"}
    BY <1>10, <2>2 DEF SendOk, Answers!Release, Answers!Next
  <2> QED
    BY <1>10, <2>1, <2>2 DEF SendOk, Sending
<1>11. CASE UNCHANGED vars
  BY <1>11
<1> QED
  BY <1>1, <1>2, <1>3, <1>4, <1>5, <1>6, <1>7, <1>8, <1>9, <1>10, <1>11
     DEF Next, Connect, DialFails, Receive, RecvBadChallenge, RecvRejected,
         RecvClose, RecvEnd, Upstream, Send, SendFails, Shutdown, CtrlC,
         CloseSent, Environment

(***************************************************************************)
(* The serve loop implements the promise made about each connection.       *)
(***************************************************************************)
THEOREM Implementation == Spec => ImplementsJobAnswer
<1>1. Init => Answers!Init
  BY DEF Init, Answers!Init, Stage
<1>2. Inv /\ [Next]_vars => [Answers!Next]_(Answers!vars)
  BY StepAnswers
<1> QED
  BY <1>1, <1>2, SpecInv, PTL DEF Spec, ImplementsJobAnswer, Answers!Spec

\* JobAnswer's theorem, for the stage and the answers of this loop.
Proofs == INSTANCE JobAnswerProofs WITH stage <- Stage

(***************************************************************************)
(* The gateway gets its answers in turn: inherited from the promise.       *)
(***************************************************************************)
THEOREM AlwaysInTurn == Spec => []AnswersInTurn
<1>0. Proofs!Sizes
  BY JobsAssumption, LimitsAssumption DEF Proofs!Sizes
<1>1. Proofs!Spec => [](Proofs!TypeOK /\ Proofs!AnswersInTurn)
  BY <1>0, Proofs!AnswersAlwaysInTurn
<1>2. Answers!Init => Proofs!Init
  BY DEF Answers!Init, Proofs!Init
<1>3. [Answers!Next]_(Answers!vars) => [Proofs!Next]_(Proofs!vars)
  BY DEF Answers!Next, Answers!vars, Answers!Take, Answers!Chunk, Answers!End,
     Answers!Overrule, Answers!Release, Answers!Drop, Answers!Queue,
     Answers!Terminal,
     Proofs!Next, Proofs!vars, Proofs!Take, Proofs!Chunk, Proofs!End,
     Proofs!Overrule, Proofs!Release, Proofs!Drop, Proofs!Queue,
     Proofs!Terminal
<1>4. Proofs!AnswersInTurn => AnswersInTurn
  BY DEF AnswersInTurn, Answers!AnswersInTurn, Proofs!AnswersInTurn,
     Answers!HasTerminal, Proofs!HasTerminal, Answers!Orderly, Proofs!Orderly,
     Answers!Terminal, Proofs!Terminal
<1> QED
  BY <1>1, <1>2, <1>3, <1>4, Implementation, PTL
     DEF ImplementsJobAnswer, Answers!Spec, Proofs!Spec
=============================================================================
