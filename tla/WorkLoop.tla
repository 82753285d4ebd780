------------------------------ MODULE WorkLoop ------------------------------
(***************************************************************************)
(* `nexus-client work`: cmd_work in src/src/main.rs, work_once and register*)
(* in src/src/work.rs, worker_roundtrip and the sending of a transaction in*)
(* src/agenc-worker.  A worker registers, then loops: it spawns an MCP     *)
(* child, reads the job board, builds the app of the best-paid job, claims *)
(* the job, submits the result, drops the child and waits.  Several workers*)
(* share the board and the chain.                                          *)
(*                                                                         *)
(* Jobs are numbers in the order of their rewards; JobSelect has the choice*)
(* among them in full, Roundtrip what is done for one of them.  The sidecar*)
(* that builds the transactions, the chain and the board are external.     *)
(* sendTransaction checks a transaction against the chain as it is (the    *)
(* preflight), and it lands later or expires.  The board lags behind the   *)
(* chain.                                                                  *)
(***************************************************************************)
EXTENDS Naturals

CONSTANTS
  Workers,
  Jobs,         \* jobs that clear the worker's floor and margin
  BACKOFF_MIN,
  BACKOFF_MAX,
  MaxFaults,    \* how many calls fail for no reason in the model (a bound)
  None

ASSUME WorkLoopAssumption ==
  /\ Jobs \subseteq Nat \ {0} /\ None \notin Workers
  /\ BACKOFF_MIN \in Nat \ {0} /\ BACKOFF_MAX \in Nat
  /\ BACKOFF_MIN <= BACKOFF_MAX /\ MaxFaults \in Nat

VARIABLES
  pc,        \* pc[w]: the await worker w is in, or how it ended
  job,       \* job[w]: the SelectedJob of the iteration, 0 if none yet
  backoff,   \* backoff[w]: its delay, 0 for None
  handler,   \* workers whose process has tokio's SIGINT handler installed
  child,     \* workers with a running MCP child
  pressed,   \* workers that were sent a SIGINT
  signed,    \* transactions the wallets signed
  accepted,  \* transactions whose sendTransaction was answered by a signature
  promoted,  \* <<w, j>>: w promoted a build of job j
  pending,   \* transactions on their way to the chain
  agents,    \* registered agents
  claimant,  \* claimant[j]: who holds the claim on j
  results,   \* jobs with a submitted result
  open,      \* what the board calls open
  faults     \* failures so far

procVars == <<handler, child, pressed>>
walletVars == <<signed, accepted>>
chainVars == <<pending, agents, claimant, results>>
vars == <<pc, job, backoff, procVars, walletVars, promoted, chainVars, open, faults>>

Legs == {"register", "claim", "submit"}

Txs == [by : Workers, leg : Legs, job : Jobs \union {0}]

Iterating == {"spawn", "initialize", "discover", "build", "build_claim", "claim",
              "build_submit", "submit"}
Starting == {"build_register", "register"}
Ended == {"stopped", "killed"}

TypeOK ==
  /\ pc \in [Workers -> Starting \union Iterating \union {"delay"} \union Ended]
  /\ job \in [Workers -> Jobs \union {0}]
  /\ backoff \in [Workers -> {0} \union BACKOFF_MIN..BACKOFF_MAX]
  /\ handler \subseteq Workers /\ child \subseteq Workers /\ pressed \subseteq Workers
  /\ signed \subseteq Txs /\ accepted \subseteq signed /\ pending \subseteq signed
  /\ promoted \subseteq Workers \X Jobs
  /\ agents \subseteq Workers
  /\ claimant \in [Jobs -> Workers \union {None}]
  /\ results \subseteq Jobs /\ open \subseteq Jobs
  /\ faults \in 0..MaxFaults

Init ==
  /\ pc = [w \in Workers |-> "build_register"]
  /\ job = [w \in Workers |-> 0]
  /\ backoff = [w \in Workers |-> 0]
  /\ handler = {} /\ child = {} /\ pressed = {}
  /\ signed = {} /\ accepted = {} /\ promoted = {}
  /\ pending = {} /\ agents = {}
  /\ claimant = [j \in Jobs |-> None]
  /\ results = {} /\ open = Jobs
  /\ faults = 0

Goto(w, l) == pc' = [pc EXCEPT ![w] = l]

Fault == faults < MaxFaults /\ faults' = faults + 1

\* Mutant of next_backoff: no cap.
doubled_backoff(b) == IF b = 0 THEN BACKOFF_MIN ELSE 2 * b

next_backoff(b) ==
  IF b = 0 THEN BACKOFF_MIN ELSE IF 2 * b < BACKOFF_MAX THEN 2 * b ELSE BACKOFF_MAX

-----------------------------------------------------------------------------
\* The end of an iteration: the child is dropped, and the delay is raced
\* against ctrl_c(), whose first use installs the handler.
Pause(w, b) ==
  /\ Goto(w, "delay")
  /\ backoff' = [backoff EXCEPT ![w] = b]
  /\ child' = child \ {w}
  /\ handler' = handler \union {w}
  /\ UNCHANGED pressed

Leg(w) ==
  CASE pc[w] \in {"build_register", "register"} -> "register"
    [] pc[w] \in {"build_claim", "claim"}       -> "claim"
    [] pc[w] \in {"build_submit", "submit"}     -> "submit"

Tx(w) == [by |-> w, leg |-> Leg(w), job |-> job[w]]

\* The sidecar answers with the transaction it was asked for, which is signed, or
\* with none (IterationFails).  What assert_expected lets it answer instead, such
\* as the claim of another task, is in Roundtrip.
SignLeg(w) ==
  /\ pc[w] \in {"build_register", "build_claim", "build_submit"}
  /\ signed' = signed \union {Tx(w)}
  /\ Goto(w, Leg(w))
  /\ UNCHANGED <<job, backoff, procVars, accepted, promoted, chainVars, open, faults>>

\* What the program allows on the chain as it is.
Legal(t) ==
  CASE t.leg = "register" -> t.by \notin agents
    [] t.leg = "claim"    -> t.by \in agents /\ claimant[t.job] = None
    [] t.leg = "submit"   -> claimant[t.job] = t.by /\ t.job \notin results

\* The RPC node takes the transaction in flight and answers with its signature.
SendLeg(w) ==
  /\ pc[w] \in Legs
  /\ Legal(Tx(w))
  /\ pending' = pending \union {Tx(w)}
  /\ accepted' = accepted \union {Tx(w)}
  /\ CASE pc[w] = "register" -> Goto(w, "spawn") /\ UNCHANGED <<backoff, procVars>>
       [] pc[w] = "claim"    -> Goto(w, "build_submit") /\ UNCHANGED <<backoff, procVars>>
       [] pc[w] = "submit"   -> Pause(w, 0)
  /\ UNCHANGED <<job, signed, promoted, agents, claimant, results, open, faults>>

\* Whatever fails in register is only logged.
RegisterFails(w) ==
  /\ pc[w] \in Starting
  /\ Goto(w, "spawn")
  /\ \/ pc[w] = "register" /\ ~ Legal(Tx(w)) /\ UNCHANGED <<pending, faults>>
     \/ Fault /\ UNCHANGED pending
     \/ Fault /\ pc[w] = "register" /\ Legal(Tx(w)) /\ pending' = pending \union {Tx(w)}
  /\ UNCHANGED <<job, backoff, procVars, walletVars, promoted, agents, claimant, results, open>>

\* Command::spawn: the child runs from here on.
Spawn(w) ==
  /\ pc[w] = "spawn"
  /\ Goto(w, "initialize")
  /\ child' = child \union {w}
  /\ job' = [job EXCEPT ![w] = 0]
  /\ UNCHANGED <<backoff, handler, pressed, walletVars, promoted, chainVars, open, faults>>

\* The child answers the `initialize` request.
Initialize(w) ==
  /\ pc[w] = "initialize"
  /\ Goto(w, "discover")
  /\ UNCHANGED <<job, backoff, procVars, walletVars, promoted, chainVars, open, faults>>

BestPaid(j) == \A k \in open : k <= j

\* Mutant of Discover: an idle poll resets the backoff.
PollsAtOnce(w) ==
  /\ pc[w] = "discover"
  /\ \/ open = {} /\ Pause(w, 0) /\ UNCHANGED job
     \/ \E j \in open : /\ BestPaid(j)
                        /\ Goto(w, "build")
                        /\ job' = [job EXCEPT ![w] = j]
                        /\ UNCHANGED <<backoff, procVars>>
  /\ UNCHANGED <<walletVars, promoted, chainVars, open, faults>>

\* The board's answer, and select_job on it: no job, or the best paid.
Discover(w) ==
  /\ pc[w] = "discover"
  /\ \/ open = {} /\ Pause(w, next_backoff(backoff[w])) /\ UNCHANGED job
     \/ \E j \in open : /\ BestPaid(j)
                        /\ Goto(w, "build")
                        /\ job' = [job EXCEPT ![w] = j]
                        /\ UNCHANGED <<backoff, procVars>>
  /\ UNCHANGED <<walletVars, promoted, chainVars, open, faults>>

\* drive_builder, up to the promotion of the app.
Build(w) ==
  /\ pc[w] = "build"
  /\ promoted' = promoted \union {<<w, job[w]>>}
  /\ Goto(w, "build_claim")
  /\ UNCHANGED <<job, backoff, procVars, walletVars, chainVars, open, faults>>

\* Mutants of IterationFails: the worker gives up; a failed claim is no reason
\* not to submit; a child whose handshake fails is not dropped.
GivesUp(w) ==
  /\ pc[w] \in Iterating
  /\ IF pc[w] = "spawn"
     THEN Goto(w, "stopped") /\ UNCHANGED <<backoff, procVars>>
     ELSE Pause(w, next_backoff(backoff[w]))
  /\ Fault
  /\ UNCHANGED <<job, walletVars, promoted, chainVars, open>>

SubmitsAnyway(w) ==
  /\ pc[w] \in Iterating
  /\ IF pc[w] = "claim"
     THEN Goto(w, "build_submit") /\ UNCHANGED <<backoff, procVars>>
     ELSE Pause(w, next_backoff(backoff[w]))
  /\ Fault
  /\ UNCHANGED <<job, walletVars, promoted, chainVars, open>>

LeavesFailedHandshake(w) ==
  /\ pc[w] \in Iterating
  /\ Fault
  /\ Goto(w, "delay")
  /\ backoff' = [backoff EXCEPT ![w] = next_backoff(backoff[w])]
  /\ handler' = handler \union {w}
  /\ child' = IF pc[w] = "initialize" THEN child ELSE child \ {w}
  /\ UNCHANGED <<job, pressed, walletVars, promoted, chainVars, open>>

\* Err anywhere in the iteration: the child could not be spawned or did not
\* complete the handshake, a call failed, before or after it took effect, or a
\* transaction was refused by the preflight or by assert_expected.
IterationFails(w) ==
  /\ pc[w] \in Iterating
  /\ Pause(w, next_backoff(backoff[w]))
  /\ \/ /\ pc[w] \in Legs /\ ~ Legal(Tx(w))
        /\ UNCHANGED <<promoted, pending, faults>>
     \/ /\ Fault
        /\ UNCHANGED <<promoted, pending>>
     \/ /\ Fault
        /\ pc[w] = "build"
        /\ promoted' = promoted \union {<<w, job[w]>>}
        /\ UNCHANGED pending
     \/ /\ Fault
        /\ pc[w] \in Legs /\ Legal(Tx(w))
        /\ pending' = pending \union {Tx(w)}
        /\ UNCHANGED promoted
  /\ UNCHANGED <<job, walletVars, agents, claimant, results, open>>

\* The delay is over.
Wake(w) ==
  /\ pc[w] = "delay"
  /\ Goto(w, "spawn")
  /\ UNCHANGED <<job, backoff, procVars, walletVars, promoted, chainVars, open, faults>>

\* A SIGINT kills a process without a handler, with no drop; once there is one,
\* it ends a delay, and is lost on a worker that is not in one.
CtrlC(w) ==
  /\ pc[w] \notin Ended /\ w \notin pressed
  /\ pressed' = pressed \union {w}
  /\ CASE w \notin handler -> Goto(w, "killed")
       [] w \in handler /\ pc[w] = "delay" -> Goto(w, "stopped")
       [] OTHER -> UNCHANGED pc
  /\ UNCHANGED <<job, backoff, handler, child, walletVars, promoted, chainVars, open, faults>>

-----------------------------------------------------------------------------
\* The child of a killed worker sees its stdin closed.
ChildExits(w) ==
  /\ pc[w] = "killed" /\ w \in child
  /\ child' = child \ {w}
  /\ UNCHANGED <<pc, job, backoff, handler, pressed, walletVars, promoted, chainVars, open, faults>>

\* A pending transaction is executed, or fails if it is too late.
Land(t) ==
  /\ t \in pending
  /\ pending' = pending \ {t}
  /\ agents' = IF Legal(t) /\ t.leg = "register" THEN agents \union {t.by} ELSE agents
  /\ claimant' = IF Legal(t) /\ t.leg = "claim"
                 THEN [claimant EXCEPT ![t.job] = t.by] ELSE claimant
  /\ results' = IF Legal(t) /\ t.leg = "submit" THEN results \union {t.job} ELSE results
  /\ UNCHANGED <<pc, job, backoff, procVars, walletVars, promoted, open, faults>>

Expire(t) ==
  /\ t \in pending
  /\ Fault
  /\ pending' = pending \ {t}
  /\ UNCHANGED <<pc, job, backoff, procVars, walletVars, promoted, agents, claimant, results, open>>

BoardSync ==
  /\ open' = {j \in Jobs : claimant[j] = None}
  /\ open' # open
  /\ UNCHANGED <<pc, job, backoff, procVars, walletVars, promoted, chainVars, faults>>

Step(w) ==
  \/ SignLeg(w) \/ SendLeg(w) \/ RegisterFails(w)
  \/ Spawn(w) \/ Initialize(w) \/ Discover(w) \/ Build(w) \/ IterationFails(w) \/ Wake(w)

Chain == \E t \in pending : Land(t) \/ Expire(t)

Next ==
  \/ \E w \in Workers : Step(w) \/ CtrlC(w) \/ ChildExits(w)
  \/ Chain
  \/ BoardSync

Spec == Init /\ [][Next]_vars

\* Every await of a worker ends, transactions land or expire, and the board
\* catches up.
FairSpec ==
  /\ Spec
  /\ \A w \in Workers : WF_vars(Step(w))
  /\ WF_vars(Chain) /\ WF_vars(BoardSync)
-----------------------------------------------------------------------------
(***************************************************************************)
(* The workers, with their wallets and the chain, settle jobs as           *)
(* Settlement promises: built is what was promoted, asked for is what was  *)
(* signed, granted is what the RPC node took.  Nothing is claimed on a     *)
(* failed build or submitted on a failed claim, of this or an earlier      *)
(* iteration, and a transaction that lands, however late, does nothing     *)
(* that was not asked for (work.rs 276-321, worker.rs 224-261).            *)
(***************************************************************************)
Deal == INSTANCE Settlement WITH built <- promoted, asked <- signed, granted <- accepted

ImplementsSettlement == Deal!Spec

(***************************************************************************)
(* A worker polls the board again without a delay only when it has just    *)
(* submitted a result (main.rs 626-644).                                   *)
(***************************************************************************)
NeverSpins ==
  \A w \in Workers :
    pc[w] = "delay" /\ backoff[w] = 0 =>
      [by |-> w, leg |-> "submit", job |-> job[w]] \in accepted

(***************************************************************************)
(* No MCP child outlives the iteration that spawned it, however the        *)
(* iteration ends, in the handshake too; only a worker that was killed may *)
(* leave one behind, until it sees its stdin closed (main.rs 619-623,      *)
(* builder.rs 47-74, 157-162).                                             *)
(***************************************************************************)
ChildrenAreDropped ==
  \A w \in child : pc[w] \in (Iterating \ {"spawn"}) \union {"killed"}

(***************************************************************************)
(* A worker that was not interrupted begins iteration after iteration,     *)
(* whatever fails (main.rs 610-655).                                       *)
(***************************************************************************)
KeepsWorking ==
  \A w \in Workers : []<>(pc[w] = "spawn") \/ <>(w \in pressed)

(***************************************************************************)
(* main.rs 107: "ctrl-c exits cleanly".  A worker that is sent a SIGINT    *)
(* stops.                                                                  *)
(***************************************************************************)
CtrlCStopsWork == \A w \in Workers : w \in pressed ~> pc[w] \in Ended

(***************************************************************************)
(* work.rs 258-259: after "a (transient) discovery/build/settle failure",  *)
(* "the caller backs off and retries".  A job that a worker has claimed is *)
(* submitted, unless the worker ends.                                      *)
(***************************************************************************)
FailedSettleIsRetried ==
  \A j \in Jobs, w \in Workers :
    claimant[j] = w ~> j \in results \/ pc[w] \in Ended
=============================================================================
