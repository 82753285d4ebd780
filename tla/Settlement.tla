----------------------------- MODULE Settlement -----------------------------
(***************************************************************************)
(* What the workers promise each other and the chain about the jobs they   *)
(* take, whatever becomes of their processes, delays and failed calls: the *)
(* wallet of a worker asks for a claim only on what the worker has built,  *)
(* and for a submit only once its claim was taken for the chain; and the   *)
(* chain executes only what was asked for.  WorkLoop implements it.        *)
(***************************************************************************)
CONSTANTS Workers, Jobs, None

VARIABLES
  built,     \* <<w, j>>: worker w has built job j
  asked,     \* transactions that were asked for
  granted,   \* those of them the worker was told are on their way
  agents,    \* registered workers
  claimant,  \* claimant[j]: who holds job j
  results    \* jobs that were delivered

vars == <<built, asked, granted, agents, claimant, results>>

Init ==
  /\ built = {} /\ asked = {} /\ granted = {}
  /\ agents = {} /\ results = {}
  /\ claimant = [j \in Jobs |-> None]

Build(w, j) ==
  /\ built' = built \union {<<w, j>>}
  /\ UNCHANGED <<asked, granted, agents, claimant, results>>

Ask(t) ==
  /\ t.leg # "register" => <<t.by, t.job>> \in built
  /\ t.leg = "submit" => [t EXCEPT !.leg = "claim"] \in granted
  /\ asked' = asked \union {t}
  /\ UNCHANGED <<built, granted, agents, claimant, results>>

Grant(t) ==
  /\ granted' = granted \union {t}
  /\ UNCHANGED <<built, asked, agents, claimant, results>>

Register(t) ==
  /\ t.leg = "register" /\ t.by \notin agents
  /\ agents' = agents \union {t.by}
  /\ UNCHANGED <<built, asked, granted, claimant, results>>

Claim(t) ==
  /\ t.leg = "claim" /\ t.by \in agents /\ claimant[t.job] = None
  /\ claimant' = [claimant EXCEPT ![t.job] = t.by]
  /\ UNCHANGED <<built, asked, granted, agents, results>>

Deliver(t) ==
  /\ t.leg = "submit" /\ claimant[t.job] = t.by /\ t.job \notin results
  /\ results' = results \union {t.job}
  /\ UNCHANGED <<built, asked, granted, agents, claimant>>

Requests == [by : Workers, leg : {"register", "claim", "submit"}, job : Jobs \union {0}]

Next ==
  \/ \E w \in Workers, j \in Jobs : Build(w, j)
  \/ \E t \in Requests : Ask(t)
  \/ \E t \in asked : Grant(t) \/ Register(t) \/ Claim(t) \/ Deliver(t)

Spec == Init /\ [][Next]_vars
-----------------------------------------------------------------------------
(***************************************************************************)
(* A job is held by an agent that built it and asked for it, and delivered *)
(* only by its holder, whose claim was granted before it asked to submit:  *)
(* there is never a delivery by another worker, of an app that was not     *)
(* built, or ahead of the claim (work_once, worker_roundtrip).             *)
(***************************************************************************)
DeliveredByRight ==
  /\ \A j \in Jobs : claimant[j] # None =>
       claimant[j] \in agents /\ <<claimant[j], j>> \in built
  /\ \A j \in results :
       /\ [by |-> claimant[j], leg |-> "claim", job |-> j] \in granted
       /\ [by |-> claimant[j], leg |-> "submit", job |-> j] \in asked
=============================================================================
