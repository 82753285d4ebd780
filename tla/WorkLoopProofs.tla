-------------------------- MODULE WorkLoopProofs ---------------------------
(***************************************************************************)
(* Workers settle in order, pause and drop their children: for any number  *)
(* of workers, jobs and failures.                                          *)
(***************************************************************************)
EXTENDS WorkLoop, TLAPS

Claiming == {"build_claim", "claim"}
Submitting == {"build_submit", "submit"}

ClaimTx(w, j) == [by |-> w, leg |-> "claim", job |-> j]
SubmitTx(w, j) == [by |-> w, leg |-> "submit", job |-> j]

\* A worker claims only a job whose app it has promoted, and submits only a job
\* on which it had a claim accepted (work.rs 276-321, worker.rs 224-261).
SettlesInOrder ==
  \A t \in signed :
    /\ t.leg # "register" => <<t.by, t.job>> \in promoted
    /\ t.leg = "submit" => [t EXCEPT !.leg = "claim"] \in accepted

\* What a worker has done by the time it stands where it stands.
Local(w) ==
  /\ pc[w] \in {"build"} \union Claiming \union Submitting => job[w] \in Jobs
  /\ pc[w] \in Claiming \union Submitting => <<w, job[w]>> \in promoted
  /\ pc[w] \in Submitting => ClaimTx(w, job[w]) \in accepted
  /\ pc[w] \in Legs => Tx(w) \in signed
  /\ pc[w] = "delay" /\ backoff[w] = 0 => SubmitTx(w, job[w]) \in accepted
  /\ w \in child => pc[w] \in (Iterating \ {"spawn"}) \union {"killed"}

Inv == TypeOK /\ SettlesInOrder /\ \A w \in Workers : Local(w)

-----------------------------------------------------------------------------
LEMMA BackoffFacts ==
  ASSUME NEW b \in {0} \union BACKOFF_MIN..BACKOFF_MAX
  PROVE  next_backoff(b) \in BACKOFF_MIN..BACKOFF_MAX /\ next_backoff(b) # 0
BY WorkLoopAssumption DEF next_backoff

LEMMA TxFacts ==
  ASSUME TypeOK, NEW w \in Workers, pc[w] \in Legs \union {"build_register", "build_claim", "build_submit"}
  PROVE  /\ Tx(w) \in Txs /\ Tx(w).by = w /\ Tx(w).leg = Leg(w) /\ Tx(w).job = job[w]
         /\ Leg(w) \in Legs
         /\ Leg(w) = "register" <=> pc[w] \in Starting
         /\ Leg(w) = "claim" <=> pc[w] \in Claiming
         /\ Leg(w) = "submit" <=> pc[w] \in Submitting
         /\ pc[w] \in Legs => Leg(w) = pc[w]
         /\ Leg(w) = "claim" => Tx(w) = ClaimTx(w, job[w])
         /\ Leg(w) = "submit" => Tx(w) = SubmitTx(w, job[w])
         /\ [Tx(w) EXCEPT !.leg = "claim"] = ClaimTx(w, job[w])
<1>1. /\ Leg(w) \in Legs
      /\ Leg(w) = "register" <=> pc[w] \in Starting
      /\ Leg(w) = "claim" <=> pc[w] \in Claiming
      /\ Leg(w) = "submit" <=> pc[w] \in Submitting
      /\ pc[w] \in Legs => Leg(w) = pc[w]
  BY DEF Leg, Legs, Starting, Claiming, Submitting
<1>2. /\ Tx(w) \in Txs /\ Tx(w).by = w /\ Tx(w).leg = Leg(w) /\ Tx(w).job = job[w]
  BY <1>1 DEF Tx, Txs, TypeOK
<1>3. ASSUME NEW A, NEW L, NEW J, NEW t \in [by : A, leg : L, job : J], NEW l
      PROVE  [t EXCEPT !.leg = l] = [by |-> t.by, leg |-> l, job |-> t.job]
  OBVIOUS
<1>4. [Tx(w) EXCEPT !.leg = "claim"] = ClaimTx(w, job[w])
  BY <1>2, <1>3 DEF ClaimTx, Txs
<1> QED BY <1>1, <1>2, <1>4 DEF Tx, ClaimTx, SubmitTx

\* A step of one worker that does not take back what was done leaves the others
\* where they were.
LEMMA OthersKeep ==
  ASSUME Inv, NEW w \in Workers, NEW v \in Workers, v # w,
         pc'[v] = pc[v], job'[v] = job[v], backoff'[v] = backoff[v],
         promoted \subseteq promoted', accepted \subseteq accepted', signed \subseteq signed',
         v \in child' => v \in child
  PROVE  Local(v)'
<1>1. Local(v)
  BY DEF Inv
<1>2. Tx(v)' = Tx(v)
  BY DEF Tx, Leg
<1> QED BY <1>1, <1>2 DEF Local, ClaimTx, SubmitTx

LEMMA OthersKeepAll ==
  ASSUME Inv, NEW w \in Workers,
         \A v \in Workers : v # w => /\ pc'[v] = pc[v] /\ job'[v] = job[v]
                                     /\ backoff'[v] = backoff[v]
                                     /\ v \in child' => v \in child,
         promoted \subseteq promoted', accepted \subseteq accepted', signed \subseteq signed'
  PROVE  \A v \in Workers : v # w => Local(v)'
BY OthersKeep

LEMMA OrderKept ==
  ASSUME SettlesInOrder, signed' = signed, promoted \subseteq promoted', accepted \subseteq accepted'
  PROVE  SettlesInOrder'
BY DEF SettlesInOrder

LEMMA InitInv == Init => Inv
BY WorkLoopAssumption
DEF Init, Inv, TypeOK, SettlesInOrder, Local, Starting, Claiming, Submitting, Legs

-----------------------------------------------------------------------------
LEMMA SignStep ==
  ASSUME Inv, NEW w \in Workers, SignLeg(w)
  PROVE  Inv'
<1>1. /\ pc[w] \in {"build_register", "build_claim", "build_submit"}
      /\ signed' = signed \union {Tx(w)}
      /\ pc' = [pc EXCEPT ![w] = Leg(w)]
      /\ UNCHANGED <<job, backoff, handler, child, pressed, accepted, promoted,
                     pending, agents, claimant, results, open, faults>>
  BY DEF SignLeg, Goto, procVars, chainVars
<1>2. TypeOK'
  BY <1>1, TxFacts DEF Inv, TypeOK, Legs, Iterating, Starting
<1>3. SettlesInOrder'
  <2>1. /\ Tx(w).leg # "register" => <<w, job[w]>> \in promoted
        /\ Tx(w).leg = "submit" => ClaimTx(w, job[w]) \in accepted
    BY <1>1, TxFacts DEF Inv, Local, Legs
  <2>2. /\ Tx(w).by = w /\ Tx(w).job = job[w]
        /\ [Tx(w) EXCEPT !.leg = "claim"] = ClaimTx(w, job[w])
    BY <1>1, TxFacts DEF Inv, Legs
  <2>3. \A t \in signed :
          /\ t.leg # "register" => <<t.by, t.job>> \in promoted
          /\ t.leg = "submit" => [t EXCEPT !.leg = "claim"] \in accepted
    BY DEF Inv, SettlesInOrder
  <2> QED BY <1>1, <2>1, <2>2, <2>3 DEF SettlesInOrder
<1>4. Local(w)'
  <2>1. /\ pc'[w] = Leg(w) /\ job'[w] = job[w]
        /\ pc'[w] \in Claiming => pc[w] \in Claiming
        /\ pc'[w] \in Submitting => pc[w] \in Submitting
        /\ pc'[w] \in Legs
    BY <1>1, TxFacts DEF Inv, TypeOK, Legs, Claiming, Submitting, Starting
  <2>2. Tx(w)' = Tx(w)
    BY <2>1, TxFacts, <1>1 DEF Tx, Leg, Inv, Legs
  <2>3. CASE pc[w] = "build_register"
    BY <1>1, <2>1, <2>2, <2>3, TxFacts
    DEF Inv, Local, Claiming, Submitting, Legs, Iterating, Starting
  <2>4. CASE pc[w] = "build_claim"
    <3>1. pc'[w] = "claim"
      BY <1>1, <2>1, <2>4, TxFacts DEF Inv, Claiming, Legs
    <3> QED BY <1>1, <2>1, <2>2, <2>4, <3>1
            DEF Inv, Local, Claiming, Submitting, Legs, Iterating, ClaimTx
  <2>5. CASE pc[w] = "build_submit"
    <3>1. pc'[w] = "submit"
      BY <1>1, <2>1, <2>5, TxFacts DEF Inv, Submitting, Legs
    <3> QED BY <1>1, <2>1, <2>2, <2>5, <3>1
            DEF Inv, Local, Claiming, Submitting, Legs, Iterating, ClaimTx
  <2> QED BY <1>1, <2>3, <2>4, <2>5
<1>5. \A v \in Workers : v # w => Local(v)'
  BY <1>1, OthersKeepAll DEF Inv, TypeOK
<1> QED BY <1>2, <1>3, <1>4, <1>5 DEF Inv

LEMMA SendStep ==
  ASSUME Inv, NEW w \in Workers, SendLeg(w)
  PROVE  Inv'
<1>1. /\ pc[w] \in Legs
      /\ pending' = pending \union {Tx(w)} /\ accepted' = accepted \union {Tx(w)}
      /\ UNCHANGED <<job, signed, promoted, agents, claimant, results, open, faults, pressed>>
      /\ \/ /\ pc[w] \in {"register", "claim"}
            /\ pc' = [pc EXCEPT ![w] = IF pc[w] = "register" THEN "spawn" ELSE "build_submit"]
            /\ UNCHANGED <<backoff, handler, child>>
         \/ /\ pc[w] = "submit"
            /\ pc' = [pc EXCEPT ![w] = "delay"]
            /\ backoff' = [backoff EXCEPT ![w] = 0]
            /\ child' = child \ {w} /\ handler' = handler \union {w}
  BY DEF SendLeg, Goto, Pause, procVars, Legs
<1>2. Tx(w) \in signed /\ Tx(w).leg = pc[w]
  BY <1>1, TxFacts DEF Inv, Local
<1>3. TypeOK'
  BY <1>1, <1>2 DEF Inv, TypeOK, Legs, Iterating, Starting
<1>4. SettlesInOrder'
  BY <1>1, OrderKept DEF Inv
<1>5. Local(w)'
  <2>1. CASE pc[w] = "register"
    BY <1>1, <2>1 DEF Inv, TypeOK, Local, Claiming, Submitting, Legs, Iterating
  <2>2. CASE pc[w] = "claim"
    <3>1. Tx(w) = ClaimTx(w, job[w])
      BY <1>1, <2>2, TxFacts DEF Inv, Claiming
    <3>2. pc'[w] = "build_submit"
      BY <1>1, <2>2 DEF Inv, TypeOK
    <3> QED BY <1>1, <2>2, <3>1, <3>2
            DEF Inv, Local, Claiming, Submitting, Legs, Iterating, ClaimTx
  <2>3. CASE pc[w] = "submit"
    <3>1. Tx(w) = SubmitTx(w, job[w])
      BY <1>1, <2>3, TxFacts DEF Inv, Submitting
    <3>2. pc'[w] = "delay"
      BY <1>1, <2>3 DEF Inv, TypeOK
    <3> QED BY <1>1, <2>3, <3>1, <3>2
            DEF Inv, Local, Claiming, Submitting, Legs, SubmitTx
  <2> QED BY <1>1, <2>1, <2>2, <2>3 DEF Legs
<1>6. \A v \in Workers : v # w => Local(v)'
  BY <1>1, OthersKeepAll DEF Inv, TypeOK
<1> QED BY <1>3, <1>4, <1>5, <1>6 DEF Inv

LEMMA RegisterFailsStep ==
  ASSUME Inv, NEW w \in Workers, RegisterFails(w)
  PROVE  Inv'
<1>1. /\ pc[w] \in Starting /\ pc' = [pc EXCEPT ![w] = "spawn"]
      /\ faults' \in 0..MaxFaults
      /\ \/ pending' = pending
         \/ pc[w] \in Legs /\ pending' = pending \union {Tx(w)}
      /\ UNCHANGED <<job, backoff, handler, child, pressed, signed, accepted, promoted,
                     agents, claimant, results, open>>
  BY WorkLoopAssumption
  DEF RegisterFails, Fault, Goto, procVars, walletVars, Inv, TypeOK, Legs
<1>2. TypeOK'
  BY <1>1 DEF Inv, TypeOK, Local, Iterating
<1>3. SettlesInOrder'
  BY <1>1, OrderKept DEF Inv
<1>4. Local(w)'
  BY <1>1 DEF Inv, TypeOK, Local, Claiming, Submitting, Legs, Iterating, Starting
<1>5. \A v \in Workers : v # w => Local(v)'
  BY <1>1, OthersKeepAll DEF Inv, TypeOK
<1> QED BY <1>2, <1>3, <1>4, <1>5 DEF Inv

LEMMA SpawnStep ==
  ASSUME Inv, NEW w \in Workers, Spawn(w)
  PROVE  Inv'
<1>1. /\ pc[w] = "spawn" /\ pc' = [pc EXCEPT ![w] = "initialize"]
      /\ child' = child \union {w} /\ job' = [job EXCEPT ![w] = 0]
      /\ UNCHANGED <<backoff, handler, pressed, signed, accepted, promoted,
                     pending, agents, claimant, results, open, faults>>
  BY DEF Spawn, Goto, walletVars, chainVars
<1>2. TypeOK'
  BY <1>1 DEF Inv, TypeOK, Iterating
<1>3. SettlesInOrder'
  BY <1>1, OrderKept DEF Inv
<1>4. Local(w)'
  BY <1>1 DEF Inv, TypeOK, Local, Claiming, Submitting, Legs, Iterating
<1>5. \A v \in Workers : v # w => Local(v)'
  BY <1>1, OthersKeepAll DEF Inv, TypeOK
<1> QED BY <1>2, <1>3, <1>4, <1>5 DEF Inv

LEMMA InitializeStep ==
  ASSUME Inv, NEW w \in Workers, Initialize(w)
  PROVE  Inv'
<1>1. /\ pc[w] = "initialize" /\ pc' = [pc EXCEPT ![w] = "discover"]
      /\ UNCHANGED <<job, backoff, handler, child, pressed, signed, accepted, promoted,
                     pending, agents, claimant, results, open, faults>>
  BY DEF Initialize, Goto, procVars, walletVars, chainVars
<1>2. TypeOK'
  BY <1>1 DEF Inv, TypeOK, Iterating
<1>3. SettlesInOrder'
  BY <1>1, OrderKept DEF Inv
<1>4. Local(w)'
  BY <1>1 DEF Inv, TypeOK, Local, Claiming, Submitting, Legs, Iterating
<1>5. \A v \in Workers : v # w => Local(v)'
  BY <1>1, OthersKeepAll DEF Inv, TypeOK
<1> QED BY <1>2, <1>3, <1>4, <1>5 DEF Inv

LEMMA DiscoverStep ==
  ASSUME Inv, NEW w \in Workers, Discover(w)
  PROVE  Inv'
<1>1. /\ pc[w] = "discover"
      /\ UNCHANGED <<pressed, signed, accepted, promoted, pending, agents, claimant,
                     results, open, faults>>
      /\ \/ /\ pc' = [pc EXCEPT ![w] = "delay"] /\ UNCHANGED job
            /\ backoff' = [backoff EXCEPT ![w] = next_backoff(backoff[w])]
            /\ child' = child \ {w} /\ handler' = handler \union {w}
         \/ \E j \in open : /\ pc' = [pc EXCEPT ![w] = "build"]
                            /\ job' = [job EXCEPT ![w] = j]
                            /\ UNCHANGED <<backoff, handler, child>>
  BY DEF Discover, Pause, Goto, walletVars, chainVars, procVars
<1>2. next_backoff(backoff[w]) \in BACKOFF_MIN..BACKOFF_MAX /\ next_backoff(backoff[w]) # 0
  BY BackoffFacts DEF Inv, TypeOK
<1>3. TypeOK'
  BY <1>1, <1>2 DEF Inv, TypeOK, Iterating
<1>4. SettlesInOrder'
  BY <1>1, OrderKept DEF Inv
<1>5. Local(w)'
  BY <1>1, <1>2 DEF Inv, TypeOK, Local, Claiming, Submitting, Legs, Iterating
<1>6. \A v \in Workers : v # w => Local(v)'
  BY <1>1, OthersKeepAll DEF Inv, TypeOK
<1> QED BY <1>3, <1>4, <1>5, <1>6 DEF Inv

LEMMA BuildStep ==
  ASSUME Inv, NEW w \in Workers, Build(w)
  PROVE  Inv'
<1>1. /\ pc[w] = "build" /\ pc' = [pc EXCEPT ![w] = "build_claim"]
      /\ promoted' = promoted \union {<<w, job[w]>>}
      /\ UNCHANGED <<job, backoff, handler, child, pressed, signed, accepted,
                     pending, agents, claimant, results, open, faults>>
  BY DEF Build, Goto, procVars, walletVars, chainVars
<1>2. job[w] \in Jobs
  BY <1>1 DEF Inv, Local
<1>3. TypeOK'
  BY <1>1, <1>2 DEF Inv, TypeOK, Iterating
<1>4. SettlesInOrder'
  BY <1>1, OrderKept DEF Inv
<1>5. Local(w)'
  BY <1>1, <1>2 DEF Inv, TypeOK, Local, Claiming, Submitting, Legs, Iterating
<1>6. \A v \in Workers : v # w => Local(v)'
  BY <1>1, OthersKeepAll DEF Inv, TypeOK
<1> QED BY <1>3, <1>4, <1>5, <1>6 DEF Inv

LEMMA FailStep ==
  ASSUME Inv, NEW w \in Workers, IterationFails(w)
  PROVE  Inv'
<1>1. /\ pc[w] \in Iterating /\ pc' = [pc EXCEPT ![w] = "delay"]
      /\ backoff' = [backoff EXCEPT ![w] = next_backoff(backoff[w])]
      /\ child' = child \ {w} /\ handler' = handler \union {w}
      /\ faults' \in 0..MaxFaults
      /\ \/ pending' = pending
         \/ pc[w] \in Legs /\ pending' = pending \union {Tx(w)}
      /\ \/ promoted' = promoted
         \/ pc[w] = "build" /\ promoted' = promoted \union {<<w, job[w]>>}
      /\ UNCHANGED <<job, pressed, signed, accepted, agents, claimant, results, open>>
  BY WorkLoopAssumption
  DEF IterationFails, Pause, Fault, Goto, walletVars, Inv, TypeOK
<1>2. next_backoff(backoff[w]) \in BACKOFF_MIN..BACKOFF_MAX /\ next_backoff(backoff[w]) # 0
  BY BackoffFacts DEF Inv, TypeOK
<1>3. pc[w] = "build" => job[w] \in Jobs
  BY DEF Inv, Local
<1>4. TypeOK'
  <2>1. pending' \subseteq signed' /\ promoted' \subseteq Workers \X Jobs
    <3>1. pc[w] \in Legs => Tx(w) \in signed
      BY DEF Inv, Local
    <3>2. pending \subseteq signed /\ promoted \subseteq Workers \X Jobs
      BY DEF Inv, TypeOK
    <3>3. pending' \subseteq signed'
      BY <1>1, <3>1, <3>2
    <3>4. promoted' \subseteq Workers \X Jobs
      BY <1>1, <1>3, <3>2
    <3> QED BY <3>3, <3>4
  <2> QED BY <1>1, <1>2, <2>1 DEF Inv, TypeOK
<1>5. SettlesInOrder'
  BY <1>1, OrderKept DEF Inv
<1>6. Local(w)'
  BY <1>1, <1>2 DEF Inv, TypeOK, Local, Claiming, Submitting, Legs
<1>7. \A v \in Workers : v # w => Local(v)'
  BY <1>1, OthersKeepAll DEF Inv, TypeOK
<1> QED BY <1>4, <1>5, <1>6, <1>7 DEF Inv

\* Steps that only move the worker out of its work, or end its child.
LEMMA QuietStep ==
  ASSUME Inv, NEW w \in Workers, Wake(w) \/ CtrlC(w) \/ ChildExits(w)
  PROVE  Inv'
<1>1. /\ \/ pc' = pc
         \/ pc' = [pc EXCEPT ![w] = "spawn"] /\ pc[w] = "delay"
         \/ pc' = [pc EXCEPT ![w] = "killed"]
         \/ pc' = [pc EXCEPT ![w] = "stopped"] /\ pc[w] = "delay"
      /\ child' \subseteq child /\ pressed' \subseteq Workers
      /\ UNCHANGED <<job, backoff, handler, signed, accepted, promoted,
                     pending, agents, claimant, results, open, faults>>
  BY DEF Wake, CtrlC, ChildExits, Goto, procVars, walletVars, chainVars, Inv, TypeOK
<1>2. TypeOK'
  BY <1>1 DEF Inv, TypeOK, Iterating, Ended
<1>3. SettlesInOrder'
  BY <1>1, OrderKept DEF Inv
<1>4. Local(w)'
  <2>1. CASE pc' = pc
    <3>1. Tx(w)' = Tx(w)
      BY <1>1, <2>1 DEF Tx, Leg
    <3> QED BY <1>1, <2>1, <3>1 DEF Inv, Local, ClaimTx, SubmitTx
  <2>2. CASE pc'[w] \in {"spawn", "stopped"} /\ pc[w] = "delay"
    BY <1>1, <2>2 DEF Inv, Local, Claiming, Submitting, Legs, Iterating
  <2>3. CASE pc'[w] = "killed"
    BY <2>3 DEF Local, Claiming, Submitting, Legs
  <2> QED BY <1>1, <2>1, <2>2, <2>3 DEF Inv, TypeOK
<1>5. \A v \in Workers : v # w => Local(v)'
  BY <1>1, OthersKeepAll DEF Inv, TypeOK
<1> QED BY <1>2, <1>3, <1>4, <1>5 DEF Inv

LEMMA ChainStep ==
  ASSUME Inv, Chain \/ BoardSync
  PROVE  Inv'
<1>1. UNCHANGED <<pc, job, backoff, handler, child, pressed, signed, accepted, promoted>>
  BY DEF Chain, Land, Expire, BoardSync, procVars, walletVars
<1>2. TypeOK'
  <2>1. ASSUME NEW t \in pending, Land(t) PROVE TypeOK'
    <3>1. t \in Txs /\ t \in signed
      BY DEF Inv, TypeOK
    <3>2. t.by \in Workers /\ t.job \in Jobs \union {0}
      BY <3>1 DEF Txs
    <3>3. t.leg = "submit" => t.job \in Jobs
      BY <3>1 DEF Inv, TypeOK, SettlesInOrder
    <3>4. /\ pending' \subseteq pending /\ open' = open /\ faults' = faults
          /\ agents' \subseteq agents \union {t.by}
          /\ claimant' = claimant \/ claimant' = [claimant EXCEPT ![t.job] = t.by]
          /\ \/ results' = results
             \/ t.leg = "submit" /\ results' = results \union {t.job}
      BY <2>1 DEF Land
    <3> QED BY <1>1, <3>2, <3>3, <3>4 DEF Inv, TypeOK
  <2>2. ASSUME NEW t \in pending, Expire(t) PROVE TypeOK'
    BY <1>1, <2>2, WorkLoopAssumption DEF Expire, Fault, Inv, TypeOK
  <2>3. CASE BoardSync
    BY <1>1, <2>3 DEF BoardSync, chainVars, Inv, TypeOK
  <2> QED BY <2>1, <2>2, <2>3 DEF Chain
<1>3. SettlesInOrder'
  BY <1>1, OrderKept DEF Inv
<1>4. ASSUME NEW w \in Workers PROVE Local(w)'
  <2>1. Tx(w)' = Tx(w)
    BY <1>1 DEF Tx, Leg
  <2> QED BY <1>1, <2>1 DEF Inv, Local, ClaimTx, SubmitTx
<1> QED BY <1>2, <1>3, <1>4 DEF Inv

LEMMA NextInv == Inv /\ [Next]_vars => Inv'
<1> SUFFICES ASSUME Inv, [Next]_vars PROVE Inv'
  OBVIOUS
<1>1. ASSUME NEW w \in Workers, Step(w) \/ CtrlC(w) \/ ChildExits(w) PROVE Inv'
  BY <1>1, SignStep, SendStep, RegisterFailsStep, SpawnStep, InitializeStep, DiscoverStep, BuildStep,
     FailStep, QuietStep DEF Step
<1>2. CASE UNCHANGED vars
  <2>1. UNCHANGED <<pc, job, backoff, handler, child, pressed, signed, accepted, promoted,
                    pending, agents, claimant, results, open, faults>>
    BY <1>2 DEF vars, procVars, walletVars, chainVars
  <2>2. TypeOK' /\ SettlesInOrder'
    BY <2>1 DEF Inv, TypeOK, SettlesInOrder
  <2>3. ASSUME NEW w \in Workers PROVE Local(w)'
    <3>1. Tx(w)' = Tx(w)
      BY <2>1 DEF Tx, Leg
    <3> QED BY <2>1, <3>1 DEF Inv, Local, ClaimTx, SubmitTx
  <2> QED BY <2>2, <2>3 DEF Inv
<1> QED BY <1>1, <1>2, ChainStep DEF Next

LEMMA Invariance == Spec => []Inv
BY InitInv, NextInv, PTL DEF Spec

-----------------------------------------------------------------------------
\* The steps of WorkLoop are those of Settlement, or leave it as it is.
LEMMA InitImplements == Init => Deal!Init
BY DEF Init, Deal!Init

LEMMA SignImplements ==
  ASSUME Inv, NEW w \in Workers, SignLeg(w)
  PROVE  Deal!Next
<1>1. Tx(w) \in Txs /\ signed' = signed \union {Tx(w)} /\ pc[w] \notin Legs
  BY TxFacts DEF SignLeg, Inv, Legs
<1>2. /\ Tx(w).leg # "register" => <<Tx(w).by, Tx(w).job>> \in promoted
      /\ Tx(w).leg = "submit" => [Tx(w) EXCEPT !.leg = "claim"] \in accepted
  BY TxFacts DEF SignLeg, Inv, Local, Legs
<1>3. Deal!Ask(Tx(w))
  BY <1>1, <1>2 DEF Deal!Ask, SignLeg, chainVars
<1>4. Tx(w) \in Deal!Requests
  BY <1>1 DEF Deal!Requests, Txs, Legs
<1> QED BY <1>3, <1>4 DEF Deal!Next

LEMMA SendImplements ==
  ASSUME Inv, NEW w \in Workers, SendLeg(w)
  PROVE  Deal!Next
<1>1. Tx(w) \in signed
  BY DEF SendLeg, Inv, Local
<1>2. Deal!Grant(Tx(w))
  BY DEF Deal!Grant, SendLeg
<1> QED BY <1>1, <1>2 DEF Deal!Next

LEMMA BuildImplements ==
  ASSUME Inv, NEW w \in Workers, pc[w] = "build",
         promoted' = promoted \union {<<w, job[w]>>},
         UNCHANGED <<signed, accepted, agents, claimant, results>>
  PROVE  Deal!Next
<1>1. job[w] \in Jobs
  BY DEF Inv, Local
<1>2. Deal!Build(w, job[w])
  BY DEF Deal!Build
<1> QED BY <1>1, <1>2 DEF Deal!Next

LEMMA LandImplements ==
  ASSUME Inv, NEW t \in pending, Land(t)
  PROVE  Deal!Next \/ UNCHANGED Deal!vars
<1>1. t \in signed /\ t.leg \in Legs
  BY DEF Inv, TypeOK, Txs
<1>2. UNCHANGED <<signed, accepted, promoted>>
  BY DEF Land, walletVars
<1>3. CASE ~ Legal(t)
  BY <1>2, <1>3 DEF Land, Deal!vars
<1>4. CASE Legal(t) /\ t.leg = "register"
  BY <1>1, <1>2, <1>4 DEF Land, Legal, Deal!Register, Deal!Next
<1>5. CASE Legal(t) /\ t.leg = "claim"
  BY <1>1, <1>2, <1>5 DEF Land, Legal, Deal!Claim, Deal!Next
<1>6. CASE Legal(t) /\ t.leg = "submit"
  BY <1>1, <1>2, <1>6 DEF Land, Legal, Deal!Deliver, Deal!Next
<1> QED BY <1>1, <1>3, <1>4, <1>5, <1>6 DEF Legs

LEMMA NextImplements == Inv /\ [Next]_vars => [Deal!Next]_(Deal!vars)
<1> SUFFICES ASSUME Inv, [Next]_vars PROVE Deal!Next \/ UNCHANGED Deal!vars
  OBVIOUS
<1>1. ASSUME NEW w \in Workers, Step(w) PROVE Deal!Next \/ UNCHANGED Deal!vars
  <2>1. CASE SignLeg(w)
    BY <2>1, SignImplements
  <2>2. CASE SendLeg(w)
    BY <2>2, SendImplements
  <2>3. CASE Build(w)
    BY <2>3, BuildImplements DEF Build, walletVars, chainVars
  <2>4. CASE IterationFails(w)
    <3>1. UNCHANGED <<signed, accepted, agents, claimant, results>>
      BY <2>4 DEF IterationFails, walletVars
    <3>2. \/ promoted' = promoted
          \/ pc[w] = "build" /\ promoted' = promoted \union {<<w, job[w]>>}
      BY <2>4 DEF IterationFails
    <3>3. CASE promoted' = promoted
      BY <3>1, <3>3 DEF Deal!vars
    <3> QED BY <3>1, <3>2, <3>3, BuildImplements
  <2>5. CASE RegisterFails(w) \/ Spawn(w) \/ Initialize(w) \/ Discover(w) \/ Wake(w)
    BY <2>5 DEF RegisterFails, Spawn, Initialize, Discover, Wake, walletVars, chainVars, Deal!vars
  <2> QED BY <1>1, <2>1, <2>2, <2>3, <2>4, <2>5 DEF Step
<1>2. ASSUME NEW w \in Workers, CtrlC(w) \/ ChildExits(w) PROVE UNCHANGED Deal!vars
  BY <1>2 DEF CtrlC, ChildExits, walletVars, chainVars, Deal!vars
<1>3. ASSUME NEW t \in pending, Expire(t) PROVE UNCHANGED Deal!vars
  BY <1>3 DEF Expire, walletVars, Deal!vars
<1>4. CASE BoardSync
  BY <1>4 DEF BoardSync, walletVars, chainVars, Deal!vars
<1>5. CASE UNCHANGED vars
  BY <1>5 DEF vars, walletVars, chainVars, Deal!vars
<1> QED BY <1>1, <1>2, <1>3, <1>4, <1>5, LandImplements DEF Next, Chain

(***************************************************************************)
(* Workers, wallets and chain implement the Settlement, for any number of  *)
(* workers and jobs, whatever fails and however late transactions land     *)
(* (work_once, worker_roundtrip, sign_and_send).                           *)
(***************************************************************************)
THEOREM Implementation == Spec => ImplementsSettlement
<1> QED BY InitImplements, NextImplements, Invariance, PTL
        DEF Spec, ImplementsSettlement, Deal!Spec

-----------------------------------------------------------------------------
HeldByRight ==
  \A j \in Jobs : claimant[j] # None =>
    claimant[j] \in agents /\ <<claimant[j], j>> \in promoted

TakenByRight ==
  \A j \in results :
    /\ ClaimTx(claimant[j], j) \in accepted
    /\ SubmitTx(claimant[j], j) \in signed

LEMMA ByRight == Deal!DeliveredByRight <=> HeldByRight /\ TakenByRight
BY DEF Deal!DeliveredByRight, HeldByRight, TakenByRight, ClaimTx, SubmitTx

LEMMA RightKept ==
  ASSUME Inv, HeldByRight, TakenByRight, Deal!Next
  PROVE  HeldByRight' /\ TakenByRight'
<1>0. /\ signed \subseteq Txs /\ claimant \in [Jobs -> Workers \union {None}]
      /\ results \subseteq Jobs /\ SettlesInOrder /\ None \notin Workers
  BY WorkLoopAssumption DEF Inv, TypeOK
<1>1. CASE \E w \in Workers, j \in Jobs : Deal!Build(w, j)
  BY <1>1 DEF Deal!Build, HeldByRight, TakenByRight
<1>2. CASE \E t \in Deal!Requests : Deal!Ask(t)
  BY <1>2 DEF Deal!Ask, HeldByRight, TakenByRight
<1>3. CASE \E t \in signed : Deal!Grant(t) \/ Deal!Register(t)
  BY <1>3 DEF Deal!Grant, Deal!Register, HeldByRight, TakenByRight
<1>4. ASSUME NEW t \in signed, Deal!Claim(t)
      PROVE  HeldByRight' /\ TakenByRight'
  <2>1. /\ t.leg = "claim" /\ t.by \in agents /\ claimant[t.job] = None
        /\ claimant' = [claimant EXCEPT ![t.job] = t.by]
        /\ UNCHANGED <<promoted, signed, accepted, agents, results>>
    BY <1>4 DEF Deal!Claim
  <2>2. <<t.by, t.job>> \in promoted
    BY <1>0, <2>1 DEF SettlesInOrder
  <2>3. t.job \notin results
    <3>1. ASSUME t.job \in results PROVE FALSE
      <4>1. SubmitTx(claimant[t.job], t.job) \in Txs
        BY <1>0, <3>1 DEF TakenByRight
      <4>2. claimant[t.job] \in Workers
        BY <4>1 DEF SubmitTx, Txs
      <4> QED BY <1>0, <2>1, <4>2
    <3> QED BY <3>1
  <2>4. HeldByRight'
    BY <1>0, <2>1, <2>2 DEF HeldByRight
  <2>5. \A j \in results : claimant'[j] = claimant[j]
    BY <1>0, <2>1, <2>3
  <2>6. TakenByRight'
    BY <2>1, <2>5 DEF TakenByRight
  <2> QED BY <2>4, <2>6
<1>5. ASSUME NEW t \in signed, Deal!Deliver(t)
      PROVE  HeldByRight' /\ TakenByRight'
  <2>1. /\ t.leg = "submit" /\ claimant[t.job] = t.by
        /\ results' = results \union {t.job}
        /\ UNCHANGED <<promoted, signed, accepted, agents, claimant>>
    BY <1>5 DEF Deal!Deliver
  <2>2. [t EXCEPT !.leg = "claim"] \in accepted
    BY <1>0, <2>1 DEF SettlesInOrder
  <2>3. ASSUME NEW A, NEW L, NEW J, NEW r \in [by : A, leg : L, job : J]
        PROVE  /\ r = [by |-> r.by, leg |-> r.leg, job |-> r.job]
               /\ [r EXCEPT !.leg = "claim"] = [by |-> r.by, leg |-> "claim", job |-> r.job]
    OBVIOUS
  <2>4. /\ t = SubmitTx(t.by, t.job)
        /\ [t EXCEPT !.leg = "claim"] = ClaimTx(t.by, t.job)
    BY <1>0, <2>1, <2>3 DEF Txs, SubmitTx, ClaimTx
  <2>5. ClaimTx(claimant[t.job], t.job) \in accepted /\ SubmitTx(claimant[t.job], t.job) \in signed
    BY <2>1, <2>2, <2>4
  <2> QED BY <2>1, <2>5 DEF HeldByRight, TakenByRight
<1> QED BY <1>1, <1>2, <1>3, <1>4, <1>5 DEF Deal!Next

(***************************************************************************)
(* On the chain, a job is held only by a registered worker that promoted   *)
(* an app for it, and is delivered only for the worker that holds it, who  *)
(* signed the submit after the claim was accepted (work_once,              *)
(* worker_roundtrip): a late or lost transaction never settles a job for   *)
(* anybody else.                                                           *)
(***************************************************************************)
THEOREM AlwaysDeliveredByRight == Spec => []Deal!DeliveredByRight
<1> DEFINE Right == HeldByRight /\ TakenByRight
<1>1. Init => Right
  BY DEF Init, HeldByRight, TakenByRight
<1>2. Inv /\ Right /\ [Next]_vars => Right'
  <2> SUFFICES ASSUME Inv, Right, [Next]_vars PROVE Right'
    OBVIOUS
  <2>1. CASE UNCHANGED Deal!vars
    BY <2>1 DEF Deal!vars, HeldByRight, TakenByRight
  <2> QED BY <2>1, NextImplements, RightKept
<1>3. Right => Deal!DeliveredByRight
  BY ByRight
<1> QED BY <1>1, <1>2, <1>3, Invariance, PTL DEF Spec

(***************************************************************************)
(* Workers, wallets, the chain and the board have the types declared.      *)
(***************************************************************************)
THEOREM TypeCorrect == Spec => []TypeOK
<1>1. Inv => TypeOK
  BY DEF Inv
<1> QED BY <1>1, Invariance, PTL

(***************************************************************************)
(* No worker ever signs a claim for a job it has not promoted or a result  *)
(* for a job whose claim was not accepted, whatever failed before          *)
(* (work_once, worker_roundtrip).                                          *)
(***************************************************************************)
THEOREM AlwaysSettlesInOrder == Spec => []SettlesInOrder
<1>1. Inv => SettlesInOrder
  BY DEF Inv
<1> QED BY <1>1, Invariance, PTL

(***************************************************************************)
(* Only a submitted result is followed by a poll without a delay           *)
(* (cmd_work, next_backoff), whatever the bounds of the backoff.           *)
(***************************************************************************)
THEOREM AlwaysPauses == Spec => []NeverSpins
<1>1. Inv => NeverSpins
  BY DEF Inv, Local, NeverSpins, SubmitTx
<1> QED BY <1>1, Invariance, PTL

(***************************************************************************)
(* No MCP child outlives its iteration, but that of a killed worker:       *)
(* cmd_work drops it on every path, McpClient::spawn when the handshake    *)
(* fails.                                                                  *)
(***************************************************************************)
THEOREM AlwaysDropsChildren == Spec => []ChildrenAreDropped
<1>1. Inv => ChildrenAreDropped
  BY DEF Inv, TypeOK, Local, ChildrenAreDropped
<1> QED BY <1>1, Invariance, PTL
=============================================================================
