-------------------------- MODULE JobSelectProofs --------------------------
(***************************************************************************)
(* The loop of select_job returns the best paid of the jobs worth taking,  *)
(* and widths and rounding do not change which are: for every board, floor,*)
(* margin, price and width.                                                *)
(***************************************************************************)
EXTENDS JobSelect, TLAPS

\* The jobs of the first n that are worth taking, and the choice among them.
Worth(n) == {i \in 1..n : Claimable(jobs[i])}

Least(i, W) ==
  /\ i \in W
  /\ \A k \in W : \/ jobs[k].reward < jobs[i].reward
                  \/ jobs[k].reward = jobs[i].reward /\ i <= k

Best(n, i) == best = SelectedJob(jobs[i]) /\ Least(i, Worth(n))

Inv ==
  /\ jobs \in Boards
  /\ next \in 1..Len(jobs) + 1
  /\ Worth(next - 1) = {} => best = NoJob
  /\ Worth(next - 1) # {} => \E i \in 1..next - 1 : Best(next - 1, i)

LEMMA BoardFacts ==
  ASSUME jobs \in Boards
  PROVE  /\ Len(jobs) \in Nat
         /\ \A i \in 1..Len(jobs) :
              /\ jobs[i] \in Job /\ jobs[i].reward \in Int
              /\ SelectedJob(jobs[i]) # NoJob
              /\ SelectedJob(jobs[i]).reward = jobs[i].reward
<1>1. jobs \in Seq(Job)
  BY BoardsAssumption
<1>2. \A i \in 1..Len(jobs) : jobs[i] \in Job
  BY <1>1
<1>3. \A job \in Job : job.reward \in Int
  BY JobSelectAssumption DEF Job
<1>4. \A i \in 1..Len(jobs) : SelectedJob(jobs[i]).reward = jobs[i].reward
  BY DEF SelectedJob
<1> QED BY <1>1, <1>2, <1>3, <1>4, NoJobAssumption

LEMMA InitInv == Init => Inv
<1> SUFFICES ASSUME Init PROVE Inv
  OBVIOUS
<1>1. jobs \in Boards /\ next = 1 /\ best = NoJob
  BY DEF Init
<1>2. Worth(next - 1) = {}
  BY <1>1 DEF Worth
<1> QED BY <1>1, <1>2, BoardFacts DEF Inv

LEMMA ExamineStep ==
  ASSUME Inv, Examine
  PROVE  Inv'
<1> DEFINE n == next
<1>1. /\ n \in 1..Len(jobs) /\ next' = n + 1 /\ jobs' = jobs /\ jobs \in Boards
      /\ best' = IF Claimable(jobs[n]) /\ (best = NoJob \/ jobs[n].reward > best.reward)
                 THEN SelectedJob(jobs[n]) ELSE best
  BY BoardFacts DEF Examine, Inv
<1> DEFINE W0 == Worth(n - 1)
           W1 == Worth(n)
<1>2. W1 = W0 \union (IF Claimable(jobs[n]) THEN {n} ELSE {})
  BY <1>1, BoardFacts DEF Worth
<1>3. next' \in 1..Len(jobs') + 1 /\ next' - 1 = n
  BY <1>1, BoardFacts
<1>4. /\ W0 \subseteq 1..n - 1 /\ W1 \subseteq 1..n
      /\ \A i \in 1..n : /\ jobs[i].reward \in Int /\ SelectedJob(jobs[i]) # NoJob
                        /\ SelectedJob(jobs[i]).reward = jobs[i].reward
      /\ n \in Nat
  BY <1>1, BoardFacts DEF Worth
<1>5. /\ W0 = {} => best = NoJob
      /\ W0 # {} => \E i \in W0 : best = SelectedJob(jobs[i]) /\ Least(i, W0)
  BY <1>1, <1>4 DEF Inv, Best, Least
<1>6. /\ W1 = {} => best' = NoJob
      /\ W1 # {} => \E i \in W1 : best' = SelectedJob(jobs[i]) /\ Least(i, W1)
  <2> HIDE DEF W0, W1, n
  <2>1. CASE ~ Claimable(jobs[n])
    BY <1>1, <1>2, <1>5, <2>1
  <2>2. CASE Claimable(jobs[n]) /\ W0 = {}
    <3>1. W1 = {n} /\ best' = SelectedJob(jobs[n])
      BY <1>1, <1>2, <1>5, <2>2
    <3> QED BY <1>4, <3>1 DEF Least
  <2>3. CASE Claimable(jobs[n]) /\ W0 # {}
    <3>1. W1 = W0 \union {n}
      BY <1>2, <2>3
    <3>2. PICK i \in W0 : best = SelectedJob(jobs[i]) /\ Least(i, W0)
      BY <1>5, <2>3
    <3>3. /\ i \in 1..n - 1 /\ best # NoJob /\ best.reward = jobs[i].reward
      BY <1>4, <3>2
    <3>4. CASE jobs[n].reward > jobs[i].reward
      <4>1. best' = SelectedJob(jobs[n])
        BY <1>1, <2>3, <3>3, <3>4
      <4>2. ASSUME NEW k \in W0 PROVE jobs[k].reward < jobs[n].reward
        <5>1. jobs[k].reward \in Int /\ jobs[i].reward \in Int /\ jobs[n].reward \in Int
          BY <1>4, <3>3
        <5>2. jobs[k].reward < jobs[i].reward \/ jobs[k].reward = jobs[i].reward
          BY <3>2 DEF Least
        <5> QED BY <3>4, <5>1, <5>2
      <4>3. Least(n, W1)
        BY <1>4, <3>1, <4>2 DEF Least
      <4> QED BY <3>1, <4>1, <4>3
    <3>5. CASE ~ (jobs[n].reward > jobs[i].reward)
      <4>1. best' = SelectedJob(jobs[i])
        BY <1>1, <2>3, <3>2, <3>3, <3>5
      <4>2. Least(i, W1)
        BY <1>4, <3>1, <3>2, <3>3, <3>5 DEF Least
      <4> QED BY <3>1, <3>2, <4>1, <4>2
    <3> QED BY <3>4, <3>5
  <2> QED BY <2>1, <2>2, <2>3
<1>7. /\ Worth(next - 1)' = W1
      /\ \A i : Best(next - 1, i)' <=> best' = SelectedJob(jobs[i]) /\ Least(i, W1)
  BY <1>1, <1>3 DEF Worth, Best, Least
<1>8. \A i \in W1 : i \in 1..n
  BY <1>4
<1> QED BY <1>1, <1>3, <1>6, <1>7, <1>8 DEF Inv

LEMMA Invariance == Spec => []Inv
<1>1. Inv /\ UNCHANGED vars => Inv'
  BY DEF Inv, vars, Worth, Best, Least
<1> QED BY <1>1, InitInv, ExamineStep, PTL DEF Spec, Next

-----------------------------------------------------------------------------
(***************************************************************************)
(* The loop stays within the board, and its candidate is the job it has    *)
(* seen there, with all its fields.                                        *)
(***************************************************************************)
THEOREM TypeCorrect == Spec => []TypeOK
<1>1. Inv => TypeOK
  BY DEF Inv, TypeOK, Best, Least, Worth
<1> QED BY <1>1, Invariance, PTL

(***************************************************************************)
(* select_job's answer is the first of the best paid among the claimable   *)
(* jobs of any board, and nothing only if there is none.                   *)
(***************************************************************************)
THEOREM AlwaysSelectsTheBestPaid == Spec => []SelectsTheBestPaid
<1>1. ASSUME Inv PROVE SelectsTheBestPaid
  <2> SUFFICES ASSUME next > Len(jobs)
               PROVE  LET worth == {i \in 1..Len(jobs) : Claimable(jobs[i])}
                      IN  IF worth = {} THEN best = NoJob
                          ELSE \E i \in worth :
                                 /\ best = SelectedJob(jobs[i])
                                 /\ \A k \in worth :
                                      \/ jobs[k].reward < jobs[i].reward
                                      \/ jobs[k].reward = jobs[i].reward /\ i <= k
    BY DEF SelectsTheBestPaid
  <2>1. next - 1 = Len(jobs)
    BY <1>1, BoardFacts DEF Inv
  <2> QED BY <1>1, <2>1 DEF Inv, Best, Least, Worth
<1> QED BY <1>1, Invariance, PTL

-----------------------------------------------------------------------------
LEMMA DivFacts ==
  ASSUME NEW a \in Nat, NEW b \in Nat, NEW d \in Nat, d # 0
  PROVE  a <= b \div d <=> a * d <= b
<1> DEFINE q == b \div d
<1>1. q \in Nat /\ q * d <= b /\ b < (q + 1) * d
  OBVIOUS
<1> HIDE DEF q
<1>2. ASSUME a <= q PROVE a * d <= q * d
  BY <1>1, <1>2
<1>3. ASSUME a >= q + 1 PROVE a * d >= (q + 1) * d
  BY <1>1, <1>3
<1> QED BY <1>1, <1>2, <1>3 DEF q

\* The width of the estimate and the rounding of the quotient do not matter.
LEMMA Exact ==
  ASSUME NEW job \in Job, job.reward >= 0, MarginDen # 0
  PROVE  should_claim(job.reward, est_token_cost_for_spec(job.spec_bytes)) <=>
           job.reward >= Floor /\ Cost(job) * MarginDen <= job.reward * MarginNum
<1> DEFINE c == Cost(job)
           r == job.reward
<1>1. /\ r \in Nat /\ r <= MaxI64 /\ MaxI64 < MaxU64 /\ MaxU64 \in Nat /\ MaxI64 \in Nat
      /\ MarginNum \in Nat /\ MarginDen \in Nat /\ MarginNum <= MarginDen
      /\ job.spec_bytes \in Nat /\ TokenPrice \in Nat
  BY JobSelectAssumption DEF Job
<1>2. c \in Nat
  <2>1. job.spec_bytes \div 4 \in Nat
    BY <1>1
  <2> QED BY <1>1, <2>1 DEF Cost
<1>3. est_token_cost_for_spec(job.spec_bytes) = IF c > MaxU64 THEN MaxU64 ELSE c
  BY DEF est_token_cost_for_spec, saturating, Cost
<1>4. r * MarginNum \in Nat
  BY <1>1
<1> HIDE DEF c, r
<1>5. CASE c <= MaxU64
  <2>1. est_token_cost_for_spec(job.spec_bytes) = c
    BY <1>1, <1>2, <1>3, <1>5
  <2>2. c <= (r * MarginNum) \div MarginDen <=> c * MarginDen <= r * MarginNum
    BY <1>1, <1>2, <1>4, DivFacts
  <2> QED BY <2>1, <2>2 DEF should_claim, r, c
<1>6. CASE c > MaxU64
  <2>1. est_token_cost_for_spec(job.spec_bytes) = MaxU64
    BY <1>1, <1>2, <1>3, <1>6
  <2>2. r * MarginNum <= r * MarginDen
    BY <1>1
  <2>3. ASSUME NEW m \in Nat, m > r PROVE m * MarginDen > r * MarginDen
    BY <1>1, <2>3
  <2>4. MaxU64 * MarginDen > r * MarginNum /\ c * MarginDen > r * MarginNum
    BY <1>1, <1>2, <1>4, <1>6, <2>2, <2>3
  <2>5. ~ (MaxU64 <= (r * MarginNum) \div MarginDen)
    BY <1>1, <1>4, <2>4, DivFacts
  <2> QED BY <1>1, <1>2, <1>4, <2>1, <2>4, <2>5 DEF should_claim, r, c
<1> QED BY <1>1, <1>2, <1>5, <1>6

(***************************************************************************)
(* Saturating the estimate and rounding the margin down never changes what *)
(* is claimed (should_claim, est_token_cost_for_spec); a margin over       *)
(* nothing is the misconfiguration that work.rs 135 refuses.               *)
(***************************************************************************)
THEOREM AlwaysDecidesExactly ==
  ASSUME MarginDen # 0
  PROVE  Spec => []DecidesExactly
<1> DEFINE Pays(job) == /\ job.reward >= Floor
                        /\ Cost(job) * MarginDen <= job.reward * MarginNum
<1>1. ASSUME Inv PROVE DecidesExactly
  <2>1. \A i \in 1..Len(jobs) :
          Claimable(jobs[i]) <=> /\ jobs[i].status = "open" /\ jobs[i].owner # Own
                                 /\ jobs[i].reward >= 0
                                 /\ jobs[i].task_pda # "" /\ jobs[i].parcel_uid # ""
                                 /\ Pays(jobs[i])
    BY <1>1, BoardFacts, Exact DEF Inv, Claimable
  <2>2. ASSUME best # NoJob
        PROVE  \E i \in 1..Len(jobs) : best = SelectedJob(jobs[i]) /\ Pays(jobs[i])
    <3>1. PICK i \in 1..next - 1 : Best(next - 1, i)
      BY <1>1, <2>2 DEF Inv
    <3>2. i \in 1..Len(jobs)
      BY <1>1, <3>1, BoardFacts DEF Inv
    <3>3. Claimable(jobs[i]) /\ best = SelectedJob(jobs[i])
      BY <3>1 DEF Best, Least, Worth
    <3> HIDE DEF Pays
    <3> QED BY <2>1, <3>2, <3>3
  <2>3. ASSUME next > Len(jobs), best = NoJob, NEW i \in 1..Len(jobs)
        PROVE  ~ Claimable(jobs[i])
    <3>1. next - 1 = Len(jobs)
      <4>1. Len(jobs) \in Nat /\ next \in 1..Len(jobs) + 1
        BY <1>1, BoardFacts DEF Inv
      <4> QED BY <2>3, <4>1
    <3>2. Worth(next - 1) = {}
      <4>1. ASSUME NEW k \in 1..next - 1 PROVE ~ Best(next - 1, k)
        <5>1. SelectedJob(jobs[k]) # NoJob
          BY <1>1, <3>1, <4>1, BoardFacts DEF Inv
        <5> QED BY <2>3, <5>1 DEF Best
      <4> QED BY <1>1, <4>1 DEF Inv
    <3>3. i \notin Worth(Len(jobs))
      BY <3>1, <3>2
    <3>4. Worth(Len(jobs)) = {k \in 1..Len(jobs) : Claimable(jobs[k])}
      BY DEF Worth
    <3> QED BY <2>3, <3>3, <3>4
  <2>4. ASSUME next > Len(jobs), best = NoJob, NEW i \in 1..Len(jobs)
        PROVE  \/ jobs[i].status # "open" \/ jobs[i].owner = Own
               \/ jobs[i].task_pda = "" \/ jobs[i].parcel_uid = ""
               \/ jobs[i].reward < 0
               \/ ~ Pays(jobs[i])
    <3>1. jobs[i].reward \in Int
      BY <1>1, BoardFacts DEF Inv
    <3>2. ~ Claimable(jobs[i])
      BY <2>3, <2>4
    <3>3. jobs[i].reward >= 0 \/ jobs[i].reward < 0
      BY <3>1
    <3> HIDE DEF Pays
    <3> QED BY <2>1, <3>2, <3>3
  <2> HIDE DEF Pays
  <2> QED BY <2>2, <2>4 DEF DecidesExactly, Pays
<1> QED BY <1>1, Invariance, PTL
=============================================================================
