----------------------------- MODULE JobSelect -----------------------------
(***************************************************************************)
(* Which job of the board `nexus-client work` takes: select_job,           *)
(* should_claim, est_token_cost_for_spec and brief_from_job in             *)
(* src/src/work.rs 110-211.                                                *)
(* The loop over the board is the state machine; the board is an input.    *)
(*                                                                         *)
(* Numbers keep their widths: a reward is an i64, an estimate a u64, the   *)
(* product of the margin a u128; MaxU64 and MaxI64 are scaled down.        *)
(***************************************************************************)
EXTENDS Integers, Sequences

CONSTANTS
  Boards,      \* the `jobs` arrays considered
  Own,         \* the pubkey of this node's wallet
  Floor,       \* WorkCfg::min_reward_lamports
  MarginNum, MarginDen,  \* WorkCfg::margin_num, margin_den
  TokenPrice,  \* LAMPORTS_PER_EST_TOKEN
  MaxU64, MaxI64,
  NoJob

ASSUME JobSelectAssumption ==
  /\ Floor \in 0..MaxU64 /\ TokenPrice \in 0..MaxU64
  /\ MarginNum \in Nat /\ MarginDen \in Nat /\ MarginNum <= MarginDen
  /\ MaxU64 \in Nat /\ MaxI64 \in Nat /\ MaxI64 < MaxU64

\* Missing or mistyped fields are "" and, for the reward, -1.  " " is any text
\* of white space.
Job == [status : {"open", "claimed"}, owner : STRING, reward : -1..MaxI64,
        task_pda : STRING, parcel_uid : STRING, spec_bytes : Nat,
        title : STRING, short_description : STRING]
ASSUME BoardsAssumption == \A b \in Boards : b \in Seq(Job)

VARIABLES
  jobs,  \* the board
  next,  \* index of the job the loop looks at next
  best   \* the candidate so far, a SelectedJob, or NoJob

vars == <<jobs, next, best>>

-----------------------------------------------------------------------------
saturating(n) == IF n > MaxU64 THEN MaxU64 ELSE n

\* Mutant of est_token_cost_for_spec: the product wraps around.
WrappingCost(bytes) == ((bytes \div 4) * TokenPrice) % (MaxU64 + 1)

est_token_cost_for_spec(bytes) == saturating((bytes \div 4) * TokenPrice)

\* Mutant of should_claim: the product of the margin is a u64.
WrappingMargin(reward, cost) ==
  /\ reward >= Floor
  /\ MarginDen # 0
  /\ cost <= ((reward * MarginNum) % (MaxU64 + 1)) \div MarginDen

should_claim(reward, cost) ==
  /\ reward >= Floor
  /\ MarginDen # 0
  /\ cost <= (reward * MarginNum) \div MarginDen

Claimable(job) ==
  /\ job.status = "open"
  /\ job.owner # Own
  /\ job.reward >= 0
  /\ job.task_pda # "" /\ job.parcel_uid # ""
  /\ should_claim(job.reward, est_token_cost_for_spec(job.spec_bytes))

trim(text) == IF text = " " THEN "" ELSE text

\* The opening message of the Builder session, as the texts that are joined.
brief_from_job(job) ==
  LET said == SelectSeq(<<trim(job.title), trim(job.short_description)>>,
                        LAMBDA text : text # "")
  IN  IF said = << >> THEN <<"Build the requested parcel app.">> ELSE said

SelectedJob(job) ==
  [task_pda |-> job.task_pda, parcel_uid |-> job.parcel_uid,
   reward |-> job.reward, brief |-> brief_from_job(job)]

ASSUME NoJobAssumption ==
  \A b \in Boards : \A i \in 1..Len(b) : NoJob # SelectedJob(b[i])

TypeOK ==
  /\ next \in 1..Len(jobs) + 1
  /\ best = NoJob \/ \E i \in 1..next - 1 : best = SelectedJob(jobs[i])

Init ==
  /\ jobs \in Boards
  /\ next = 1
  /\ best = NoJob

\* Mutant of Examine: the candidate is looked for in the wrong place.
ExamineOffByOne ==
  /\ next <= Len(jobs)
  /\ next' = next + 1
  /\ best' = IF Claimable(jobs[next]) /\ next < Len(jobs)
             THEN SelectedJob(jobs[next + 1]) ELSE best
  /\ UNCHANGED jobs

\* Mutant of Examine: a later job of the same reward wins.
ExamineTakesLast ==
  /\ next <= Len(jobs)
  /\ next' = next + 1
  /\ best' = IF Claimable(jobs[next])
                  /\ (best = NoJob \/ jobs[next].reward >= best.reward)
             THEN SelectedJob(jobs[next]) ELSE best
  /\ UNCHANGED jobs

\* One turn of the loop: the highest reward is kept, the first of equals.
Examine ==
  /\ next <= Len(jobs)
  /\ next' = next + 1
  /\ best' = IF Claimable(jobs[next])
                  /\ (best = NoJob \/ jobs[next].reward > best.reward)
             THEN SelectedJob(jobs[next]) ELSE best
  /\ UNCHANGED jobs

Next == Examine

Spec == Init /\ [][Next]_vars

-----------------------------------------------------------------------------
(***************************************************************************)
(* The loop's answer is the first of the best paid among the claimable     *)
(* jobs, and NoJob only if there is none (work.rs 149-152, 188-193); its   *)
(* task, parcel, reward and brief are all of that job.                     *)
(***************************************************************************)
SelectsTheBestPaid ==
  next > Len(jobs) =>
    LET worth == {i \in 1..Len(jobs) : Claimable(jobs[i])}
    IN  IF worth = {} THEN best = NoJob
        ELSE \E i \in worth :
               /\ best = SelectedJob(jobs[i])
               /\ \A k \in worth : \/ jobs[k].reward < jobs[i].reward
                                   \/ jobs[k].reward = jobs[i].reward /\ i <= k

\* The cost of a job in unbounded arithmetic.
Cost(job) == (job.spec_bytes \div 4) * TokenPrice

(***************************************************************************)
(* Widths and rounding never change the decision: what is selected pays    *)
(* at least the floor and leaves the margin over the true estimate, and a  *)
(* foreign open job that does so is never turned down (work.rs 120-147).   *)
(***************************************************************************)
DecidesExactly ==
  LET Pays(job) == /\ job.reward >= Floor
                   /\ Cost(job) * MarginDen <= job.reward * MarginNum
  IN  /\ best # NoJob =>
           \E i \in 1..Len(jobs) : best = SelectedJob(jobs[i]) /\ Pays(jobs[i])
      /\ next > Len(jobs) /\ best = NoJob =>
           \A i \in 1..Len(jobs) :
             \/ jobs[i].status # "open" \/ jobs[i].owner = Own
             \/ jobs[i].task_pda = "" \/ jobs[i].parcel_uid = ""
             \/ jobs[i].reward < 0
             \/ ~ Pays(jobs[i])
=============================================================================
