---------------------------- MODULE StakeProofs ----------------------------
(***************************************************************************)
(* Stake claims only final transfers, reports success only for what was    *)
(* recorded, and sends no more transfers than there are runs: for every    *)
(* number of runs on one wallet, all amounts and balances, and every budget*)
(* of polls.                                                               *)
(***************************************************************************)
EXTENDS Stake, FiniteSetTheorems, TLAPS

Settling == {"confirm", "challenge", "verify", "record", "ok"}
Unsent == {"idle", "config", "balance", "blockhash"}
Bought == {Micros(a) : a \in Amounts}

\* What a run knows of itself in each of its awaits.
RunInv ==
  \A r \in Runs :
    /\ pc[r] \in Awaits => amount[r] \in Bought /\ amount[r] > 0
    /\ pc[r] \in Unsent \union {"send"} => attempt[r] = 0
    /\ pc[r] = "confirm" => attempt[r] < MaxAttempts
    /\ pc[r] \in Settling => tx[r] \in Txs /\ tx[r].amount = amount[r]

\* Every transfer on the chain was signed by a run that sent it.
SentInv ==
  \A t \in Txs :
    chain[t] # "none" =>
      \E r \in Runs : pc[r] \notin Unsent /\ amount[r] > 0 /\ Signed(r) = t

Inv == TypeOK /\ RunInv /\ SentInv /\ ClaimsOnlyFinalTransfers /\ SuccessMeansRecorded

-----------------------------------------------------------------------------
LEMMA MicrosType == \A a \in Amounts : Micros(a) \in Nat
BY StakeAssumption DEF Micros

LEMMA TxsType ==
  /\ \A t \in Txs : t.amount \in Nat /\ t.hash \in 0..MaxBlock
  /\ \A m \in Bought, h \in 0..MaxBlock : [amount |-> m, hash |-> h] \in Txs
BY MicrosType DEF Txs, Bought

LEMMA InitInv == Init => Inv
BY StakeAssumption DEF Init, Inv, TypeOK, RunInv, SentInv,
  ClaimsOnlyFinalTransfers, SuccessMeansRecorded, Awaits, Settling, Unsent

\* Steps of a run that leave the chain and the gateway alone.
LEMMA RunStep ==
  ASSUME Inv, NEW r \in Runs,
         \/ Start(r) \/ RequestFails(r) \/ Kill(r) \/ GetConfig(r)
         \/ GetBalance(r) \/ GetBlockhash(r) \/ GetChallenge(r) \/ Verify(r)
  PROVE  Inv'
<1> USE DEF Inv, Goto, Awaits, Settling, Unsent, chainVars
<1>1. TypeOK'
  BY StakeAssumption, MicrosType
  DEF TypeOK, Start, RequestFails, Kill, GetConfig, GetBalance, GetBlockhash,
      GetChallenge, Verify, Exits
<1>2. RunInv'
  BY MicrosType
  DEF TypeOK, RunInv, Bought, Start, RequestFails, Kill, GetConfig, GetBalance,
      GetBlockhash, GetChallenge, Verify, Exits
<1>3. SentInv'
  BY DEF TypeOK, SentInv, Signed, Start, RequestFails, Kill, GetConfig,
         GetBalance, GetBlockhash, GetChallenge, Verify, Exits
<1>4. ClaimsOnlyFinalTransfers'
  BY DEF TypeOK, ClaimsOnlyFinalTransfers, Start, RequestFails, Kill, GetConfig,
         GetBalance, GetBlockhash, GetChallenge, Verify, Exits
<1>5. SuccessMeansRecorded'
  BY DEF TypeOK, SuccessMeansRecorded, Start, RequestFails, Kill, GetConfig,
         GetBalance, GetBlockhash, GetChallenge, Verify, Exits
<1> QED BY <1>1, <1>2, <1>3, <1>4, <1>5

LEMMA SendStep ==
  ASSUME Inv, NEW r \in Runs, SendTransaction(r) \/ SendLost(r)
  PROVE  Inv'
<1> USE DEF Inv, Goto, Awaits, Settling, Unsent
<1>1. /\ pc[r] = "send" /\ Signed(r) \in Txs /\ Signed(r).amount = amount[r]
      /\ chain[Signed(r)] \in {"none", "pending"}
      /\ chain' = [chain EXCEPT ![Signed(r)] = "pending"]
      /\ amount[r] > 0
  BY TxsType DEF SendTransaction, SendLost, Accepted, Signed, RunInv, TypeOK
<1>2. TypeOK'
  BY <1>1 DEF TypeOK, SendTransaction, SendLost, Exits
<1>3. RunInv'
  BY <1>1, StakeAssumption DEF TypeOK, RunInv, SendTransaction, SendLost, Exits
<1>4. SentInv'
  BY <1>1 DEF TypeOK, SentInv, Signed, SendTransaction, SendLost, Exits
<1>5. ClaimsOnlyFinalTransfers'
  BY <1>1 DEF TypeOK, ClaimsOnlyFinalTransfers, SendTransaction, SendLost, Exits, RunInv
<1>6. SuccessMeansRecorded'
  BY <1>1 DEF TypeOK, SuccessMeansRecorded, SendTransaction, SendLost, Exits
<1> QED BY <1>2, <1>3, <1>4, <1>5, <1>6

\* Only a final transfer is ever seen as final.
LEMMA PollStep ==
  ASSUME Inv, NEW r \in Runs, Poll(r)
  PROVE  Inv'
<1> USE DEF Inv, Goto, Awaits, Settling, Unsent, chainVars
<1>1. /\ pc[r] = "confirm" /\ tx[r] \in Txs /\ attempt[r] < MaxAttempts
      /\ UNCHANGED <<amount, hash, tx, block, ata, chain, recorded>>
      /\ attempt' = [attempt EXCEPT ![r] = @ + 1]
  BY DEF Poll, RunInv
<1>2. \/ pc' = [pc EXCEPT ![r] = "challenge"] /\ chain[tx[r]] = "finalized"
      \/ pc' = [pc EXCEPT ![r] = "failed"]
      \/ pc' = [pc EXCEPT ![r] = "confirm"] /\ attempt[r] + 1 < MaxAttempts
  BY <1>1 DEF Poll, Visible, parse_signature_finalized
<1>3. TypeOK'
  BY <1>1, <1>2, StakeAssumption DEF TypeOK, Exits
<1>4. RunInv'
  BY <1>1, <1>2, StakeAssumption DEF TypeOK, RunInv
<1>5. SentInv'
  BY <1>1, <1>2 DEF TypeOK, SentInv, Signed
<1>6. ClaimsOnlyFinalTransfers'
  BY <1>1, <1>2, NoTxAssumption DEF TypeOK, ClaimsOnlyFinalTransfers
<1>7. SuccessMeansRecorded'
  BY <1>1, <1>2 DEF TypeOK, SuccessMeansRecorded
<1> QED BY <1>3, <1>4, <1>5, <1>6, <1>7

LEMMA RecordStep ==
  ASSUME Inv, NEW r \in Runs, Record(r) \/ RecordLost(r)
  PROVE  Inv'
<1> USE DEF Inv, Goto, Awaits, Settling, Unsent, chainVars
<1>1. /\ pc[r] = "record" /\ tx[r] \in Txs /\ tx[r].amount = amount[r]
      /\ chain[tx[r]] = "finalized"
      /\ UNCHANGED <<amount, hash, tx, attempt, block, ata, chain>>
      /\ \/ pc' = [pc EXCEPT ![r] = "ok"]
         \/ pc' = [pc EXCEPT ![r] = "failed"]
  BY DEF Record, RecordLost, RunInv, ClaimsOnlyFinalTransfers
<1>2. /\ recorded \subseteq recorded'
      /\ recorded' \subseteq recorded \union {[tx |-> tx[r], amount |-> amount[r]]}
      /\ \E c \in recorded' : c.tx = tx[r]
  <2> DEFINE new == [tx |-> tx[r], amount |-> amount[r]]
  <2>1. Credited(r) /\ new.tx = tx[r]
    BY DEF Record, RecordLost
  <2>2. CASE \E c \in recorded : c.tx = tx[r]
    <3>1. recorded' = recorded
      BY <2>1, <2>2 DEF Credited
    <3> QED BY <3>1, <2>2
  <2>3. CASE ~ \E c \in recorded : c.tx = tx[r]
    <3>1. recorded' = recorded \union {new}
      BY <2>1, <2>3 DEF Credited
    <3> QED BY <3>1, <2>1
  <2> QED BY <2>2, <2>3
<1>3. TypeOK'
  BY <1>1, <1>2 DEF TypeOK, Exits
<1>4. RunInv'
  BY <1>1 DEF TypeOK, RunInv
<1>5. SentInv'
  BY <1>1 DEF TypeOK, SentInv, Signed
<1>6. ClaimsOnlyFinalTransfers'
  BY <1>1, <1>2 DEF TypeOK, ClaimsOnlyFinalTransfers
<1>7. SuccessMeansRecorded'
  BY <1>1, <1>2 DEF TypeOK, SuccessMeansRecorded
<1> QED BY <1>3, <1>4, <1>5, <1>6, <1>7

LEMMA ChainStep ==
  ASSUME Inv, NewBlock \/ \E t \in Txs : Execute(t) \/ Finalize(t)
  PROVE  Inv'
<1> USE DEF Inv
<1>1. CASE NewBlock
  BY <1>1, StakeAssumption
  DEF NewBlock, TypeOK, RunInv, SentInv, Signed, ClaimsOnlyFinalTransfers,
      SuccessMeansRecorded
<1>2. ASSUME NEW t \in Txs, Execute(t) \/ Finalize(t)
      PROVE  Inv'
  <2>1. /\ UNCHANGED <<pc, amount, hash, tx, attempt, block, recorded>>
        /\ chain[t] \in {"pending", "confirmed"}
        /\ \E s \in {"none", "confirmed", "failed", "finalized"} :
             chain' = [chain EXCEPT ![t] = s]
    BY <1>2 DEF Execute, Finalize
  <2>2. TypeOK'
    <3>1. ata' \in Nat
      BY <1>2, TxsType DEF TypeOK, Execute, Finalize
    <3> QED BY <2>1, <3>1 DEF TypeOK
  <2>3. RunInv'
    BY <2>1 DEF TypeOK, RunInv
  <2>4. SentInv'
    BY <2>1 DEF TypeOK, SentInv, Signed
  <2>5. ClaimsOnlyFinalTransfers'
    BY <2>1 DEF TypeOK, ClaimsOnlyFinalTransfers, RunInv
  <2>6. SuccessMeansRecorded'
    BY <2>1 DEF SuccessMeansRecorded
  <2> QED BY <2>2, <2>3, <2>4, <2>5, <2>6
<1> QED BY <1>1, <1>2

LEMMA NextInv == Inv /\ [Next]_vars => Inv'
<1> SUFFICES ASSUME Inv, [Next]_vars PROVE Inv'
  OBVIOUS
<1>1. CASE UNCHANGED vars
  BY <1>1 DEF vars, Inv, TypeOK, RunInv, SentInv, Signed,
    ClaimsOnlyFinalTransfers, SuccessMeansRecorded
<1>2. ASSUME NEW r \in Runs, Start(r) \/ Step(r) \/ Kill(r) PROVE Inv'
  BY <1>2, RunStep, SendStep, PollStep, RecordStep DEF Step
<1>3. CASE NewBlock \/ \E t \in Txs : Execute(t) \/ Finalize(t)
  BY <1>3, ChainStep
<1> QED BY <1>1, <1>2, <1>3 DEF Next

LEMMA Invariance == Spec => []Inv
BY InitInv, NextInv, PTL DEF Spec

-----------------------------------------------------------------------------
(***************************************************************************)
(* Nothing is claimed before the transfer behind it is final, and the      *)
(* amount claimed is the amount transferred (main.rs 443-458).             *)
(***************************************************************************)
THEOREM AlwaysClaimsFinal == Spec => []ClaimsOnlyFinalTransfers
<1>1. Inv => ClaimsOnlyFinalTransfers
  BY DEF Inv
<1> QED BY <1>1, Invariance, PTL

(***************************************************************************)
(* Exit status 0 means that the transfer was credited (main.rs 471-501).   *)
(***************************************************************************)
THEOREM AlwaysRecorded == Spec => []SuccessMeansRecorded
<1>1. Inv => SuccessMeansRecorded
  BY DEF Inv
<1> QED BY <1>1, Invariance, PTL

(***************************************************************************)
(* Type correctness of the stake command.                                  *)
(***************************************************************************)
THEOREM TypeCorrect == Spec => []TypeOK
<1>1. Inv => TypeOK
  BY DEF Inv
<1> QED BY <1>1, Invariance, PTL

(***************************************************************************)
(* No more transfers exist than runs: each is the transfer of a run that   *)
(* sent it, and a run has one (main.rs 443-449).                           *)
(***************************************************************************)
THEOREM AlwaysFewTransfers == Spec => []NoMoreTransfersThanRuns
<1>1. ASSUME Inv PROVE NoMoreTransfersThanRuns
  <2> DEFINE R == {r \in Runs : pc[r] # "idle" /\ amount[r] > 0}
             T == {t \in Txs : chain[t] # "none"}
             S == {Signed(r) : r \in R}
             f == [r \in R |-> Signed(r)]
  <2>1. T \in SUBSET S
    BY <1>1 DEF Inv, SentInv, Unsent
  <2>2. IsFiniteSet(R)
    BY StakeAssumption, FS_Subset, R \in SUBSET Runs
  <2>3. f \in Surjection(R, S)
    BY DEF Surjection
  <2>4. IsFiniteSet(S) /\ Cardinality(S) <= Cardinality(R)
    <3> HIDE DEF R, S, f
    <3> QED BY <2>2, <2>3, FS_Surjection
  <2>5. IsFiniteSet(T) /\ Cardinality(T) <= Cardinality(S)
    <3> HIDE DEF R, S, T
    <3> QED BY <2>1, <2>4, FS_Subset
  <2>6. /\ Cardinality(T) \in Nat /\ Cardinality(S) \in Nat
        /\ Cardinality(R) \in Nat
    <3> HIDE DEF R, S, T
    <3> QED BY <2>2, <2>4, <2>5, FS_CardinalityType
  <2>7. Cardinality(T) <= Cardinality(R)
    <3> HIDE DEF R, S, T
    <3> QED BY <2>4, <2>5, <2>6
  <2> QED BY <2>7 DEF NoMoreTransfersThanRuns
<1> QED BY <1>1, Invariance, PTL
=============================================================================
