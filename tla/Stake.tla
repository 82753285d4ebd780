------------------------------- MODULE Stake -------------------------------
(***************************************************************************)
(* `nexus-client stake`: cmd_stake in src/src/main.rs with the RPC client  *)
(* of src/src/solana_stake.rs.  Each run of the command checks the balance,*)
(* sends one token transfer to the treasury, polls until it is finalized   *)
(* and then records it with the gateway.  Several runs share one wallet:   *)
(* a second terminal, or the user who tries again after a failure.  A run  *)
(* may be killed, and every request may fail before or after it took       *)
(* effect.                                                                 *)
(*                                                                         *)
(* The chain and the gateway are external: a transaction is identified by  *)
(* its signature, which is a function of amount and blockhash (the wallet, *)
(* the mint and the treasury are the same in every run), so that two runs  *)
(* that sign the same amount over the same blockhash have ONE transaction. *)
(***************************************************************************)
EXTENDS Integers, FiniteSets

CONSTANTS
  Runs,         \* runs of the command
  Amounts,      \* --amount, in tenths of a micro (inputs of the model)
  Ata,          \* tokens in the wallet's associated token account
  Other,        \* tokens in other accounts of the wallet for the same mint
  MaxAttempts,  \* confirm_finalized's MAX_ATTEMPTS
  MaxBlock,     \* last blockhash of the model (a bound)
  HashLife,     \* how many blocks a blockhash stays valid
  NoTx

ASSUME StakeAssumption ==
  /\ IsFiniteSet(Runs)
  /\ Amounts \subseteq Nat /\ Ata \in Nat /\ Other \in Nat
  /\ MaxAttempts \in Nat \ {0} /\ MaxBlock \in Nat /\ HashLife \in Nat

\* amount * 1e6, rounded half away from zero.
Micros(a) == (a + 5) \div 10

Txs == [amount : {Micros(a) : a \in Amounts}, hash : 0..MaxBlock]
ASSUME NoTxAssumption == NoTx \notin Txs

VARIABLES
  pc,        \* pc[r]: the await run r is in, or how it exited
  amount,    \* amount[r]: amount_micros
  hash,      \* hash[r]: the blockhash it fetched
  tx,        \* tx[r]: tx_signature, NoTx before sendTransaction answers
  attempt,   \* attempt[r]: turns of confirm_finalized
  block,     \* the chain's latest blockhash
  ata,       \* what is left in the associated token account
  chain,     \* chain[t]: what became of transaction t
  recorded   \* signatures the gateway has credited, with the amount claimed

vars == <<pc, amount, hash, tx, attempt, block, ata, chain, recorded>>
chainVars == <<block, ata, chain>>

Awaits == {"config", "balance", "blockhash", "send", "confirm", "challenge",
           "verify", "record"}
Exits == {"ok", "failed", "killed"}

TypeOK ==
  /\ pc \in [Runs -> {"idle"} \union Awaits \union Exits]
  /\ amount \in [Runs -> Nat]
  /\ hash \in [Runs -> 0..MaxBlock]
  /\ tx \in [Runs -> Txs \union {NoTx}]
  /\ attempt \in [Runs -> 0..MaxAttempts]
  /\ block \in 0..MaxBlock
  /\ ata \in Nat
  /\ chain \in [Txs -> {"none", "pending", "confirmed", "finalized", "failed"}]
  /\ recorded \subseteq [tx : Txs, amount : Nat]

Init ==
  /\ pc = [r \in Runs |-> "idle"]
  /\ amount = [r \in Runs |-> 0]
  /\ hash = [r \in Runs |-> 0]
  /\ tx = [r \in Runs |-> NoTx]
  /\ attempt = [r \in Runs |-> 0]
  /\ block = 0
  /\ ata = Ata
  /\ chain = [t \in Txs |-> "none"]
  /\ recorded = {}

Goto(r, l) == pc' = [pc EXCEPT ![r] = l]

-----------------------------------------------------------------------------
\* The user starts a run; a non-positive or vanishing amount is refused.
Start(r) ==
  /\ pc[r] = "idle"
  /\ \E a \in Amounts :
       IF a > 0 /\ Micros(a) > 0
       THEN Goto(r, "config") /\ amount' = [amount EXCEPT ![r] = Micros(a)]
       ELSE Goto(r, "failed") /\ UNCHANGED amount
  /\ UNCHANGED <<hash, tx, attempt, chainVars, recorded>>

\* Mutant of RequestFails: a failed record request is not an error.
IgnoresFailedRecord(r) ==
  /\ pc[r] \in Awaits
  /\ Goto(r, IF pc[r] = "record" THEN "ok" ELSE "failed")
  /\ UNCHANGED <<amount, hash, tx, attempt, chainVars, recorded>>

\* Any request that yields Err ends the run.  (The request may have taken
\* effect: see SendLost and RecordLost.)
RequestFails(r) ==
  /\ pc[r] \in Awaits
  /\ Goto(r, "failed")
  /\ UNCHANGED <<amount, hash, tx, attempt, chainVars, recorded>>

Kill(r) ==
  /\ pc[r] \in Awaits
  /\ Goto(r, "killed")
  /\ UNCHANGED <<amount, hash, tx, attempt, chainVars, recorded>>

GetConfig(r) ==
  /\ pc[r] = "config"
  /\ Goto(r, "balance")
  /\ UNCHANGED <<amount, hash, tx, attempt, chainVars, recorded>>

\* parse_token_balance sums every account of the mint.
GetBalance(r) ==
  /\ pc[r] = "balance"
  /\ Goto(r, IF ata + Other < amount[r] THEN "failed" ELSE "blockhash")
  /\ UNCHANGED <<amount, hash, tx, attempt, chainVars, recorded>>

GetBlockhash(r) ==
  /\ pc[r] = "blockhash"
  /\ hash' = [hash EXCEPT ![r] = block]
  /\ Goto(r, "send")
  /\ UNCHANGED <<amount, tx, attempt, chainVars, recorded>>

Signed(r) == [amount |-> amount[r], hash |-> hash[r]]

\* Preflight accepts a transfer the account can pay, on a live blockhash, that
\* has not been executed yet.
Accepted(t) ==
  /\ chain[t] \in {"none", "pending"}
  /\ block - t.hash <= HashLife
  /\ t.amount <= ata
  /\ chain' = [chain EXCEPT ![t] = "pending"]

SendTransaction(r) ==
  /\ pc[r] = "send"
  /\ Accepted(Signed(r))
  /\ tx' = [tx EXCEPT ![r] = Signed(r)]
  /\ Goto(r, "confirm")
  /\ UNCHANGED <<amount, hash, attempt, block, ata, recorded>>

\* Mutant of SendLost: the transfer is tried again on a fresh blockhash.
RetriesSending(r) ==
  /\ pc[r] = "send"
  /\ Accepted(Signed(r))
  /\ Goto(r, "blockhash")
  /\ UNCHANGED <<amount, hash, tx, attempt, block, ata, recorded>>

\* The transaction is on its way, the answer is lost.
SendLost(r) ==
  /\ pc[r] = "send"
  /\ Accepted(Signed(r))
  /\ Goto(r, "failed")
  /\ UNCHANGED <<amount, hash, tx, attempt, block, ata, recorded>>

\* One turn of confirm_finalized.  The node asked may lag: it may answer null
\* or an older status.
Visible(t) ==
  CASE chain[t] = "confirmed" -> {"null", "confirmed"}
    [] chain[t] = "finalized" -> {"null", "confirmed", "finalized"}
    [] chain[t] = "failed"    -> {"null", "failed"}
    [] OTHER                  -> {"null"}

\* Mutant of parse_signature_finalized: confirmed is good enough.
parse_signature_confirmed(status) ==
  CASE status \in {"confirmed", "finalized"} -> "true"
    [] status = "failed" -> "err"
    [] OTHER             -> "false"

parse_signature_finalized(status) ==
  CASE status = "finalized" -> "true"
    [] status = "failed"    -> "err"
    [] OTHER                -> "false"

\* Mutants of Poll: one turn too many; the count of turns wraps around.
PollsOnceMore(r) ==
  /\ pc[r] = "confirm"
  /\ \E s \in Visible(tx[r]) :
       LET answer == parse_signature_finalized(s)
       IN  Goto(r, CASE answer = "true" -> "challenge"
                     [] answer = "err"  -> "failed"
                     [] OTHER -> IF attempt[r] < MaxAttempts THEN "confirm"
                                                             ELSE "failed")
  /\ attempt' = [attempt EXCEPT ![r] = @ + 1]
  /\ UNCHANGED <<amount, hash, tx, chainVars, recorded>>

PollsForever(r) ==
  /\ pc[r] = "confirm"
  /\ \E s \in Visible(tx[r]) :
       LET answer == parse_signature_finalized(s)
       IN  Goto(r, CASE answer = "true" -> "challenge"
                     [] answer = "err"  -> "failed"
                     [] OTHER           -> "confirm")
  /\ attempt' = [attempt EXCEPT ![r] = (@ + 1) % MaxAttempts]
  /\ UNCHANGED <<amount, hash, tx, chainVars, recorded>>

Poll(r) ==
  /\ pc[r] = "confirm"
  /\ \E s \in Visible(tx[r]) :
       LET answer == parse_signature_finalized(s)
       IN  Goto(r, CASE answer = "true" -> "challenge"
                     [] answer = "err"  -> "failed"
                     [] OTHER -> IF attempt[r] + 1 < MaxAttempts THEN "confirm"
                                                                 ELSE "failed")
  /\ attempt' = [attempt EXCEPT ![r] = @ + 1]
  /\ UNCHANGED <<amount, hash, tx, chainVars, recorded>>

\* get_wallet_jwt: a challenge, then its signature.
GetChallenge(r) ==
  /\ pc[r] = "challenge"
  /\ Goto(r, "verify")
  /\ UNCHANGED <<amount, hash, tx, attempt, chainVars, recorded>>

Verify(r) ==
  /\ pc[r] = "verify"
  /\ Goto(r, "record")
  /\ UNCHANGED <<amount, hash, tx, attempt, chainVars, recorded>>

\* The gateway credits a signature once.
Credited(r) ==
  recorded' = IF \E c \in recorded : c.tx = tx[r] THEN recorded
              ELSE recorded \union {[tx |-> tx[r], amount |-> amount[r]]}

Record(r) ==
  /\ pc[r] = "record"
  /\ Credited(r)
  /\ Goto(r, "ok")
  /\ UNCHANGED <<amount, hash, tx, attempt, chainVars>>

\* Credited, but the answer is lost, not 2xx or not JSON.
RecordLost(r) ==
  /\ pc[r] = "record"
  /\ Credited(r)
  /\ Goto(r, "failed")
  /\ UNCHANGED <<amount, hash, tx, attempt, chainVars>>

-----------------------------------------------------------------------------
\* The chain: blocks pass, a pending transaction is executed, fails or is
\* dropped, an executed one becomes final.
NewBlock ==
  /\ block < MaxBlock
  /\ block' = block + 1
  /\ UNCHANGED <<pc, amount, hash, tx, attempt, ata, chain, recorded>>

Execute(t) ==
  /\ chain[t] = "pending"
  /\ \/ /\ t.amount <= ata /\ ata' = ata - t.amount
        /\ chain' = [chain EXCEPT ![t] = "confirmed"]
     \/ /\ t.amount > ata /\ UNCHANGED ata
        /\ chain' = [chain EXCEPT ![t] = "failed"]
     \/ /\ UNCHANGED ata
        /\ chain' = [chain EXCEPT ![t] = "none"]
  /\ UNCHANGED <<pc, amount, hash, tx, attempt, block, recorded>>

Finalize(t) ==
  /\ chain[t] = "confirmed"
  /\ chain' = [chain EXCEPT ![t] = "finalized"]
  /\ UNCHANGED <<pc, amount, hash, tx, attempt, block, ata, recorded>>

\* The steps that end an await of run r.
Step(r) ==
  \/ RequestFails(r) \/ GetConfig(r) \/ GetBalance(r) \/ GetBlockhash(r)
  \/ SendTransaction(r) \/ SendLost(r) \/ Poll(r)
  \/ GetChallenge(r) \/ Verify(r) \/ Record(r) \/ RecordLost(r)

Next ==
  \/ \E r \in Runs : Start(r) \/ Step(r) \/ Kill(r)
  \/ NewBlock
  \/ \E t \in Txs : Execute(t) \/ Finalize(t)

Spec == Init /\ [][Next]_vars

\* Every request ends, in an answer or an error.
FairSpec == Spec /\ \A r \in Runs : WF_vars(Step(r))

-----------------------------------------------------------------------------
(***************************************************************************)
(* Nothing is claimed from the gateway before the transfer behind it is    *)
(* final, whatever the RPC nodes answer and whatever other runs of the same*)
(* wallet do; and the amount claimed is the amount transferred             *)
(* (main.rs 443-458).                                                      *)
(***************************************************************************)
ClaimsOnlyFinalTransfers ==
  /\ \A r \in Runs :
       pc[r] \in {"challenge", "verify", "record", "ok"} =>
         tx[r] # NoTx /\ chain[tx[r]] = "finalized"
  /\ \A c \in recorded : chain[c.tx] = "finalized" /\ c.amount = c.tx.amount

(***************************************************************************)
(* Exit status 0 means that this run's transfer has been credited          *)
(* (main.rs 342-343, 471-501).                                             *)
(***************************************************************************)
SuccessMeansRecorded ==
  \A r \in Runs : pc[r] = "ok" => \E c \in recorded : c.tx = tx[r]

(***************************************************************************)
(* A run puts at most one transfer on the chain, even when its polls stay  *)
(* without an answer: the command retries reading, never sending           *)
(* (main.rs 443-449).  So no more transfers exist than runs.               *)
(***************************************************************************)
NoMoreTransfersThanRuns ==
  Cardinality({t \in Txs : chain[t] # "none"})
    <= Cardinality({r \in Runs : pc[r] # "idle" /\ amount[r] > 0})

(***************************************************************************)
(* Every run comes to an end: the polling has a budget (solana_stake.rs    *)
(* 316-337).                                                               *)
(***************************************************************************)
RunEnds == \A r \in Runs : pc[r] \in Awaits ~> pc[r] \in Exits

(***************************************************************************)
(* solana_stake.rs 316-317: confirm_finalized polls "until the signature   *)
(* reaches finalized (or the on-chain tx fails)", with a bounded budget of *)
(* attempts: it gives up only on a failed transaction or a spent budget.   *)
(***************************************************************************)
ConfirmGivesUpForCause ==
  [][\A r \in Runs :
       pc[r] = "confirm" /\ pc'[r] = "failed" =>
         chain[tx[r]] = "failed" \/ attempt'[r] = MaxAttempts]_vars
=============================================================================
