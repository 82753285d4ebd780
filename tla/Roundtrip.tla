----------------------------- MODULE Roundtrip -----------------------------
(***************************************************************************)
(* One job of `nexus-client work` from the opened Builder session to the   *)
(* submitted result: drive_builder, then worker_roundtrip in               *)
(* src/agenc-worker/src/worker.rs with tx.rs, proof.rs and manifest.rs     *)
(* (work_once in src/src/work.rs calls the two).  WorkLoop has the         *)
(* iterations and the competition; here is what is built, hashed, asserted,*)
(* signed and committed in one of them.                                    *)
(*                                                                         *)
(* The sidecar is external: asked for a transaction, it answers with one of*)
(* any instructions, or with something that is none.  The RPC node takes   *)
(* what it is sent or refuses it, and its answer may be lost.              *)
(***************************************************************************)
EXTENDS Builder, Sequences

CONSTANTS
  Tasks,    \* tasks of the AgenC program
  Task,     \* SelectedJob::task_pda
  Session,  \* the session id of nexus_builder_create
  MaxIxs,   \* instructions of a transaction (a bound of the model)
  None      \* no data after the discriminator

ASSUME RoundtripAssumption == Task \in Tasks /\ MaxIxs \in Nat

Legs == {"claim", "submit"}

\* An instruction is of the AgenC program, of another one, or has a program index
\* out of range.  One of the AgenC program has a discriminator, or less than
\* the 8 bytes for it, the task among its accounts, and arguments.
Kinds == {"register", "claim", "submit", "unlisted", "short"}
Benign == [program |-> "other"]
Dangling == [program |-> "dangling"]
AgencIx(kind, task, args) ==
  [program |-> "agenc", kind |-> kind, task |-> task, args |-> args]

\* The transactions that the sidecar may answer with when it is asked for
\* `request`: of the instruction asked for and of any others.
Instructions(request) ==
  {request, Benign, Dangling} \union {AgencIx(k, t, None) : k \in Kinds, t \in Tasks}
Answers(request) == UNION {[1..n -> Instructions(request)] : n \in 0..MaxIxs}

VARIABLES
  leg,       \* the await of the settlement, or how it ended
  signed,    \* the messages the wallet signed, each with what was asked for
  accepted   \* legs whose sendTransaction was answered by a signature

settleVars == <<leg, signed, accepted>>
roundVars == <<vars, settleVars>>

RoundtripTypeOK ==
  /\ TypeOK
  /\ leg \in {"drive_builder", "build_claim", "claim", "build_submit", "submit",
              "done", "failed"}
  /\ Len(signed) <= 2
  /\ \A i \in DOMAIN signed : signed[i].ixs \in Seq(Instructions(signed[i].request))
  /\ accepted \subseteq Legs

RoundtripInit ==
  /\ Init
  /\ leg = "drive_builder"
  /\ signed = <<>> /\ accepted = {}

-----------------------------------------------------------------------------
\* The kinds of the instructions of the AgenC program.
AgenC(ixs) ==
  {ixs[i].kind : i \in {j \in DOMAIN ixs : ixs[j].program = "agenc"}}

\* Mutant of assert_expected: one expected instruction is enough.
assert_one_expected(ixs, expected) ==
  /\ Dangling \notin {ixs[i] : i \in DOMAIN ixs}
  /\ AgenC(ixs) \intersect expected # {}

\* Some AgenC instruction, and none of a kind that is not expected.  It looks
\* neither at the task nor at the arguments, nor at how many there are.
assert_expected(ixs, expected) ==
  /\ Dangling \notin {ixs[i] : i \in DOMAIN ixs}
  /\ AgenC(ixs) # {}
  /\ AgenC(ixs) \subseteq expected

sign_message(request, ixs) == [request |-> request, ixs |-> ixs]

\* proof_hash: it commits the body and the signature over it, by the key of
\* the wallet (signing_key_from_keypair).  The rest of the body is
\* configuration and the time of day.
build_worker_proof(artifact) ==
  LET body == [task |-> Task, job |-> Session, artifact |-> artifact]
  IN  Sha256([body |-> body, signature |-> [by |-> "wallet", over |-> body]])

\* What the sidecar is asked for.
build_claim_tx == AgencIx("claim", Task, None)
build_submit_tx ==
  AgencIx("submit", Task,
          [proofHash |-> build_worker_proof(result), resultData |-> result])

\* drive_builder returns to work_once.
Built ==
  /\ leg = "drive_builder"
  /\ pc \in {"ok", "failed"}
  /\ leg' = IF pc = "ok" THEN "build_claim" ELSE "failed"
  /\ UNCHANGED <<vars, signed, accepted>>

\* The sidecar's answer for leg l is asserted, then signed and sent.
SignFor(l, request) ==
  \E ixs \in Answers(request) :
    IF assert_expected(ixs, {l})
    THEN signed' = Append(signed, sign_message(request, ixs)) /\ leg' = l
    ELSE leg' = "failed" /\ UNCHANGED signed

BuildClaim ==
  /\ leg = "build_claim"
  /\ SignFor("claim", build_claim_tx)
  /\ UNCHANGED <<vars, accepted>>

BuildSubmit ==
  /\ leg = "build_submit"
  /\ SignFor("submit", build_submit_tx)
  /\ UNCHANGED <<vars, accepted>>

\* send_json_rpc is answered with a result.
SendOk ==
  /\ leg \in Legs
  /\ accepted' = accepted \union {leg}
  /\ leg' = IF leg = "claim" THEN "build_submit" ELSE "done"
  /\ UNCHANGED <<vars, signed>>

\* Mutant of RequestFails: the submit follows a claim that was not taken.
GoesOnUnclaimed ==
  /\ leg \in Legs \union {"build_claim", "build_submit"}
  /\ leg' = IF leg = "claim" THEN "build_submit" ELSE "failed"
  /\ UNCHANGED <<vars, signed, accepted>>

\* A request fails, is refused, or is answered by something that is not JSON or
\* lacks the field.
RequestFails ==
  /\ leg \in Legs \union {"build_claim", "build_submit"}
  /\ leg' = "failed"
  /\ UNCHANGED <<vars, signed, accepted>>

Settle == Built \/ BuildClaim \/ BuildSubmit \/ SendOk \/ RequestFails

RoundtripNext ==
  \/ Next /\ UNCHANGED settleVars
  \/ Settle

\* Every call and every request is answered or fails.
RoundtripSpec ==
  /\ RoundtripInit /\ [][RoundtripNext]_roundVars
  /\ WF_roundVars((Local \/ Answered) /\ UNCHANGED settleVars)
  /\ WF_roundVars(Settle)
-----------------------------------------------------------------------------
(***************************************************************************)
(* One job comes to an end, in success or failure, whatever the server     *)
(* makes of the session and the sidecar of the transactions, if every call *)
(* and every request is answered (builder.rs 266-271, worker.rs 207-261).  *)
(***************************************************************************)
RoundEnds == <>(leg \in {"done", "failed"})

(***************************************************************************)
(* Whatever mix of instructions the sidecar answers with, the job is built *)
(* before it is claimed and claimed before it is submitted: no instruction *)
(* is signed before the app is live, no submit instruction before a claim  *)
(* message was taken, no claim instruction from then on, and at no time one*)
(* of the AgenC program's others (work.rs 280-318, worker.rs 207-254, tx.rs*)
(* 63-105).  Which task they name and how many of them a message has, the  *)
(* code does not check.                                                    *)
(***************************************************************************)
SignsInTurn ==
  /\ signed # <<>> => live # NoApp /\ session.status = "done"
  /\ \A i \in DOMAIN signed : \A kind \in AgenC(signed[i].ixs) :
       \/ kind = "claim" /\ i = 1
       \/ kind = "submit" /\ i = 2 /\ "claim" \in accepted

\* The one instruction of the AgenC program in the message is the one that the
\* sidecar was asked for.
AsAsked(m) ==
  \E i \in DOMAIN m.ixs :
    /\ m.ixs[i] = m.request
    /\ \A j \in DOMAIN m.ixs \ {i} : m.ixs[j] = Benign

(***************************************************************************)
(* What the wallet signs as the result is the app that is live: result data*)
(* and worker proof in the signed submit both carry the server's hash of   *)
(* the promoted files (of none, if the done snapshot showed none), for the *)
(* task of the job and the session that built it, through promotion,       *)
(* hashing, claim, proof and the sidecar, provided that the sidecar put    *)
(* into the transaction what it was asked to (work.rs 280-318, worker.rs   *)
(* 224-254, proof.rs 74-114, manifest.rs 15-55).                           *)
(***************************************************************************)
SubmitsWhatWentLive ==
  \A i \in DOMAIN signed :
    AsAsked(signed[i]) /\ AgenC(signed[i].ixs) = {"submit"} =>
      LET artifact == AppHash(LiveAsShown)
          body == [task |-> Task, job |-> Session, artifact |-> artifact]
          proof == Sha256([body |-> body, signature |-> [by |-> "wallet", over |-> body]])
      IN  /\ live # NoApp
          /\ AgencIx("submit", Task, [proofHash |-> proof, resultData |-> artifact])
               \in {signed[i].ixs[j] : j \in DOMAIN signed[i].ixs}
=============================================================================
