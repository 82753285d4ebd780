-------------------------- MODULE RoundtripProofs --------------------------
(***************************************************************************)
(* drive_builder runs every turn on the right tier, promotes only what is  *)
(* done and returns the server's hash of what it was shown; a worker signs *)
(* claims and submits in their turn only, and a submit built as it was     *)
(* asked for commits the app that is live: for every budget, number of     *)
(* tasks, set of files, and transactions of any length.  First the drive   *)
(* alone, then with the settlement around it.                              *)
(***************************************************************************)
EXTENDS Roundtrip, TLAPS

Early == {"challenge", "verify", "create"}

\* Nothing exists on the server before nexus_builder_create, a session after it.
EarlyInv ==
  /\ pc \in Early => /\ session = NoSession /\ snap.status = "running"
                     /\ model_tier = "premium"
                     /\ live = NoApp
  /\ session = NoSession => pc \in Early \union {"failed"}

\* The phases only go forward, and the tier is switched between plan and
\* execute.
TierInv ==
  /\ tier_pinned => model_tier = "community"
  /\ session.phase = "brainstorm" => model_tier = "premium"
  /\ session.phase = "execute" => model_tier = "community"
  /\ snap.phase # "brainstorm" => session.phase # "brainstorm"
  /\ pc = "tier" => ActionFor(snap) = "approve_plan"
  /\ pc = "advance" => /\ ActionFor(snap) # "none"
                       /\ ActionFor(snap) = "approve_plan" => tier_pinned

\* A session that was seen done stays as it was seen.
DoneInv ==
  /\ snap.status = "done" => /\ session.status = "done"
                             /\ snap.files \in {draft, Null}
  /\ pc \in {"promote", "ok"} => snap.status = "done"

BuilderInv ==
  /\ TypeOK /\ EarlyInv /\ TierInv /\ DoneInv
  /\ TurnsOnTheRightTier /\ PromotesWhatIsDone

-----------------------------------------------------------------------------
LEMMA AppsFacts ==
  /\ NoFiles \in Apps
  /\ \A app \in Apps : app # Null /\ app # NoApp
  /\ Null # NoFiles
<1>1. NoFiles \in [{} -> Contents] /\ {} \in SUBSET Paths
  BY DEF NoFiles
<1> QED BY <1>1, NullAssumption DEF Apps

LEMMA WithFileType ==
  ASSUME NEW app \in Apps, NEW p \in Paths, NEW c \in Contents
  PROVE  WithFile(app, p, c) \in Apps
<1>1. PICK P \in SUBSET Paths : app \in [P -> Contents]
  BY DEF Apps
<1>2. /\ P \union {p} \in SUBSET Paths
      /\ WithFile(app, p, c) \in [P \union {p} -> Contents]
  BY <1>1 DEF WithFile
<1> QED BY <1>2 DEF Apps

(***************************************************************************)
(* What the client hashes of the files of a snapshot is what the server    *)
(* hashes of them; a snapshot without `files` is hashed like an app that   *)
(* has none.                                                               *)
(***************************************************************************)
LEMMA HashAgrees ==
  /\ \A app \in Apps : manifest_hash(files_from_json(app)) = AppHash(app)
  /\ manifest_hash(files_from_json(Null)) = AppHash(NoFiles)
<1>1. ASSUME NEW app \in Apps
      PROVE  manifest_hash(files_from_json(app)) = AppHash(app)
  <2>1. files_from_json(app) = {<<p, app[p].text>> : p \in DOMAIN app}
    BY AppsFacts DEF files_from_json
  <2> DEFINE Bundle == {<<p, app[p].text>> : p \in DOMAIN app}
             Hashed == {<<f[1], Sha256(f[2])>> : f \in Bundle}
             Lines  == {<<p, Sha256(app[p].text)>> : p \in DOMAIN app}
  <2>2. Hashed = Lines
    <3>1. ASSUME NEW x \in Hashed PROVE x \in Lines
      <4>1. PICK f \in Bundle : x = <<f[1], Sha256(f[2])>>
        OBVIOUS
      <4>2. PICK p \in DOMAIN app : f = <<p, app[p].text>>
        BY <4>1
      <4>3. f[1] = p /\ f[2] = app[p].text
        BY <4>2
      <4> QED BY <4>1, <4>3
    <3>2. ASSUME NEW x \in Lines PROVE x \in Hashed
      <4>1. PICK p \in DOMAIN app : x = <<p, Sha256(app[p].text)>>
        OBVIOUS
      <4> DEFINE g == <<p, app[p].text>>
      <4>2. g \in Bundle /\ g[1] = p /\ g[2] = app[p].text
        OBVIOUS
      <4>3. x = <<g[1], Sha256(g[2])>>
        BY <4>1, <4>2
      <4> QED BY <4>2, <4>3
    <3> QED BY <3>1, <3>2
  <2> QED BY <2>1, <2>2 DEF manifest_hash, AppHash
<1>2. manifest_hash(files_from_json(Null)) = AppHash(NoFiles)
  <2>1. files_from_json(Null) = {} /\ DOMAIN NoFiles = {}
    BY DEF files_from_json, NoFiles
  <2>2. {<<f[1], Sha256(f[2])>> : f \in {}}
          = {<<p, Sha256(NoFiles[p].text)>> : p \in DOMAIN NoFiles}
    BY <2>1
  <2> QED BY <2>1, <2>2 DEF manifest_hash, AppHash
<1> QED BY <1>1, <1>2

LEMMA InitInv == Init => BuilderInv
<1> SUFFICES ASSUME Init PROVE BuilderInv
  OBVIOUS
<1>1. TypeOK
  <2>1. snap \in Snap
    BY DEF Init, Snap, Phases, Statuses
  <2>2. /\ pc \in Calls /\ pc # "sleep" /\ tier_pinned \in BOOLEAN
        /\ model_tier \in {"premium", "community"} /\ session = NoSession
    BY DEF Init, Calls
  <2>3. turns \subseteq Phases \X {"premium", "community"}
    BY DEF Init
  <2>4. clock \in 0..Budget + Poll /\ tasks \in 0..MaxTasks
    BY BuilderAssumption DEF Init
  <2>5. /\ draft \in Apps
        /\ live \in Apps \union {NoApp}
        /\ result \in {AppHash(app) : app \in Apps} \union {NoApp}
    BY AppsFacts DEF Init
  <2> QED BY <2>1, <2>2, <2>3, <2>4, <2>5 DEF TypeOK
<1>2. EarlyInv /\ DoneInv
  BY DEF Init, EarlyInv, DoneInv, Early
<1>3. TierInv
  BY DEF Init, TierInv, NoSession
<1>4. TurnsOnTheRightTier /\ PromotesWhatIsDone
  BY DEF Init, TurnsOnTheRightTier, PromotesWhatIsDone
<1> QED BY <1>1, <1>2, <1>3, <1>4 DEF BuilderInv

-----------------------------------------------------------------------------
\* What a call may do to the server, with all it leaves alone.
LEMMA EffectFacts ==
  ASSUME BuilderInv, Effect
  PROVE  /\ UNCHANGED <<tasks, draft>>
         /\ \/ /\ pc = "create"
               /\ session' = [phase |-> "brainstorm", status |-> "running"]
               /\ turns' = turns \union {<<"brainstorm", "premium">>}
               /\ UNCHANGED <<model_tier, live>>
               /\ model_tier = "premium"
            \/ /\ pc = "tier" /\ model_tier' = "community"
               /\ session.phase # "brainstorm"
               /\ UNCHANGED <<session, turns, live>>
            \/ /\ pc = "advance" /\ ActionFor(snap) = "approve_spec"
               /\ session' = [phase |-> "plan", status |-> "running"]
               /\ turns' = turns \union {<<"plan", "premium">>}
               /\ UNCHANGED <<model_tier, live>>
               /\ live = NoApp /\ snap.status # "done"
            \/ /\ pc = "advance" /\ ActionFor(snap) # "approve_spec"
               /\ session' = [phase |-> "execute", status |-> "running"]
               /\ turns' = turns \union {<<"execute", "community">>}
               /\ UNCHANGED <<model_tier, live>>
               /\ model_tier = "community"
               /\ live = NoApp /\ snap.status # "done"
            \/ /\ pc = "promote" /\ live' = draft
               /\ UNCHANGED <<session, model_tier, turns>>
               /\ session.status = "done"
<1>1. CASE pc = "create" /\ StartTurn("brainstorm")
  BY <1>1 DEF BuilderInv, EarlyInv, Early, StartTurn
<1>2. CASE /\ pc = "tier"
           /\ model_tier' = "community"
           /\ UNCHANGED <<session, turns, tasks, draft, live>>
  BY <1>2 DEF BuilderInv, TierInv, ActionFor
<1>3. CASE /\ pc = "advance" /\ ActionFor(session) = ActionFor(snap)
           /\ StartTurn(IF ActionFor(snap) = "approve_spec" THEN "plan" ELSE "execute")
  <2>1. ActionFor(snap) # "none" /\ snap.status # "done" /\ session.status # "done"
    BY <1>3 DEF BuilderInv, TierInv, ActionFor
  <2>2. live = NoApp
    BY <2>1 DEF BuilderInv, PromotesWhatIsDone
  <2>3. CASE ActionFor(snap) = "approve_spec"
    <3>1. session.phase = "brainstorm"
      BY <1>3, <2>3 DEF ActionFor
    <3> QED BY <1>3, <2>1, <2>2, <2>3, <3>1 DEF StartTurn, BuilderInv, TierInv
  <2>4. CASE ActionFor(snap) # "approve_spec"
    <3>1. \/ ActionFor(snap) = "approve_plan"
          \/ ActionFor(snap) = "next_task" /\ session.phase = "execute"
      BY <1>3, <2>1, <2>4 DEF ActionFor
    <3>2. model_tier = "community"
      BY <1>3, <3>1 DEF BuilderInv, TierInv
    <3> QED BY <1>3, <2>1, <2>2, <2>4, <3>2 DEF StartTurn
  <2> QED BY <2>3, <2>4
<1>4. CASE pc = "promote" /\ live' = draft
           /\ UNCHANGED <<session, model_tier, turns, tasks, draft>>
  BY <1>4 DEF BuilderInv, DoneInv
<1> QED BY <1>1, <1>2, <1>3, <1>4 DEF Effect

\* The part of the invariant that a call can disturb holds whatever the client
\* makes of the answer.
LEMMA EffectKeeps ==
  ASSUME BuilderInv, Effect \/ UNCHANGED serverVars
  PROVE  /\ session' \in [phase : Phases, status : Statuses] \union {NoSession}
         /\ model_tier' \in {"premium", "community"}
         /\ turns' \subseteq Phases \X {"premium", "community"}
         /\ tasks' = tasks /\ draft' = draft
         /\ session' = NoSession => session = NoSession
         /\ live' \in Apps \union {NoApp}
         /\ tier_pinned => model_tier' = "community"
         /\ session'.phase = "brainstorm" => model_tier' = "premium"
         /\ session'.phase = "execute" => model_tier' = "community"
         /\ snap.phase # "brainstorm" /\ pc # "create" => session'.phase # "brainstorm"
         /\ snap.status = "done" => session'.status = "done"
         /\ TurnsOnTheRightTier'
         /\ live' # NoApp => session'.status = "done" /\ live' = draft
<1>1. CASE UNCHANGED serverVars
  BY <1>1 DEF serverVars, BuilderInv, TypeOK, TierInv, DoneInv,
    TurnsOnTheRightTier, PromotesWhatIsDone
<1>2. CASE Effect
  BY <1>2, EffectFacts DEF NoSession, BuilderInv, TypeOK, TierInv, DoneInv, EarlyInv, Early,
    TurnsOnTheRightTier, PromotesWhatIsDone, Phases, Statuses
<1> QED BY <1>1, <1>2

LEMMA CallSteps ==
  ASSUME BuilderInv, SignIn \/ Create \/ PinTier \/ Advance \/ CallFails
  PROVE  BuilderInv'
<1>1. CASE SignIn
  BY <1>1 DEF SignIn, BuilderInv, TypeOK, EarlyInv, TierInv, DoneInv, Early,
    Calls, Polling, TurnsOnTheRightTier, PromotesWhatIsDone, clientVars, serverVars
<1>2. CASE Create
  <2>1. /\ pc = "create" /\ pc' = "check" /\ Effect
        /\ UNCHANGED <<tier_pinned, snap, result, clock>>
    BY <1>2 DEF Create, clientVars
  <2>2. /\ snap.status = "running" /\ snap.phase = "brainstorm"
        /\ session' # NoSession
    BY <2>1, EffectFacts DEF BuilderInv, EarlyInv, Early, TierInv, NoSession
  <2> QED BY <2>1, <2>2, EffectKeeps
    DEF BuilderInv, TypeOK, EarlyInv, TierInv, DoneInv, Early, Calls, Polling,
        PromotesWhatIsDone
<1>3. CASE PinTier
  <2>1. /\ pc = "tier" /\ pc' = "advance" /\ Effect /\ tier_pinned'
        /\ model_tier' = "community"
        /\ UNCHANGED <<snap, result, clock>>
    BY <1>3, EffectFacts DEF PinTier
  <2>2. tier_pinned' \in BOOLEAN
    BY <1>3 DEF PinTier
  <2>3. ActionFor(snap') = "approve_plan"
    BY <2>1 DEF BuilderInv, TierInv
  <2> QED BY <2>1, <2>2, <2>3, EffectKeeps
    DEF BuilderInv, TypeOK, EarlyInv, TierInv, DoneInv, Early, Calls, Polling,
        PromotesWhatIsDone
<1>4. CASE Advance
  <2>1. /\ pc = "advance" /\ pc' = "check" /\ Effect
        /\ UNCHANGED <<tier_pinned, snap, result, clock>>
    BY <1>4 DEF Advance, clientVars
  <2> QED BY <2>1, EffectKeeps
    DEF BuilderInv, TypeOK, EarlyInv, TierInv, DoneInv, Early, Calls, Polling,
        PromotesWhatIsDone
<1>5. CASE CallFails
  <2>1. /\ pc \in Calls /\ pc' = "failed" /\ (Effect \/ UNCHANGED serverVars)
        /\ UNCHANGED <<tier_pinned, snap, result, clock>>
    BY <1>5 DEF CallFails, clientVars
  <2>2. snap.phase # "brainstorm" => pc # "create"
    BY DEF BuilderInv, EarlyInv, Early, TierInv, NoSession
  <2> QED BY <2>1, <2>2, EffectKeeps
    DEF BuilderInv, TypeOK, EarlyInv, TierInv, DoneInv, Early, Calls, Polling,
        PromotesWhatIsDone
<1> QED BY <1>1, <1>2, <1>3, <1>4, <1>5

LEMMA StatusStep ==
  ASSUME BuilderInv, Status
  PROVE  BuilderInv'
<1>1. PICK files \in Shown :
        snap' = [phase |-> session.phase, status |-> session.status, files |-> files]
  BY DEF Status
<1>2. /\ pc = "status" /\ pc' = "decide"
      /\ UNCHANGED <<tier_pinned, result, clock, session, model_tier, turns,
                     tasks, draft, live>>
  BY DEF Status, serverVars
<1>3. session \in [phase : Phases, status : Statuses]
  BY <1>1, <1>2 DEF BuilderInv, TypeOK, EarlyInv, Early
<1>4. snap' \in Snap /\ snap'.phase = session.phase /\ snap'.status = session.status
      /\ snap'.files = files
  BY <1>1, <1>3 DEF BuilderInv, TypeOK, Shown, Snap
<1>5. TypeOK' /\ EarlyInv'
  BY <1>2, <1>4 DEF BuilderInv, TypeOK, EarlyInv, Early, Calls, Polling
<1>6. TierInv'
  BY <1>2, <1>4 DEF BuilderInv, TierInv
<1>7. DoneInv'
  BY <1>2, <1>4 DEF BuilderInv, DoneInv, Shown
<1>8. TurnsOnTheRightTier' /\ PromotesWhatIsDone'
  BY <1>2 DEF BuilderInv, TurnsOnTheRightTier, PromotesWhatIsDone
<1> QED BY <1>5, <1>6, <1>7, <1>8 DEF BuilderInv

LEMMA PromoteStep ==
  ASSUME BuilderInv, Promote
  PROVE  BuilderInv'
<1>1. /\ pc = "promote" /\ pc' = "ok" /\ Effect
      /\ result' = manifest_hash(files_from_json(snap.files))
      /\ UNCHANGED <<tier_pinned, snap, clock>>
  BY DEF Promote
<1>2. /\ live' = draft /\ draft' = draft /\ draft \in Apps
      /\ UNCHANGED <<session, model_tier, turns, tasks>>
      /\ session.status = "done"
  BY <1>1, EffectFacts DEF BuilderInv, TypeOK
<1>3. result' = AppHash(LiveAsShown') /\ LiveAsShown' \in Apps
  <2>1. snap.files \in {draft, Null} /\ draft # Null
    BY <1>1, <1>2, AppsFacts DEF BuilderInv, DoneInv
  <2>2. snap' = snap
    BY <1>1
  <2>3. CASE snap.files = Null
    BY <1>1, <2>2, <2>3, HashAgrees, AppsFacts DEF LiveAsShown
  <2>4. CASE snap.files = draft
    BY <1>1, <1>2, <2>1, <2>2, <2>4, HashAgrees DEF LiveAsShown
  <2> QED BY <2>1, <2>3, <2>4
<1>4. result' \in {AppHash(app) : app \in Apps}
  BY <1>3
<1>5. pc' = "ok" => live' # NoApp /\ result' = AppHash(LiveAsShown)'
  BY <1>2, <1>3, AppsFacts DEF AppHash, Sha256
<1> QED BY <1>1, <1>2, <1>4, <1>5, AppsFacts
  DEF BuilderInv, TypeOK, EarlyInv, TierInv, DoneInv, Early, Calls, Polling,
      PromotesWhatIsDone, TurnsOnTheRightTier

LEMMA LocalSteps ==
  ASSUME BuilderInv, Local
  PROVE  BuilderInv'
<1>1. CASE CheckBudget
  BY <1>1 DEF CheckBudget, BuilderInv, TypeOK, EarlyInv, TierInv, DoneInv, Early,
    Calls, Polling, TurnsOnTheRightTier, PromotesWhatIsDone, clientVars, serverVars
<1>2. CASE Decide
  <2>1. /\ pc = "decide"
        /\ UNCHANGED <<tier_pinned, snap, result, clock, session, model_tier,
                       turns, tasks, draft, live>>
        /\ \/ pc' = "promote" /\ snap.status = "done"
           \/ pc' = "failed"
           \/ pc' = "sleep" /\ snap.status \notin {"done", "error"}
           \/ pc' = "tier" /\ ActionFor(snap) = "approve_plan"
           \/ /\ pc' = "advance" /\ ActionFor(snap) # "none"
              /\ ActionFor(snap) = "approve_plan" => tier_pinned
    BY <1>2 DEF Decide, Reply, clientVars, serverVars
  <2> QED BY <2>1 DEF BuilderInv, TypeOK, EarlyInv, TierInv, DoneInv, Early,
    Calls, Polling, TurnsOnTheRightTier, PromotesWhatIsDone, ActionFor
<1>3. CASE Sleep
  BY <1>3, BuilderAssumption
  DEF Sleep, BuilderInv, TypeOK, EarlyInv, TierInv, DoneInv, Early,
    Calls, Polling, TurnsOnTheRightTier, PromotesWhatIsDone, clientVars, serverVars
<1> QED BY <1>1, <1>2, <1>3 DEF Local

\* The server moves a session only while it runs or settles, and never to
\* another phase.
LEMMA ServerSteps ==
  ASSUME BuilderInv, Server
  PROVE  BuilderInv'
<1>1. /\ session.status \in {"running", "settling"}
      /\ session' \in [phase : Phases, status : Statuses]
      /\ session'.phase = session.phase
      /\ UNCHANGED <<pc, tier_pinned, snap, result, clock, model_tier, turns, live>>
  BY DEF Server, TurnEnds, Settles, clientVars, BuilderInv, TypeOK, Statuses, NoSession
<1>2. tasks' \in 0..MaxTasks /\ draft' \in Apps
  BY WithFileType, BuilderAssumption
  DEF Server, TurnEnds, Settles, BuilderInv, TypeOK
<1>3. /\ snap.status # "done" /\ live = NoApp /\ pc \notin Early
      /\ session' # NoSession
  BY <1>1 DEF BuilderInv, DoneInv, PromotesWhatIsDone, EarlyInv, Early, NoSession,
    Statuses
<1> QED BY <1>1, <1>2, <1>3
  DEF BuilderInv, TypeOK, EarlyInv, TierInv, DoneInv, TurnsOnTheRightTier,
      PromotesWhatIsDone

LEMMA BuilderNextInv == BuilderInv /\ [Next]_vars => BuilderInv'
<1>1. ASSUME BuilderInv, UNCHANGED vars PROVE BuilderInv'
  BY <1>1 DEF vars, BuilderInv, TypeOK, EarlyInv, TierInv, DoneInv,
    TurnsOnTheRightTier, PromotesWhatIsDone, LiveAsShown
<1>2. ASSUME BuilderInv, Next PROVE BuilderInv'
  BY <1>2, CallSteps, StatusStep, PromoteStep, LocalSteps, ServerSteps
  DEF Next, Answered
<1> QED BY <1>1, <1>2

LEMMA Invariance == Spec => []BuilderInv
BY InitInv, BuilderNextInv, PTL DEF Spec

-----------------------------------------------------------------------------
(***************************************************************************)
(* Type correctness of drive_builder.                                      *)
(***************************************************************************)
THEOREM TypeCorrect == Spec => []TypeOK
<1>1. BuilderInv => TypeOK
  BY DEF BuilderInv
<1> QED BY <1>1, Invariance, PTL

(***************************************************************************)
(* Brainstorm and plan turns run on the premium tier, execute turns on the *)
(* community tier, whatever call fails and wherever the session stands     *)
(* (builder.rs 241-249, 301-316).                                          *)
(***************************************************************************)
THEOREM AlwaysOnTheRightTier == Spec => []TurnsOnTheRightTier
<1>1. BuilderInv => TurnsOnTheRightTier
  BY DEF BuilderInv
<1> QED BY <1>1, Invariance, PTL

(***************************************************************************)
(* Only a finished session goes live, and the artifact hash is the server's*)
(* hash of the app that went live as the done snapshot showed it: of no    *)
(* files, if it came without (builder.rs 205-211, 338-360).                *)
(***************************************************************************)
THEOREM AlwaysPromotesDone == Spec => []PromotesWhatIsDone
<1>1. BuilderInv => PromotesWhatIsDone
  BY DEF BuilderInv
<1> QED BY <1>1, Invariance, PTL

-----------------------------------------------------------------------------
Settling == {"build_claim", "claim", "build_submit", "submit", "done"}

\* The settlement begins when the drive has succeeded; the submit when the
\* claim was taken.  Each of the two signs once.
SettleInv ==
  /\ leg \in Settling \/ signed # <<>> => pc = "ok"
  /\ leg \in {"build_submit", "submit", "done"} => "claim" \in accepted
  /\ leg \in {"drive_builder", "build_claim"} => Len(signed) = 0
  /\ leg \in {"claim", "build_submit"} => Len(signed) = 1

\* A message the wallet signed: asserted, for the request of its turn.
Request(i) == IF i = 1 THEN build_claim_tx ELSE build_submit_tx
Expected(i) == IF i = 1 THEN "claim" ELSE "submit"
SignedFor(request, kind, m) ==
  /\ m.request = request
  /\ m.ixs \in Answers(request)
  /\ assert_expected(m.ixs, {kind})
SignedInv ==
  /\ signed \in Seq([request : {build_claim_tx, build_submit_tx},
                     ixs : Answers(build_claim_tx) \union Answers(build_submit_tx)])
  /\ Len(signed) <= 2
  /\ Len(signed) = 2 => "claim" \in accepted
  /\ \A i \in DOMAIN signed : SignedFor(Request(i), Expected(i), signed[i])

RoundInv ==
  /\ BuilderInv /\ SettleInv /\ SignedInv
  /\ leg \in {"drive_builder", "failed"} \union Settling
  /\ accepted \subseteq Legs

-----------------------------------------------------------------------------
\* What the invariant says of the parts of the state that a step leaves alone.
LEMMA SettledKeeps ==
  ASSUME RoundInv, BuilderInv', UNCHANGED <<pc, result, leg, signed, accepted>>
  PROVE  RoundInv'
<1>1. UNCHANGED <<build_claim_tx, build_submit_tx>>
  BY DEF build_claim_tx, build_submit_tx, build_worker_proof, AgencIx, Sha256
<1>2. SignedInv'
  BY <1>1 DEF RoundInv, SignedInv, Request
<1> QED BY <1>2 DEF RoundInv, SettleInv

LEMMA RoundInit == RoundtripInit => RoundInv
<1> SUFFICES ASSUME RoundtripInit PROVE RoundInv
  OBVIOUS
<1>1. BuilderInv
  BY InitInv DEF RoundtripInit
<1> QED BY <1>1
  DEF RoundtripInit, RoundInv, SettleInv, SignedInv, Settling, Legs

\* A drive that succeeded is over, for client and server alike.
LEMMA OkIsFinal ==
  ASSUME BuilderInv, pc = "ok", Next
  PROVE  FALSE
<1>1. session.status = "done"
  BY DEF BuilderInv, DoneInv
<1> QED BY <1>1
  DEF Next, Answered, Local, Server, SignIn, Create, Status, PinTier, Advance,
      Promote, CallFails, Calls, CheckBudget, Decide, Sleep, TurnEnds, Settles

\* Nothing is settled yet while the drive goes on.
LEMMA BuilderSteps ==
  ASSUME RoundInv, [Next]_vars, UNCHANGED settleVars
  PROVE  RoundInv'
<1>1. BuilderInv' /\ UNCHANGED <<leg, signed, accepted>>
  BY BuilderNextInv DEF RoundInv, settleVars
<1>2. CASE pc = "ok"
  <2>1. UNCHANGED <<pc, result>>
    BY <1>2, OkIsFinal DEF RoundInv, vars
  <2> QED BY <1>1, <2>1, SettledKeeps
<1>3. CASE pc # "ok"
  <2>1. leg \notin Settling /\ signed = <<>>
    BY <1>3 DEF RoundInv, SettleInv
  <2> QED BY <1>1, <2>1 DEF RoundInv, SettleInv, SignedInv, Settling
<1> QED BY <1>2, <1>3

\* An asserted message is of the one kind.
LEMMA AssertedMeansAlone ==
  ASSUME NEW ixs, NEW kind, assert_expected(ixs, {kind})
  PROVE  AgenC(ixs) = {kind}
BY DEF assert_expected

\* The i-th message is signed in the i-th turn, if at all.
LEMMA SigningKeeps ==
  ASSUME RoundInv, UNCHANGED <<vars, accepted>>, NEW i \in {1, 2},
         SignFor(Expected(i), Request(i)),
         Len(signed) = i - 1, i = 2 => "claim" \in accepted
  PROVE  /\ SignedInv'
         /\ leg' \in {Expected(i), "failed"}
         /\ leg' = Expected(i) => Len(signed') = i
<1>1. PICK ixs \in Answers(Request(i)) :
        IF assert_expected(ixs, {Expected(i)})
        THEN /\ signed' = Append(signed, sign_message(Request(i), ixs))
             /\ leg' = Expected(i)
        ELSE leg' = "failed" /\ UNCHANGED signed
  BY DEF SignFor
<1>2. UNCHANGED <<pc, build_claim_tx, build_submit_tx>>
  BY DEF vars, build_claim_tx, build_submit_tx, build_worker_proof, AgencIx, Sha256
<1> DEFINE m == sign_message(Request(i), ixs)
           Ms == [request : {build_claim_tx, build_submit_tx},
                  ixs : Answers(build_claim_tx) \union Answers(build_submit_tx)]
<1>3. CASE assert_expected(ixs, {Expected(i)})
  <2>1. m \in Ms /\ SignedFor(Request(i), Expected(i), m)
    BY <1>3 DEF sign_message, SignedFor, Request
  <2>2. signed \in Seq(Ms) /\ \A j \in DOMAIN signed : SignedFor(Request(j), Expected(j), signed[j])
    BY DEF RoundInv, SignedInv
  <2>3. /\ signed' \in Seq(Ms) /\ Len(signed') = i
        /\ \A j \in DOMAIN signed' : SignedFor(Request(j), Expected(j), signed'[j])
    <3> HIDE DEF m, Ms
    <3>1. signed' = Append(signed, m)
      BY <1>1, <1>3 DEF m
    <3>2. DOMAIN signed = 1..i - 1 /\ Len(signed) = i - 1
      BY <2>2
    <3>3. /\ signed' \in Seq(Ms) /\ Len(signed') = i /\ DOMAIN signed' = 1..i
          /\ signed'[i] = m /\ \A j \in 1..i - 1 : signed'[j] = signed[j]
      BY <2>1, <2>2, <3>1, <3>2
    <3>4. ASSUME NEW j \in 1..i PROVE SignedFor(Request(j), Expected(j), signed'[j])
      <4>1. CASE j = i
        BY <2>1, <3>3, <4>1
      <4>2. CASE j # i
        <5>1. j \in 1..i - 1
          BY <4>2
        <5> QED BY <2>2, <3>2, <3>3, <5>1
      <4> QED BY <4>1, <4>2
    <3> QED BY <3>3, <3>4
  <2>4. SignedInv'
    BY <1>2, <2>3 DEF SignedInv, Request
  <2> QED BY <1>1, <1>2, <1>3, <2>3, <2>4
<1>4. CASE ~ assert_expected(ixs, {Expected(i)})
  <2>1. SignedInv'
    BY <1>1, <1>2, <1>4 DEF RoundInv, SignedInv, Request
  <2> QED BY <1>1, <1>2, <1>4, <2>1 DEF Expected
<1> QED BY <1>3, <1>4

LEMMA SettleSteps ==
  ASSUME RoundInv, Settle
  PROVE  RoundInv'
<1>1. UNCHANGED vars
  BY DEF Settle, Built, BuildClaim, BuildSubmit, SendOk, RequestFails
<1>2. BuilderInv' /\ UNCHANGED <<pc, result>>
  BY <1>1, BuilderNextInv DEF RoundInv, vars
<1>3. UNCHANGED <<signed, accepted>> => SignedInv'
  <2>1. UNCHANGED <<build_claim_tx, build_submit_tx>>
    BY <1>2 DEF build_claim_tx, build_submit_tx, build_worker_proof, AgencIx, Sha256
  <2> QED BY <2>1 DEF RoundInv, SignedInv, Request
<1>4. CASE Built
  BY <1>2, <1>3, <1>4 DEF Built, RoundInv, SettleInv, Settling
<1>5. CASE BuildClaim
  <2>1. /\ leg = "build_claim" /\ Len(signed) = 0 /\ pc = "ok"
        /\ SignFor(Expected(1), Request(1)) /\ accepted' = accepted
    BY <1>5 DEF BuildClaim, Expected, Request, RoundInv, SettleInv, Settling
  <2>2. /\ SignedInv' /\ leg' \in {"claim", "failed"}
        /\ leg' = "claim" => Len(signed') = 1
    BY <1>1, <2>1, SigningKeeps DEF Expected
  <2> QED BY <1>2, <2>1, <2>2 DEF RoundInv, SettleInv, Settling
<1>6. CASE BuildSubmit
  <2>1. /\ leg = "build_submit" /\ Len(signed) = 1 /\ pc = "ok"
        /\ "claim" \in accepted
        /\ SignFor(Expected(2), Request(2)) /\ accepted' = accepted
    BY <1>6 DEF BuildSubmit, Expected, Request, RoundInv, SettleInv, Settling
  <2>2. SignedInv' /\ leg' \in {"submit", "failed"}
    BY <1>1, <2>1, SigningKeeps DEF Expected
  <2> QED BY <1>2, <2>1, <2>2 DEF RoundInv, SettleInv, Settling
<1>7. CASE SendOk
  <2>1. /\ leg \in Legs /\ accepted' = accepted \union {leg} /\ UNCHANGED signed
        /\ leg' = IF leg = "claim" THEN "build_submit" ELSE "done"
    BY <1>7 DEF SendOk
  <2>2. SignedInv'
    <3>1. UNCHANGED <<build_claim_tx, build_submit_tx>>
      BY <1>2 DEF build_claim_tx, build_submit_tx, build_worker_proof, AgencIx, Sha256
    <3> QED BY <2>1, <3>1 DEF RoundInv, SignedInv, Request, Legs
  <2> QED BY <1>2, <2>1, <2>2 DEF RoundInv, SettleInv, Settling, Legs
<1>8. CASE RequestFails
  BY <1>2, <1>3, <1>8 DEF RequestFails, RoundInv, SettleInv, Settling, Legs
<1> QED BY <1>4, <1>5, <1>6, <1>7, <1>8 DEF Settle

LEMMA RoundNext == RoundInv /\ [RoundtripNext]_roundVars => RoundInv'
<1>1. ASSUME RoundInv, UNCHANGED roundVars PROVE RoundInv'
  <2>1. UNCHANGED vars /\ UNCHANGED settleVars
    BY <1>1 DEF roundVars
  <2> QED BY <1>1, <2>1, BuilderSteps
<1>2. ASSUME RoundInv, Next, UNCHANGED settleVars PROVE RoundInv'
  BY <1>2, BuilderSteps
<1> QED BY <1>1, <1>2, SettleSteps DEF RoundtripNext

LEMMA RoundInvariance == RoundtripSpec => []RoundInv
BY RoundInit, RoundNext, PTL DEF RoundtripSpec

-----------------------------------------------------------------------------
\* Each message carries instructions the sidecar may answer with.
LEMMA RoundTypes == RoundInv => RoundtripTypeOK
<1> SUFFICES ASSUME RoundInv PROVE RoundtripTypeOK
  OBVIOUS
<1>1. ASSUME NEW i \in DOMAIN signed
      PROVE  signed[i].ixs \in Seq(Instructions(signed[i].request))
  <2>1. signed[i].ixs \in Answers(signed[i].request)
    BY DEF RoundInv, SignedInv, SignedFor
  <2>2. PICK n \in 0..MaxIxs : signed[i].ixs \in [1..n -> Instructions(signed[i].request)]
    BY <2>1 DEF Answers
  <2> QED BY <2>2, RoundtripAssumption
<1> QED BY <1>1 DEF RoundInv, BuilderInv, SignedInv, RoundtripTypeOK, Settling

LEMMA OneOrTwo ==
  ASSUME NEW n \in Nat, n <= 2, NEW j \in 1..n
  PROVE  j = 1 \/ (j = 2 /\ n = 2)
OBVIOUS

\* The order in which the kinds are signed.
LEMMA TurnsAreKept == RoundInv => SignsInTurn
<1> SUFFICES ASSUME RoundInv PROVE SignsInTurn
  OBVIOUS
<1>1. ASSUME signed # <<>> PROVE live # NoApp /\ session.status = "done"
  BY <1>1 DEF RoundInv, SettleInv, BuilderInv, PromotesWhatIsDone
<1>2. ASSUME NEW i \in DOMAIN signed, NEW kind \in AgenC(signed[i].ixs)
      PROVE  \/ kind = "claim" /\ i = 1
             \/ kind = "submit" /\ i = 2 /\ "claim" \in accepted
  <2>1. i \in 1..Len(signed) /\ Len(signed) <= 2 /\ Len(signed) \in Nat
    BY DEF RoundInv, SignedInv
  <2>2. Len(signed) = 2 => "claim" \in accepted
    BY DEF RoundInv, SignedInv
  <2>3. i = 1 \/ (i = 2 /\ Len(signed) = 2)
    BY <2>1, OneOrTwo
  <2>4. assert_expected(signed[i].ixs, {Expected(i)})
    BY DEF RoundInv, SignedInv, SignedFor
  <2>5. kind = Expected(i)
    BY <2>4, AssertedMeansAlone
  <2> QED BY <2>2, <2>3, <2>5 DEF Expected
<1> QED BY <1>1, <1>2 DEF SignsInTurn

\* A submit built as asked carries the request, and the request the hash.
LEMMA SubmitsCommit == RoundInv => SubmitsWhatWentLive
<1> SUFFICES ASSUME RoundInv, NEW i \in DOMAIN signed,
                    AsAsked(signed[i]), AgenC(signed[i].ixs) = {"submit"}
    PROVE LET artifact == AppHash(LiveAsShown)
              body == [task |-> Task, job |-> Session, artifact |-> artifact]
              proof == Sha256([body |-> body, signature |-> [by |-> "wallet", over |-> body]])
          IN  /\ live # NoApp
              /\ AgencIx("submit", Task, [proofHash |-> proof, resultData |-> artifact])
                   \in {signed[i].ixs[j] : j \in DOMAIN signed[i].ixs}
  BY DEF SubmitsWhatWentLive
<1>1. signed # <<>> /\ pc = "ok"
  BY DEF RoundInv, SettleInv
<1>2. live # NoApp /\ result = AppHash(LiveAsShown)
  BY <1>1 DEF RoundInv, BuilderInv, PromotesWhatIsDone
<1>3. signed[i].request = build_submit_tx
  <2>1. AgenC(signed[i].ixs) = {Expected(i)} /\ signed[i].request = Request(i)
    BY AssertedMeansAlone DEF RoundInv, SignedInv, SignedFor
  <2> QED BY <2>1 DEF Expected, Request
<1>4. PICK j \in DOMAIN signed[i].ixs : signed[i].ixs[j] = build_submit_tx
  BY <1>3 DEF AsAsked
<1> QED BY <1>2, <1>4 DEF build_submit_tx, build_worker_proof

-----------------------------------------------------------------------------
(***************************************************************************)
(* Type correctness of the settlement of a job.                            *)
(***************************************************************************)
THEOREM RoundTypeCorrect == RoundtripSpec => []RoundtripTypeOK
BY RoundTypes, RoundInvariance, PTL

(***************************************************************************)
(* Nothing is signed before the app is live, no submit instruction before a*)
(* claim message was taken, no claim instruction from then on, and no other*)
(* instruction of the AgenC program, whatever instructions and however many*)
(* of them the sidecar answers with (tx.rs 63-105, worker.rs 207-254).     *)
(***************************************************************************)
THEOREM AlwaysSignsInTurn == RoundtripSpec => []SignsInTurn
BY TurnsAreKept, RoundInvariance, PTL

(***************************************************************************)
(* A signed submit whose transaction is what the sidecar was asked for     *)
(* carries the server's hash of the live app (as the done snapshot showed  *)
(* it) and the wallet's proof of it, for the task and the session of the   *)
(* job (work.rs 280-318, worker.rs 224-254).                               *)
(***************************************************************************)
THEOREM AlwaysSubmitsWhatIsLive == RoundtripSpec => []SubmitsWhatWentLive
BY SubmitsCommit, RoundInvariance, PTL

(***************************************************************************)
(* The session of a job keeps its promises also as a part of the whole:    *)
(* the right tier for each turn, and only a finished app goes live         *)
(* (builder.rs 263-361).                                                   *)
(***************************************************************************)
THEOREM AlwaysDrivesRight == RoundtripSpec => [](TurnsOnTheRightTier /\ PromotesWhatIsDone)
<1>1. RoundInv => TurnsOnTheRightTier /\ PromotesWhatIsDone
  BY DEF RoundInv, BuilderInv
<1> QED BY <1>1, RoundInvariance, PTL
=============================================================================
