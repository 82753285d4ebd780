------------------------------ MODULE Builder ------------------------------
(***************************************************************************)
(* drive_builder in src/agenc-worker/src/builder.rs 212-361: a worker signs*)
(* in over the MCP, opens a Builder session, polls it and approves what it *)
(* waits for, pins the community tier on the way, promotes the result and  *)
(* hashes its files (manifest.rs).  WorkLoop has the whole of it as a      *)
(* single step; Roundtrip goes on with what the hash is for.               *)
(*                                                                         *)
(* The session lives on the server (external: modelled from the phases,    *)
(* statuses and actions that builder.rs knows).  A call of a tool takes    *)
(* effect and is answered in one step, but may take any time before that,  *)
(* fail, or never be answered at all; the server goes on in between.       *)
(* Time is in seconds, and only matters to the budget.                     *)
(***************************************************************************)
EXTENDS Naturals, FiniteSets

CONSTANTS
  Budget,    \* budget_secs
  Poll,      \* seconds slept between two polls
  MaxTasks,  \* execute tasks of a plan (a bound of the model)
  Paths,     \* file names
  Texts,     \* file contents, as text
  Null,      \* a snapshot whose `files` are absent, or are not an object
  NoApp      \* nothing promoted in the parcel

ASSUME BuilderAssumption ==
  Budget \in Nat /\ Poll \in Nat \ {0} /\ MaxTasks \in Nat \ {0}

\* An app is a JSON object { name: contents }.  A value that is not a string
\* has its compact serialization as its text.
Contents == [json : {"string", "other"}, text : Texts]
Apps == UNION {[P -> Contents] : P \in SUBSET Paths}
NoFiles == [p \in {} |-> Null]

ASSUME NullAssumption == Null \notin Apps /\ NoApp \notin Apps

VARIABLES
  pc,           \* the await drive_builder is in, or its result
  tier_pinned,
  snap,         \* the last nexus_builder_status
  result,       \* artifact_sha256, NoApp before it is there
  clock,        \* start.elapsed()
  session,      \* the server's session: phase and status
  model_tier,   \* its tier
  turns,        \* the turns that were run, with the tier of each
  tasks,        \* how many tasks it has run
  draft,        \* the files it has made
  live          \* the app of the parcel: the promoted draft

vars == <<pc, tier_pinned, snap, result, clock,
          session, model_tier, turns, tasks, draft, live>>
clientVars == <<tier_pinned, snap, result>>
serverVars == <<session, model_tier, turns, tasks, draft, live>>

Calls == {"challenge", "verify", "create", "status", "tier", "advance",
          "promote"}
Polling == {"check", "status", "decide", "tier", "advance", "sleep"}
Phases == {"brainstorm", "plan", "execute"}
\* "settling" is any status builder.rs does not know.
Statuses == {"running", "waiting_approval", "waiting_user", "settling",
             "done", "error"}
Snap == [phase : Phases, status : Statuses, files : Apps \union {Null}]
NoSession == [phase |-> "brainstorm", status |-> "none"]

-----------------------------------------------------------------------------
\* Hashes are terms: equal only for equal inputs.
Sha256(x) == [sha256 |-> x]

\* Mutant of files_from_json: what is not a string is left out.
files_from_strings(files) ==
  IF files = Null THEN {}
  ELSE {<<p, files[p].text>> : p \in {q \in DOMAIN files : files[q].json = "string"}}

\* The bundle of (path, bytes) of a snapshot.
files_from_json(files) ==
  IF files = Null THEN {} ELSE {<<p, files[p].text>> : p \in DOMAIN files}

\* The lines "path:sha256" of a bundle are sorted before they are hashed: what
\* is hashed is their set.
manifest_hash(bundle) == Sha256({<<f[1], Sha256(f[2])>> : f \in bundle})

\* The hash that the server commits for an app.
AppHash(app) == Sha256({<<p, Sha256(app[p].text)>> : p \in DOMAIN app})

TypeOK ==
  /\ pc \in Calls \union Polling \union {"ok", "failed"}
  /\ tier_pinned \in BOOLEAN
  /\ snap \in Snap
  /\ result \in {AppHash(app) : app \in Apps} \union {NoApp}
  /\ clock \in 0..Budget + Poll
  /\ session \in [phase : Phases, status : Statuses] \union {NoSession}
  /\ model_tier \in {"premium", "community"}
  /\ turns \subseteq Phases \X {"premium", "community"}
  /\ tasks \in 0..MaxTasks
  /\ draft \in Apps
  /\ live \in Apps \union {NoApp}
  /\ pc = "sleep" => snap.status \notin {"done", "error"}

Init ==
  /\ pc = "challenge"
  /\ tier_pinned = FALSE
  /\ snap = [phase |-> "brainstorm", status |-> "running", files |-> Null]
  /\ result = NoApp
  /\ clock = 0
  /\ session = NoSession
  /\ model_tier = "premium"
  /\ turns = {}
  /\ tasks = 0
  /\ draft = NoFiles
  /\ live = NoApp

-----------------------------------------------------------------------------
\* The server starts a turn of phase p, on the session's tier.
StartTurn(p) ==
  /\ session' = [phase |-> p, status |-> "running"]
  /\ turns' = turns \union {<<p, model_tier>>}
  /\ UNCHANGED <<model_tier, tasks, draft, live>>

\* What a status waits for.
ActionFor(s) ==
  CASE s.phase = "brainstorm" /\ s.status = "waiting_approval" -> "approve_spec"
    [] s.phase = "plan" /\ s.status = "waiting_approval" -> "approve_plan"
    [] s.phase = "execute" /\ s.status = "waiting_user" -> "next_task"
    [] OTHER -> "none"

\* What the call in flight does on the server, which refuses an action that
\* the session does not wait for.
Effect ==
  \/ pc = "create" /\ StartTurn("brainstorm")
  \/ /\ pc = "tier"
     /\ model_tier' = "community"
     /\ UNCHANGED <<session, turns, tasks, draft, live>>
  \/ /\ pc = "advance"
     /\ ActionFor(session) = ActionFor(snap)
     /\ StartTurn(IF ActionFor(snap) = "approve_spec" THEN "plan" ELSE "execute")
  \/ /\ pc = "promote"
     /\ live' = draft
     /\ UNCHANGED <<session, model_tier, turns, tasks, draft>>

\* nexus_auth_challenge, then nexus_auth_verify with the signed message.
SignIn ==
  /\ \/ pc = "challenge" /\ pc' = "verify"
     \/ pc = "verify" /\ pc' = "create"
  /\ UNCHANGED <<clientVars, clock, serverVars>>

Create ==
  /\ pc = "create"
  /\ Effect
  /\ pc' = "check"
  /\ UNCHANGED <<clientVars, clock>>

\* Mutant of CheckBudget: no budget.
PollsWithoutBudget ==
  /\ pc = "check"
  /\ pc' = "status"
  /\ UNCHANGED <<clientVars, clock, serverVars>>

\* The top of the loop.
CheckBudget ==
  /\ pc = "check"
  /\ pc' = IF clock >= Budget THEN "failed" ELSE "status"
  /\ UNCHANGED <<clientVars, clock, serverVars>>

\* A snapshot shows the files that there are, or none at all: the client takes
\* any snapshot, a done one without `files` too.
Shown == {draft, Null}

Status ==
  /\ pc = "status"
  /\ \E files \in Shown :
       snap' = [phase |-> session.phase, status |-> session.status, files |-> files]
  /\ pc' = "decide"
  /\ UNCHANGED <<tier_pinned, result, clock, serverVars>>

\* To an action that is waited for; the tier is pinned once, before pin_at.
Reply(action, pin_at) ==
  CASE action = "none" -> "sleep"
    [] action = pin_at /\ ~ tier_pinned -> "tier"
    [] OTHER -> "advance"

\* Mutants of Decide: the tier is pinned on entry to execute; a status it does
\* not know ends the loop; an error is one of the statuses it does not know.
PinsAtExecute ==
  /\ pc = "decide"
  /\ pc' = IF snap.status = "done" THEN "promote"
           ELSE IF snap.status = "error" THEN "failed"
           ELSE Reply(ActionFor(snap), "next_task")
  /\ UNCHANGED <<clientVars, clock, serverVars>>

PromotesUnsettled ==
  /\ pc = "decide"
  /\ pc' = IF snap.status \in {"done", "settling"} THEN "promote"
           ELSE IF snap.status = "error" THEN "failed"
           ELSE Reply(ActionFor(snap), "approve_plan")
  /\ UNCHANGED <<clientVars, clock, serverVars>>

WaitsOnError ==
  /\ pc = "decide"
  /\ pc' = IF snap.status = "done" THEN "promote"
           ELSE Reply(ActionFor(snap), "approve_plan")
  /\ UNCHANGED <<clientVars, clock, serverVars>>

Decide ==
  /\ pc = "decide"
  /\ pc' = IF snap.status = "done" THEN "promote"
           ELSE IF snap.status = "error" THEN "failed"
           ELSE Reply(ActionFor(snap), "approve_plan")
  /\ UNCHANGED <<clientVars, clock, serverVars>>

PinTier ==
  /\ pc = "tier"
  /\ Effect
  /\ tier_pinned' = TRUE
  /\ pc' = "advance"
  /\ UNCHANGED <<snap, result, clock>>

Advance ==
  /\ pc = "advance"
  /\ Effect
  /\ pc' = "check"
  /\ UNCHANGED <<clientVars, clock>>

Sleep ==
  /\ pc = "sleep"
  /\ pc' = "check"
  /\ clock' = IF clock + Poll <= Budget + Poll THEN clock + Poll ELSE clock
  /\ UNCHANGED <<clientVars, serverVars>>

\* The files of the last snapshot are hashed.
Promote ==
  /\ pc = "promote"
  /\ Effect
  /\ result' = manifest_hash(files_from_json(snap.files))
  /\ pc' = "ok"
  /\ UNCHANGED <<tier_pinned, snap, clock>>

\* A call fails before or after it took effect; the session is left as it is.
CallFails ==
  /\ pc \in Calls
  /\ pc' = "failed"
  /\ Effect \/ UNCHANGED serverVars
  /\ UNCHANGED <<clientVars, clock>>

-----------------------------------------------------------------------------
\* The server: a turn ends, in the next thing to wait for, in nothing yet, or
\* in an error; an execute turn writes a file of its task, which may be there
\* already, and may be the last one.
WithFile(app, p, c) ==
  [q \in DOMAIN app \union {p} |-> IF q = p THEN c ELSE app[q]]

TurnEnds ==
  /\ session.status = "running"
  /\ \/ /\ session.phase # "execute"
        /\ \E s \in {"waiting_approval", "settling", "error"} :
             session' = [session EXCEPT !.status = s]
        /\ UNCHANGED <<tasks, draft>>
     \/ /\ session.phase = "execute"
        /\ tasks < MaxTasks
        /\ tasks' = tasks + 1
        /\ \E p \in Paths, c \in Contents : draft' = WithFile(draft, p, c)
        /\ \E s \in {"waiting_user", "settling", "done"} :
             session' = [session EXCEPT !.status = s]
     \/ /\ session.phase = "execute"
        /\ \E s \in {"done", "error"} : session' = [session EXCEPT !.status = s]
        /\ UNCHANGED <<tasks, draft>>
  /\ UNCHANGED <<pc, clientVars, clock, model_tier, turns, live>>

Settles ==
  /\ session.status = "settling"
  /\ \E s \in IF session.phase = "execute" THEN {"waiting_user", "done"}
                                           ELSE {"waiting_approval", "error"} :
       session' = [session EXCEPT !.status = s]
  /\ UNCHANGED <<pc, clientVars, clock, model_tier, turns, tasks, draft, live>>

Answered == SignIn \/ Create \/ Status \/ PinTier \/ Advance \/ Promote \/ CallFails
Local == CheckBudget \/ Decide \/ Sleep
Server == TurnEnds \/ Settles

Next == Answered \/ Local \/ Server

Spec == Init /\ [][Next]_vars

-----------------------------------------------------------------------------
(***************************************************************************)
(* Brainstorm and plan turns run on the premium tier, every execute turn on*)
(* the community tier: approve_plan runs the first task at once, so the    *)
(* tier is pinned between the last poll of the plan and its approval       *)
(* (builder.rs 241-249, 301-316), also when calls fail.                    *)
(***************************************************************************)
TurnsOnTheRightTier ==
  turns \subseteq (({"brainstorm", "plan"} \X {"premium"})
                     \union {<<"execute", "community">>})

\* The app as the done snapshot showed it: a snapshot without `files` counts as
\* one of an app that has none (the edge builder.rs 205-211 and 338-342 name).
LiveAsShown == IF snap.files = Null THEN NoFiles ELSE live

(***************************************************************************)
(* Only a finished session goes live, and the hash that is committed later *)
(* is what the server computes for the app that went live, although client *)
(* and server hash it apart, the client from a snapshot it took before the *)
(* promotion: unless that snapshot was without `files`, when it is the hash*)
(* of the empty manifest, whatever went live (builder.rs 205-211, 338-360, *)
(* manifest.rs 15-55).                                                     *)
(***************************************************************************)
PromotesWhatIsDone ==
  /\ live # NoApp => session.status = "done" /\ live = draft
  /\ pc = "ok" => live # NoApp /\ result = AppHash(LiveAsShown)
=============================================================================
