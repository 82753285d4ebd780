# A verification of nexus-client

`nexus-client` lets the owner of a machine with a local inference server earn
from it.  The repository holds the client (`src/src`) and the crate it uses to
work on AgenC jobs (`src/agenc-worker`).  This directory models its components
in TLA+, checks them with TLC, and proves their safety properties with TLAPS.
Paths below are those of `PROJECT.json`; `run.rs` is `src/src/run.rs`
and so on, `builder.rs`, `worker.rs` and `tx.rs` are in `src/agenc-worker/src`.

## The system

| Component | Code | State | Operations | Module |
|---|---|---|---|---|
| Pull loop (`start`) | `run.rs` | socket, handshake, job in service, backoff | dial, challenge/authenticate/ready, serve a job, time limit, reconnect, ctrl-c | `PullLoop`, `JobAnswer` |
| SSE streaming of a job | `run.rs` 284-368, `protocol.rs`, `limits.rs` | line buffer, bytes sent, last usage | read a network chunk, drain lines, send deltas, end | `SseStream` |
| Stake command | `main.rs` `cmd_stake`, `solana_stake.rs`, `wallet_auth.rs` | amount, blockhash, signature, attempts | balance gate, sign, send, poll until final, log in, record | `Stake` |
| Client directory | `keys.rs`, `config.rs`, `main.rs` (all commands) | three files on disk | init; the loads of `status`, `earnings`, `stake`, `start`, `work` | `ClientDir`, `Directory` |
| Provider loop (`work`) | `main.rs` `cmd_work`, `work.rs`, `worker.rs`, `tx.rs` | backoff, MCP child, job of the iteration | register, discover, build, claim, submit, wait | `WorkLoop`, `Settlement` |
| Job selection | `work.rs` 118-194 | candidate so far | look at a job | `JobSelect` |
| Builder session | `builder.rs` 212-361 | phase, status and files of the last poll, tier pin, budget | sign in, create, poll, pin the tier, advance, promote | `Builder` |
| Settlement of one job | `work.rs` `work_once`, `worker.rs`, `tx.rs` | leg, signed transaction | build, assert, sign and send the claim and the submit | `Roundtrip` |
| MCP transport | `builder.rs` 37-162 | child process, request id | call a tool | partly: calls are answered, fail or hang (`Builder`); the life of the child (`WorkLoop`) |
| Proof and manifest hashing | `proof.rs`, `manifest.rs` | none | hash files, build and sign a proof | as terms in `Builder` and `Roundtrip` |
| `status`, `earnings`, command line | `main.rs` | none | read and print | partly: what they load and when (`ClientDir`) |

The client is a single process that uses one async task per command, so that
concurrency is that of the process with its surroundings (gateway, upstream,
RPC node, board, MCP child, user, and other processes on the same wallet,
directory or board), and of `select!` and `timeout`, which drop a future at
whatever await it is in.  What is hard is therefore: an await that ends in
another way than the one it was written for; a message or a timer that comes
between two awaits; an answer that is lost after its request took effect; a
state read before an await and used after it; limits met exactly.  The list is
in `PROJECT.json` under `hazards`, each at its line with the properties that
cover it or the reason why none does.

## The modules

**JobAnswer** is the promise made to the gateway about the jobs of one
connection: jobs are served one at a time; an answer is chunks and then a
terminal frame, within the output limit; the time limit may overrule a job
until its answer has left; a lost connection forgets all.

**PullLoop** is `run.rs`.  `pc` is the await the single task is in: `dial`,
`backoff`, the awaits of the handshake, `idle` (reading in the job loop), `post`
and `stream` (the upstream), and the sends.  Each action is what happens when
that await ends: a frame is received (`Recv...`), the upstream delivers
(`Upstream...`), a flush completes or fails (`SendOk`, `SendFails`), the timer
drops the job's future (`JobTimeout`), ctrl-c drops the whole loop (`CtrlC`).
`Sink::send` queues the frame at once and then awaits the flush: a frame is in
`answer` when the await begins.  Frames are records of a kind and what the
client looks at; a nonce is its length in characters and in decoded bytes.
The gateway, the network and the user are external: the gateway may send any
frame at any time, and need not drain its socket.  PullLoop implements
JobAnswer under the mapping `Stage`, which reads the stage of a job off `pc`.

**SseStream** opens the await `stream` of PullLoop: a response body is a string over
a small alphabet (see the module), cut into chunks in every way; the actions are
the reading of one chunk and the handling of one line, with the two limits.
What a response means is said beside that and without the actions: from the positions
of the line feeds in the whole text (`Ends`), those before `[DONE]` (`LiveEnds`),
and those of the lines that carry a delta or a usage (`DeltaEnds`, `UsageEnds`);
an unfinished last line counts as a line (`Closed`).  A usage beside a content
(`B1`) is a usage there, although the code drops it: `DoneIsComplete` names the two things
that a response may carry and `done` does not vouch for.

**Stake** has several runs of `stake` on one wallet.  A transaction is its
amount and its blockhash, which is what decides its signature: two runs may
have the same one.  The RPC node may lag or lose its answer, the chain may
expire or fail a transaction, a run may be killed at any await.

**Directory** is what the users of a client directory may rely on: it has at most
one owner, it is absent, partial, whole or safe, and a command serves the owner.
Power may take back what is whole; what is safe, on disk as a whole, only the user
takes back.

**ClientDir** has several inits and several other commands on one directory.  A
file is absent, empty, written, or written and synced, and knows the init that
wrote it; power may be lost, a call may fail, a process may be killed between
any two calls, and the user may remove the directory while nothing runs.
`sync_all` (`keys.rs` 50) is of the file: it puts the content on disk.  No
code syncs the directory, nor the one it is made in (`main.rs` 680), so that the entries
of the files get there when the kernel writes them back (`WriteBack`,
`onDisk`); a loss of power before that takes files of an init that has reported
success too, which is then `"lost"`.  Each
of the five commands that read is the sequence of files it loads (`Loads`); an
empty `config.toml` is a valid one, with the defaults.  ClientDir implements Directory
under the mapping `Owner`, `Stage`, `Serves`.

**Settlement** is what the workers promise about the jobs on the chain, without
processes, delays and faults: a claim is asked for only on what the worker has
built, a submit only once its claim was granted, and the chain executes what was
asked for, at any time or never.

**WorkLoop** has several workers on one board and one chain.  `pc` is again the
await; a leg (`register`, `claim`, `submit`) is the request for a transaction
and its signature (`SignLeg`), and the sending (`SendLeg`).  The MCP child
runs from `Spawn` on, during the `initialize` handshake too (`Initialize`).  `IterationFails` is
every `Err` of the iteration: the request may have taken effect (promoted, or
accepted by the RPC node) before it failed.  `Pause` is the common end of an
iteration: it drops the child and installs the SIGINT handler, which `tokio`
never removes.  The preflight of sendTransaction is the program's own rule
(`Legal`) on the chain as it is, so that a submit sent before its claim has
landed is refused.  WorkLoop implements Settlement: built is what was `promoted`,
asked for what was `signed`, granted what was `accepted`.  Its sidecar answers
for the right task and kind, or not at all; `assert_expected` would let another task
pass, which is in Roundtrip.

**JobSelect** is the choice of a job and of the brief that goes with it, with its
integer widths scaled down.  WorkLoop has it as "a best paid of the open jobs"
(`BestPaid`).

**Builder** is `drive_builder` with the server's session beside it.  A call takes
effect and is answered in one step (`Effect`), and fails before or after its
effect (`CallFails`).  Between two calls the client looks at the snapshot
(`Decide`).  The turns of the session write files; any snapshot, a done one too, may
show them or lack the field (or have something else than an object there), and a
file is a text or some other JSON value.  A done snapshot without files commits the
hash of no files, whatever is promoted: `LiveAsShown` is the app as that
snapshot has it.  Hashes are
terms, equal for equal inputs only.  WorkLoop has all of it in the step `Build`.

**Roundtrip** extends Builder by what `work_once` does with the built app: for each
of the two legs a transaction of the sidecar is asserted, signed and sent.
A transaction is a sequence of instructions, and one of the AgenC program has a
kind (its discriminator), a task and arguments; the sidecar may answer with any
sequence of what it was asked for, other kinds, another task, and instructions
of other programs.  `assert_expected` looks at the kinds only.  The proof is
a term too: what it commits and who signed it.  WorkLoop has the same legs without their contents but with the
competition and the chain; Roundtrip has the contents of one of them.

An `MC` module is there where a constant is not a plain value (`MCPullLoop`,
`MCSseStream`, `MCJobSelect`) or for symmetry (`MCClientDir`).

Operators whose comment says "Mutant of" are wrong on purpose: a plausible bug
in the code next to them.  Nothing refers to them; `PROJECT.json` says which
property fails when one is put in the place of the definition it mutates.

## What is checked

| Run | Instance | What it shows |
|---|---|---|
| `pull_loop` | 2 jobs, 4 nonces (good, short, undecodable, overlong), output limit 2 with deltas of 1 and 2, backoff 1..3, 1 unread frame | types; answers in turn and within the limit; one proper signature per connection; JobAnswer implemented; who may stop the process; the backoff schedule; a lost socket is redialled, a job settles, ctrl-c stops, a waiting job is reached |
| `sse_stream` | bodies of up to 3 lines from two menus and an unfinished tail, chunks up to 4 bytes, buffer 6, output 4 | chunk frames are the deltas of the response; `done` means sent completely, with the last usage, but for a usage beside a content and the delta of an unfinished line; memory bounded; nothing is given up without cause |
| `stake` | 2 runs, 6 amounts around the rounding and the balance, 2 polls, 3 blockhashes | only final transfers are claimed, for their amount; success means recorded; at most one transfer per run; every run ends |
| `client_dir` | 3 inits, one reader that is any of the five commands | one writer per directory, never overwritten, never torn once success is reported, never read as a mixture; Directory implemented: safe once its entries are on disk |
| `job_select` | boards of up to 2 jobs from a wide menu, 3 from a narrow one; 64 bits scaled to 5 | the first of the best paid, with its own brief; widths and rounding never change a decision |
| `builder` (module `Roundtrip`) | budget 6, polls of 2 seconds, 3 tasks of a plan, 2 files with 2 texts, 2 AgenC tasks, transactions of up to 2 instructions | turns run on the right tier; only a finished session goes live, with the hash of what went live (as the done snapshot showed it); the wallet signs in turn: nothing before the app is live, a submit only after an accepted claim; a signed submit that was built as asked commits, with its proof, what is live; the round ends |
| `work_loop` | 2 workers, 1 job, 1 failure | Settlement implemented: nothing is claimed before it is built or submitted before it is claimed; no child outlives its iteration, from the handshake on; no spinning; the loop goes on |
| `pull_loop_terminal` | as `pull_loop`, smaller | **violated**: two terminal frames |
| `sse_two_byte` | a two-byte character | **violated**: the deltas do not reassemble the content |
| `stake_confirm` | | **violated**: one failed request ends the polling |
| `work_loop_ctrl_c` | 1 worker | **violated**: ctrl-c during an iteration is lost |
| `work_loop_retry` | 1 worker, 2 jobs, no failure | **violated**: a claimed job is not submitted |

The bounds are enough for what the properties tell apart.  A second job is what
"in turn" and "in line" are about, a third would only wait behind the second.
A delta of size 2 against a limit of 2 meets the limit exactly and exceeds it;
three values of the backoff show the start, a doubling and the cap.  One unread
frame still lets the gateway send any sequence of frames, and a job wait behind
another.  Chunks of up to 4 bytes over lines of 2 to 8 cut within a line,
between CR and LF, and over several lines; the buffer of 6 lies between the
short and the long lines.  Two runs, workers or inits are a race; the third
init of `client_dir` comes after a crash and a removal.  Two instructions are
the expected one with another, or twice; a second task is one that is not the job's.  Two files with two texts
differ in a name, in a text and in its JSON type; a budget of three
polls may run out in every phase and may suffice for all of them.  One failure in
`work_loop` may hit any call; refusals by the preflight are not counted.

`sse_stream` has 152,530 distinct states, `client_dir` 155,681, `builder` 243,657 and
`work_loop` 413,362.

`CHECK_DEADLOCK FALSE` is in every cfg: a command that ended, a socket that
stays silent and a board without jobs are legal ends.

**Fairness.**  `PullLoop!FairSpec`: the dial and the backoff end, a frame that
arrived is read, the timer fires, a signal is seen, and a write to a dead
socket ends, since these are steps of the runtime and of the kernel.  Nothing is
assumed of the upstream or of the gateway; only `QueuedJobAnswered` says in its
own statement that the gateway drains (`Draining`).  `Stake!FairSpec`: a run
takes its next step, as each request is answered or fails.  `RoundtripSpec`:
the same for the calls of tools and for the requests to sidecar and RPC node;
the code has no timeout for the former: `RoundEnds` rests on it.  Nothing is
assumed of the session on the server.  `WorkLoop!FairSpec`: every await of a
worker ends, transactions land or expire, the board catches up.

### Divergences from the documentation

The five violated runs show, each with the line and the words of the document
it disagrees with (`findings`):

1. The job timer also covers the flush of the terminal frame: `done` may be
   followed by `job_error` (`run.rs` 265-277 against `protocol.rs` 14-16).
2. Chunks are decoded one by one: a character cut by a chunk boundary becomes
   replacement characters (`run.rs` 323 against `tests/loop_test.rs` 226).
3. In `confirm_finalized` a single failed request ends the polling, with the
   transfer sent and the stake not recorded (`solana_stake.rs` 326 against 316-317).
4. Ctrl-C while `work` is in an iteration is lost once the first delay has
   installed the handler (`main.rs` 646 against 107).
5. A submit that fails after the claim was taken is never tried again: the job
   is no longer open on the board (`work.rs` 316 against 258-259).

Met while modelling, without a run of their own:

- the signature covers a tag and the nonce, not the raw nonce that
  `protocol.rs` 10-12 and 29-30 speak of (`run.rs` 181);
- the buffer is measured before complete lines are drained, so that it may be
  "oversized" with a line feed in it (`run.rs` 327, `limits.rs` 60-61);
- a usage on a line with content is dropped (`protocol.rs` 131-139), where 100-101 has
  "whatever the upstream reported"; the delta of a last line without a
  line feed is dropped too, and `done` sent (`run.rs` 362-367).  `DoneIsComplete`
  excepts both by name;
- `assert_expected` (`tx.rs` 63-105) says that the transaction is "EXACTLY what we
  expect", and `worker.rs` 211-212 that "a tampered tx aborts": it
  compares discriminators, so that a claim of another task, two claims in one
  transaction, or a submit with other data are signed.  `SignsInTurn` says what remains,
  and `SubmitsWhatWentLive` is about a sidecar that answered as asked (`AsAsked`);
- a done snapshot without `files` commits the empty-manifest hash for an app that
  has files (`builder.rs` 286, 351-358): a comment there knows of the edge, but `work.rs`
  284-286 and `manifest.rs` 5-10 have client and server agree on the hash
  of the promoted app;
- the success of init does not survive every loss of power: the contents are synced,
  the directory entries are not (`keys.rs` 48-51, `main.rs` 680);
- an init that died after creating `node_key` makes every later one answer
  "already initialized" (`main.rs` 657-663);
- the budget of `drive_builder` is looked at between calls, and a call has no
  timeout (`builder.rs` 263, 269);
- `work` builds before it claims, `README.md` 118 has it the other way round.

## What is proved

Each `...Proofs` module holds the proofs about one component, for every value of
its constants that satisfies the assumptions next to their declaration:

| Module | Theorem | States |
|---|---|---|
| `JobAnswerProofs` | `AnswersAlwaysInTurn` | JobAnswer keeps jobs in turn, in good order and within the limit |
| `PullLoopProofs` | `TypeCorrect` | `TypeOK` |
| | `AlwaysSignsOneChallenge` | at most one signature per connection, of the tag and a nonce of the right length |
| | `AlwaysOnSchedule` | every disconnect and nothing else moves the backoff, between its floor and its ceiling |
| | `AlwaysStopsDeliberately` | only ctrl-c and a rejected handshake end the process |
| | `Implementation` | PullLoop implements JobAnswer |
| | `AlwaysInTurn` | `AnswersInTurn`, from the two above |
| `StakeProofs` | `TypeCorrect` | `TypeOK` |
| | `AlwaysClaimsFinal` | only final transfers are claimed, for the amount of the run |
| | `AlwaysRecorded` | success means recorded |
| | `AlwaysFewTransfers` | no more transfers than runs |
| `ClientDirProofs` | `TypeCorrect` | `TypeOK` |
| | `AlwaysOneWriter` | two inits never mix their files |
| | `NeverTorn` | a successful init's files are whole with their contents on disk, and a loss of power leaves none of them torn |
| | `AlwaysOneIdentity` | a command acts for the identity of one init |
| | `KeysAreNeverOverwritten` | a whole file is never written again |
| | `Implementation` | ClientDir implements Directory |
| `JobSelectProofs` | `TypeCorrect` | `TypeOK` |
| | `AlwaysSelectsTheBestPaid` | the first of the best paid claimable jobs, for every board |
| | `AlwaysDecidesExactly` | saturation and rounding never change a decision |
| `SseStreamProofs` | `TypeCorrect` | `TypeOK` |
| | `AlwaysBounded` | buffer and output stay within their limits, for every response |
| | `AlwaysFollows` | the chunk frames are the deltas of an ASCII response, in order |
| | `AlwaysComplete` | `done` means a complete response with its last usage, but for the two exceptions it names |
| | `AlwaysAbortsForCause` | a limit error has its reason in the response |
| `RoundtripProofs` | `TypeCorrect` | `TypeOK` of Builder |
| | `AlwaysOnTheRightTier` | each turn of a session runs on the tier of its phase |
| | `AlwaysPromotesDone` | only a finished session goes live, with the hash of the app as the done snapshot showed it |
| | `RoundTypeCorrect` | `RoundtripTypeOK` |
| | `AlwaysSignsInTurn` | built before claimed, claimed before submitted, in everything a wallet signs |
| | `AlwaysSubmitsWhatIsLive` | a signed submit that was built as asked commits, in result and proof, the app that is live |
| | `AlwaysDrivesRight` | the two properties of the session, within the round |
| `WorkLoopProofs` | `TypeCorrect` | `TypeOK` |
| | `AlwaysSettlesInOrder` | no claim before a build, no submit before an accepted claim |
| | `Implementation` | WorkLoop implements Settlement |
| | `AlwaysDeliveredByRight` | a job is held only by a registered worker that built it, and delivered only for its holder |
| | `AlwaysPauses` | no poll without a delay except after a submitted result |
| | `AlwaysDropsChildren` | no MCP child outlives its iteration, whether its handshake succeeds or not |

**The arguments.**

*PullLoop.*  `TypeOK` is not inductive in what it says of the jobs.  The
invariant `Inv` adds four parts to it: `InboxInv` (what the gateway has sent is
distinct from what was taken, so that a job is not taken twice), `JobInv` (a job
is in service exactly in the awaits of a job, and `total` is what was sent for
it), `SignInv` (what was signed belongs to where the handshake is) and
`BackoffInv` (the delay is one of the schedule).  Implementation needs `Inv` at
two places: the job that is read was not taken before, and the running total is
the total of JobAnswer.  JobAnswer is proved under the hypothesis `Sizes` on its
constants, which PullLoop's assumptions imply; AlwaysInTurn instantiates that
theorem with `Stage`.  AlwaysStopsDeliberately needs that a close frame is only
ever sent for ctrl-c (`CloseInv`).

*Stake.*  `RunInv` says what a run knows in each await (its amount is positive;
its transaction is of its amount once it was sent), `SentInv` that every
transfer on the chain is the `Signed` transaction of a run that has reached
the sending.  AlwaysFewTransfers then follows by counting: the transfers are the
image of a subset of the runs.  It needs the runs to be finitely many.

*ClientDir.*  `HoldInv`: the init that has created `node_key` finds its earlier
files done, the one it is at as it left it, and the later ones absent.  This is
what makes the exclusive creation of the first file protect the other two, and
it survives a loss of power, which kills the inits that are under way; one that has
succeeded keeps all of its files, or is `"lost"` from then on.  `LostInv` says
of such an init that what is left of its files is whole and synced.  The refinement
needs that entries are lost latest first: if any file is left then `node_key` is,
and with it the owner.
`ReadInv`: what a command has read so far is the owner's, and it will have read a
key by the time it runs; hence OneIdentity and, under the refinement, `Serve`.

*JobSelect.*  After n jobs the candidate is the first of the best paid of the
claimable among them (`Least`, `Worth`, `Best`).  DecidesExactly is a lemma of
arithmetic (`Exact`) on `should_claim` and the saturated estimate: where the
estimate saturates, no i64 reward with a margin of at most one pays for it.  It
assumes `MarginDen # 0`: over zero the code refuses every job (`work.rs` 135).

*Builder and Roundtrip.*  `EarlyInv` (nothing exists on the server before the
create), `TierInv` (a pinned tier is the community tier, and the approval of the
plan is only sent when it is pinned) and `DoneInv` (a session seen done stays as it
was seen; so promoting what the server has and hashing what was polled agree).
PromotesWhatIsDone follows also for a snapshot without files, since `LiveAsShown` and `files_from_json`
are both empty then.  `SettleInv` adds that the settlement begins after a
successful drive and how many messages are signed in each of its awaits, and
`SignedInv` that the first message was checked against the claim, the second
against the submit after an accepted claim, each with the request it was
signed for.  Roundtrip's invariant is Builder's together
with its own: the steps of one leave the state of the other alone.

*WorkLoop.*  `Local(w)` says what worker w has done by the time it stands where
it stands (promoted its job when claiming, had its claim accepted when
submitting, a zero delay only after a submit).  It speaks of w and of sets that
only grow, so that steps of other workers, of the chain and of the board
preserve it by one lemma.  With `SettlesInOrder` it is all that the refinement of
Settlement needs: a step that signs is `Ask`, and its guards are `Local`; a landing
is the chain's step for that transaction, which was signed, since only signed
transactions are pending, or no step when it is no longer legal.
AlwaysDeliveredByRight is a consequence of Settlement (`DeliveredByRight`) and is proved along its
steps (`RightKept`): a job that was delivered is held by somebody, since its submit was
signed by its holder, so no later claim can be executed on it.

*SseStream.*  `BoundedInv` holds for every response: the buffer is within the
limit plus what one chunk may decode to (a byte that is cut off becomes a
replacement character of three), `total` is the size of what was sent, and there is no
complete line in the buffer between two reads.  `FollowsInv` holds
for responses in ASCII: with `Taken`, the number of bytes that have left the
buffer, the buffer is the response from there to what has arrived, it begins at
the beginning of a line, and what was sent and kept is what the lines up to there
carry, with no `[DONE]` among them before the end.  Then every property follows when
all lines are taken: in DoneIsComplete nothing but an unfinished line is left,
in NoSpuriousAbort the buffer that overran the limit is a stretch without a line
feed.  What the operators of the model compute is proved by induction, with the
least number principle in the place of the library's induction theorems, whose
operator parameter none of the provers takes: `LeastNumber`,
`Induction` over subsets of the numbers, and `Recursion`, which gives a function
that is defined by recursion its recurrence.  From these come the sums (`Total`,
`ByteLen`), the order of positions (`InOrder`), and decoding (`LossyOfAscii`).

**Assumptions**: those of the modules.  The placeholders (`NoJob`, `NoTx`,
`NoFile`, `NoOne`, `Null`, `NoApp`, `None`) are not values of what they stand in for;
limits are natural numbers; the lower bound of a backoff is positive and at
most the upper; the runs of Stake are finitely many; jobs of JobSelect are of
the declared type and a margin is at most one; responses are sequences of bytes.
The three theorems on the contents of a response assume `Ascii`: no byte of it
belongs to a longer character.  They are false without: `sse_two_byte` shows a character
cut by a chunk boundary, which becomes another text.  What is bounded is bounded
without this assumption.

**Only model-checked.**  The liveness properties, since the prover does not do
fairness: the four of PullLoop (`LostSocketIsRedialled`, `JobSettles`, `CtrlCStops`,
`QueuedJobAnswered`), those of Stake, Roundtrip and WorkLoop (`RunEnds`, `RoundEnds`,
`KeepsWorking`).  Every safety property of a passing run is a theorem.

## What is not modelled

The text of messages and its filter, JSON and base64, the order of bytes in a
serialization that is hashed, the encodings of keys, the URL check of the
upstream and the contents of the config: pure functions of strings.  So is
`sanitize_job_body` in `limits.rs`, which keeps the allowed keys of a job's
body, clamps `max_tokens` and sets `model` and `stream`: what the upstream is
asked for does not influence any control in the client.  The sizes of websocket
frames are enforced by the library.  The JSON-RPC framing of the MCP child.  Of `status` and
`earnings`, what is printed and the one request of earnings, which changes nothing;
of the command line, clap's parsing.  TLS, DNS and HTTP below a request that is
answered, fails, or takes effect without an answer.  The servers, the chain and
the MCP child are external and as free as the client's code allows, but for three
assumptions.  The sidecar of WorkLoop answers for the right task and kind or not at all
(Roundtrip's may answer anything).  The file system brings the entries of a directory to disk in
the order they were made in, as one with a journal does, and its removal at once: entries lost
out of order are not in ClientDir.  And a snapshot that has files shows
those of the session: that the server's snapshot is true is its own matter.

Hashes are terms, equal for equal inputs only.  For `manifest_hash` this goes a step
further than for a hash function: the code joins lines `path:hash` with a line
feed (`manifest.rs` 23-29), so that a path with a line feed in it could make two
bundles one text; the model hashes the set of its lines.

## Plan

Done, in this order: JobAnswer and PullLoop with their proofs, SseStream, Stake,
ClientDir, JobSelect, Builder, WorkLoop; Directory and the readers of
ClientDir, the files and hashes of Builder, Roundtrip, and the proofs of all
of them; then the proofs of SseStream, Settlement and its refinement.  What would be
next:

1. That a leg of Roundtrip is a leg of Settlement: one worker with all of the contents of
   its transactions, against the promise that WorkLoop keeps without them.
2. Two sessions of Builder on one parcel, for the order of build and claim.  It
   needs to know whether the server lets two sessions promote into one parcel.
3. The login of `earnings`, with a token that expires between its two requests.
