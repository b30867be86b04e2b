# A TLA+ model of the Dora Agent backend

Dora Agent is a Go backend for an AIGC agent.  A user message becomes a durable
session input; an agent turn calls tools; tools plan specs and storyboards that
a user reviews, or create generation workflows (an operation, a batch, its
jobs); workers drive each job through a media provider, charge for it, bind the
result to a storyboard; a barrier closes the batch; and every result wakes the
session again.  Everything is at-least-once: outbox rows, Redis wake-ups,
provider and billing calls, attempts at a turn, event streams.  What makes it
correct is a handful of compare-and-swap writes, leases, idempotency keys,
frozen values and receipts, spread over many files.  This directory models
them, model-checks them with TLC on small instances, and proves the most
important consequences with TLAPS.

## 1. The parts

| Part | State | What is hard |
|---|---|---|
| job lifecycle, finalization, compensation (`generation/lifecycle_worker.go`, `finalization.go`, `generationruntime/`) | job row, lease, provider task, quote, charge, asset states, binding, refund | crash between call and write, lapsed lease, three stores and no common transaction, lost answers |
| batch barrier (`generation/barrier.go`, `command.go`, `outbox_dispatcher.go`) | batch, operation, terminal signal, finalize rows | waits for jobs and refunds, one signal, cancel races |
| session runtime (`sessionruntime/`) | inputs, session lease and fence, turns | stale owners, frozen output, priorities, one terminal event |
| agent turn (`server/runtime_processor.go`, `agent/`, `capabilityruntime/`, `modelreceipt/`, `session/`, `events/`) | receipts of the model's answers, workflows and notes under tool keys, frozen output, messages, event log, checkpoint mapping, a client's cursor | two attempts at once, replay of paid calls, projection half done, contexts, event order |
| reviews (`approval/`, `approvalruntime/`, `spec/`, `artifact/`, planning in `capabilityruntime/`) | revisions in review, approvals, decisions, continuations, ledger, outbox | a decision, its command and its record are separate transactions; retries; superseded targets |
| storyboard (`storyboard/`, the handlers and tools that command it) | plans, prompts, slots, candidates, bindings, command ledger | stale tokens, overtaken handlers, a plan in review beside the active one |
| billing, assets, configuration, HTTP reads, frontend | | I/O, or seen through one job only |

PROJECT.json lists the parts with their status and the hazards, each at the
line where it bites.

## 2. Modules

| Module | Models |
|---|---|
| `WorkflowStore` | the row of one job, `MutateJob`, leases |
| `FinalizationEngine` | `Finalize` and its failure paths |
| `LifecycleWorker` | `Process`, the provider, asset receipts |
| `CompensationService` | `Run`, `ManualFinalize`, the rows that drive them |
| `GenerationJob` | the composition of the four, the user, crashes; the properties of a job |
| `JobContract`, `AbstractJob` | what a job promises to the barrier, as operators and as a specification |
| `GenerationJobContract` | the refinement `GenerationJob => AbstractJob` |
| `GenerationBatch` | `TryFinalize`, `CancelBatch`, completion policies, finalize rows, over jobs that keep the contract |
| `SessionStore` | the rows of one session and the transactions on them: inputs, turns, lease, fences, terminal events |
| `SessionRuntime` | the managers' lanes and the durable processor over that store, in any number of processes |
| `SessionLog` | event log, model receipts, messages with the context window, checkpoint mappings, as functions on their values |
| `AgentTurn` | attempts at turns over those records, the tools, the projection, a client's event stream |
| `SpecStore`, `ArtifactStore`, `ApprovalStore`, `ContinuationStore` | the stores of a review, each operation in its memory and its PostgreSQL form |
| `ReviewIds` | the names of reviews and of the keys of their commands |
| `ReviewTargets` | what is reviewed and the commands a decision runs |
| `ApprovalRuntime` | planners, decision handlers, relay and resuming agent over these stores |
| `StoryboardAggregate` | the aggregate as a value and its commands as functions |
| `StoryboardService` | command service, repositories, and everybody who commands a storyboard |
| `MC*` | instances for TLC |
| `GenerationJobProofs` | theorems about a job: its money, its provider, its contract |
| `GenerationBatchProofs`, `SessionRuntimeProofs` | theorems about a batch and about a session |
| `StoreInvariant`, `TargetInvariant`, `ReviewInvariant` | the inductive invariant of reviews: of the approval rows, of what is reviewed, of all together |
| `ApprovalStoreProofs`, `ReviewTargetProofs`, `ApprovalProcessProofs`, `ApprovalRuntimeProofs` | lemmas about the approval rows, what is reviewed and the processes; the theorems about reviews |
| `StoryboardProofs` | the invariant of a storyboard and the theorems about it |

### One job

Every actor (a lifecycle worker, a dispatcher that runs a compensation) is a
little program: `actor[p].pc` is the next step, `actor[p].snap` its copy of the
row.  A step is one database transaction or one external call; read-only calls
are merged with the transaction that follows them, as is a `GetJob` directly
before its compare-and-swap.

* `StatusVersion` only decides whether the row has changed since the copy was
  taken.  `actor[p].fresh` is that bit, cleared by every write of somebody else.
* `lease` is `[owner, live]`.  `LeaseExpires` is the expiry of a lease whose
  owner has stopped; `LeaseLapses` (fault `lease`) that of an owner still running.
* Asset states, the storyboard binding and the ledger are variables of their
  own because they live in other transactions.  The `commit` fault is a durable
  domain commit whose job transaction is lost.
* Delays (`NextRunAt`, back-off) are abstracted: a waiting job may be processed
  at any time.  The wake-up queue is abstracted in the same way, which covers
  lost, late and duplicated wake-ups.
* Four lost compare-and-swap rounds in a row (the bound of the reload loops)
  are an error the caller returns, like a crash (`Abandon`).
* `Faults` names the kinds of failure a run allows.

Not reachable, hence not modelled: `PersistPending` in `Finalize` (lines 257-274;
results always carry asset ids).  `Discard` treats the outputs of a job together.

### A batch

`TransactBatch` locks batch, operation and jobs, so `TryFinalize` and
`CancelBatch` are single actions.  `finalize_requested` rows are identified by
their idempotency keys: one per job and trigger, one for the cancellation; a key
is inserted once, stays pending until a delivery succeeds and is never
dead-lettered.  `LateWrites` says whether a worker that lost its lease may still
write to a job that has ended.  Charge and refund transaction ids are taken to
be distinct for different jobs.

### A session

A manager has at most one lane per session; `lane[p].pc` is its next store call
or processor step.  Any lane may be overtaken between two steps.

* A `FenceToken` is only compared with the token of the lease row, which changes
  with the owner.  `fence[p]` and `claim.fence` are the results of those
  comparisons, so tokens need no bound.  `live` and `due` say on which side of
  the clock a `LeaseUntil` or an `AvailableAt` lies.
* A claim is capped by the session lease (`cappedLeaseUntil`): `LapseLease` lapses
  all claims.  A release ends the lease only; claims then lapse on their own.
* The store is `PostgresStore`, the one `cmd/aigc-agent` builds.  An error inside
  its transaction undoes what `ClaimNext` did before it (`NoInputAvailable`): the
  burial of an exhausted input lasts only if the same call claims another one.
* Failures (`Fault`: a crash, a failing store, runner or projection, a lease that
  lapses under its lane) are counted up to `MaxFaults`; leases nobody attends
  lapse freely.
* `seq` is the enqueue order and the order of user messages.  On PostgreSQL
  message and input are written in one transaction under the session lock.  The
  fallback for other stores writes them one after the other, and two concurrent
  requests may then be queued in the opposite order; that path is not modelled.
* `lane[p].seen` is the output `BeginTurn` returned, `lane[p].out` the one the
  processor works with.  `projected` collects what reached messages and events,
  as a whole; `AgentTurn` has the projection write by write.
* `Undecodable` inputs fail `DecodeInput`; a `silent` input is a batch continuation
  that needs no explanation.
* Attempts saturate at `MaxAttempts`, since only the comparison matters.

### A turn

`AgentTurn` takes from the session runtime that an input has one owner or none
and that a former owner is refused by fenced writes (`Owns`); everything else an
attempt does is unfenced and may come from several attempts at once.

* `at[w].pc` is what the attempt does next: ask the model (receipt first), run
  a tool, show progress, save the output, project it.  The tools are
  `generate_media` ("media"), `assemble_output` ("film") and a tool that
  interrupts ("ask"); the planning tools are in `ApprovalRuntime`.
* `<<input, n>>` is the receipt slot of the n-th answer and the idempotency key
  of the call it holds.  `works` and `notes` are what tools leave under it; a
  workflow's fingerprint is the storyboard version it was made from.
* `Ops` is the list of writes that the projection of an output consists of, in
  order; a row's id and source key are its position in that list
  (`deterministicTurnIDGenerator`), so a replay writes the same rows.
* A row of the event log has an uncommitted phase (`by`), held under the counter
  lock; the row before a commit is what a reader could skip.
* A resume answers the question of an earlier turn, moves its mapping through
  `resuming`, `resume_applied`, `resumed`, and says so with a resolved event.
  A confirmation of a mapping that is through already (`ResumeAgain`) publishes
  its two rows in one step, once per run.
* Contexts are message sequences (`ApplyMessageWindow`), compared with the turns
  that ended before (`ran`, a history variable).
* The mapping is read in the step that saves the output or claims the input.  A
  workflow that ends is "failed", the one status a replay reports differently.

Left out: the client filter `isClientA2UIEvent`, the wording of directives and
cards, the non-durable HTTP path (test compatibility only).

### Reviews

The stores are pure functions, each operation twice, so that `StoresAgree` can
compare them on every reachable content.  `ApprovalRuntime` steps through
`Decide` and `Apply` transaction by transaction; handler, relay and agent share
the code.

* An approval is named by its target: `<<"spec", n>>`, `<<"plan", n>>`,
  `<<"cand", n>>`, `<<"export", n>>`.  Its binding is whether the target still is
  what it was (`Matches`).
* The board is seen as plans and candidates.  Generation starts only on an active
  plan of the confirmed spec with none under review, and a result that arrives
  when the confirmed spec is another is dropped without touching the board.
  Which candidates a promotion keeps and which an adoption supersedes is chosen
  freely; `StoryboardAggregate` says how it is decided.
* A relay that is refused the claim reads the continuation again (`Reread`): if it
  is applied by then the row counts as delivered, otherwise it is deferred.
* The switch to the durable fallback has a branch for undecided approvals, the
  only one `Decide` reaches, and one for decided ones, in which the continuation
  moves to the deterministic executor with a decision row of its own.
* `Planned` starts from a session whose first spec and plan were approved.
* Export revisions with their approvals, interrupt-mode approvals and the binding of their mapping have no
  caller in the repository; they are external actions.  `Close`, `ExpiresAt` and the
  continuation store's `FallbackContinuation` have none either and are left out.

### A storyboard

An aggregate is a record, a command a function from aggregate and arguments to
the next aggregate.  A handler loads, applies and saves in one step unless it is
the adoption that is overtaken (`slow`), or `fillMissingPrompts`, which waits for
the model between reading and writing (`fill`).

* Old revisions are dropped, since no command reads them.  A binding's token is the
  whole generation input of which the code keeps a hash.
* An element has an id and a key; the key stands for the module's key and its
  own.  A plan is matched with the active revision by key: a matched element
  takes the active one's id, and with it locks, revision numbers and assets; an
  unmatched one keeps the planner's id.  Commands address elements by id.
* `uniqueStableID` renames an element whose id is taken already; plans for which
  it would do so are left out (`IdsApart`).
* An element has one prompt slot, whose purpose does not change between plans,
  and one asset slot, which a dependency names or leaves blank.  `scenario`
  stands for the scenario and the version of the material analysis.
* Command ids are the ones the callers form: an edited prompt is the same command
  again if text and revision number are those of an earlier edit, so the ledger
  refuses it after a rejected plan; the filling of prompts has one id per turn
  and element.
* Editing an element's fields and editing the module are commands of the service
  that no handler of the server calls; they are actions all the same.

## 3. Runs

| Run | Shows |
|---|---|
| `job_sync` | availability is paid, the ledger follows the quote, the contract is kept; crashes, half-failed commits, lost answers, dead letters |
| `job_race` | asynchronous provider, lapsing leases, cancellation: no orphaned task, nothing bound after the request, success means bound and charged |
| `job_live` | jobs end, compensations settle, unless failures never stop |
| `batch` | closes when settled, honestly, with one matching signal, and eventually |
| `session` | lanes that crash, stall past their lease or meet a failing store, runner or projection, deferred resumes, undecodable payloads: serial turns, the frozen output is the one projected and survives exhaustion, nothing final is undone, one failure event, every input settles unless it is exhausted and the last |
| `session_stranded` | violation: that last input never settles |
| `turn` | attempts that fail, stop or go on without their lease: tools act on recorded answers only, a directive runs once, the frozen output is projected whole, in order and once, before the input is resolved, contexts are causal, the client misses nothing, the session comes to rest |
| `review` | planners and decisions race: one revision in review, only what was approved takes effect, an applied decision closed its target, both stores agree |
| `review_batch` | candidate batches and single rejections with a stopping handler and relay: the ledger is true, repeated requests get what the first froze |
| `review_live` | durable and interrupting decisions with lapsing claims and failing deliveries: the agent hears applied commands only, every decision is carried out or its row dead, both stores agree |
| `storyboard` | slots and bindings agree, ledger and events agree, adoption is for current inputs, locks hold, promotion keeps what was adopted |

### Bounds

`MaxAttempts = 2` makes "retry", "last retry" and "exhausted" all happen; two
workers are enough for every race on one row, since a third would only repeat
the role of one of them; two retry rows exceed the one compensator, so that a
pending retry and a delivery in progress coexist.  `job_live` has crashes and
cancellation only: its question is whether the retries end, and the other faults
multiply the states of the same retry paths.

`session` has an input of each kind with a path of its own, an undecodable user
message, a resume, a continuation and a silent one, one attempt, which makes the
first lost claim exhaust the budget, and one failure; a manager that lost its
lease and the one that took over are all there is to a takeover.

`turn` has two workers and seven sessions, chosen in `Init`: every tool with a
watching client, the storyboard changing under the tools, an interrupt with its
answer, users that queue behind each other, behind an answer and behind a
continuation, and a continuation alone, with up to two faults.  Two answers per
turn are the call and the close; a window of three messages is less than two
turns, so the window cuts.

`review` has two requests for a spec and one for a plan, so that a revision can
be replaced while it is decided; `review_batch` two candidates, so that a batch
can be frozen with one of them before the other arrives, or while a single
rejection is under way; `review_live` two deliveries, so that a retry and the
last one differ.  `storyboard` has two plans of two elements, the second fed by the first; the second
plan calls the first element by another id, gives the id of the second element to
a new key and does not require the first's asset.  There are one job, one upload,
six versions and one overtaken adoption.

A settled job, batch, session or storyboard stops, so deadlock is not checked.

### What the code does not do

Two runs are expected to fail.

`session_stranded`: the last attempt at an input is lost with its lane and nothing
waits behind it.  `ClaimNext` finds the attempts used up, buries the input and
appends its failure event, finds nothing to claim, and returns
`ErrNoInputAvailable` from the transaction, which undoes both; the next poll does
the same.  The design document (line 317) has such an input go to dead together
with its event.  In `session` the property is therefore `InputsSettleOrStrand`:
this is the only way for an input not to settle.

`turn_blocked`: when saving the checkpoint of an interrupt
fails once, `publishRenderEvent` publishes an error event under the id and source
key that the interrupt event will ask for.  The retry then saves the checkpoint
and meets an identity conflict in the event log, on every attempt, so the turn
never ends and the question is never shown.  `FairCheckpointSpec` adds this one
failure to the specification of `turn`.  The attempts of the model do not run
out; in the code an input with a frozen output is retried without limit as well.

Met while modelling, and respected by the properties rather than checked by a
run of their own (the hazards in PROJECT.json give the lines):

* charged, crashed before `recordCharge`, then cancelled: no refund;
* domain commit durable, job transaction lost, then cancelled: the receipt does
  not win over the cancellation;
* a worker that lost its lease discards assets that were delivered, or re-opens
  a completed compensation whose outbox key is used up;
* a relay is refused the claim and then reads the continuation as applied: it
  publishes the row, and if the owner stopped before it enqueued the result the
  agent never hears of the decision, although the comment on `Apply`
  (service.go:233-237) says that replaying the outbox retries the input;
* while the model fills prompts a replan gives an element's id to another key with
  the same revision numbers: the text goes to that element, and over a prompt
  the user wrote if the plan is still under review;
* an edited prompt makes a slot stale; rejecting or superseding a later
  candidate makes it active again with the old asset;
* an approval's owner that outlives its lease may run the command after another
  owner recorded the decision as superseded.

### Fairness

Workers and dispatchers are goroutines that loop for ever, the recovery
scheduler enqueues due jobs every 10 s and the dispatcher polls every 500 ms:
weak fairness of each actor's steps.  Expiry of a lease is the passing of time.
Session lanes are goroutines, discovery polls every second, an unattended lease
or claim runs out and a back-off ends: weak fairness of each.  In `turn` some
worker keeps working (discovery), the event relay polls on a ticker and a
client that was cut off connects again; nothing is assumed of a single attempt.
In `review_live` a process that does not stop goes on, the relay ticks and takes
every due row, the session runtime retries a resume, leases end and deferred
rows become due.  Faults, the user, the provider and the operator are not fair;
liveness properties are conditional on faults not recurring for ever, or faults
are bounded (`MaxFaults`, `session.faults`).

## 4. Proofs

The first part of `GenerationJobProofs` is about money.  `Settlement` proves `TypeOK /\ SettlementInv` inductive.  `TypeOK` is not
inductive alone, because whether a refund is a legal number of points depends on
the quote.  `SettlementInv` says that (a) a fresh copy equals the row, (b) what an
actor is about to do is justified by what is already in ledger and row, for
instance that an actor about to record a charge has one in the ledger, and
(c) quote, charge, refund and compensation status agree.  From it follow
`PaidBeforeAvailable`, `LedgerFollowsQuote`, `RefundsFollowFailure`,
`TerminalIsFinal` and `CancelledNeverBinds`, for any number of workers,
compensators and outputs, any budgets and prices and every kind of fault.

Its second part proves `NoOrphanedProviderWork` under every fault, lapsing leases
included.  Compare-and-swap alone does not give it, since a worker
that lost the row still calls the provider.  The invariant (`ProviderInv`) says
what a copy of the row tells of the task even when it is outdated: the provider's
task only moves on (`Forward`), `tried` and `task` are never taken back, so a
row or copy that names a task has one, a copy past the provider's answer has a
task that is over, and a worker goes on to cancel the job only with such a copy or
with one that was never tried.

Its third part proves the refinement that `job_sync` checks: every
step of `GenerationJob` is a step of `AbstractJob` (under `ViewOf`) or leaves
the view alone.  The mapping keeps what the barrier reads of the row; the work
is in showing what a write may change.  Where late writes are excluded this needs
that the job has one worker at a time: `LeaseExcludes` proves that, without
lapsing leases, a worker past its claim is the owner named in the row and nobody
else has a fresh copy (`LeaseInv`).

`GenerationBatchProofs` proves for any finite set of jobs that batch, operation
and signal always agree, that the outcome is honest under every policy, that a
terminal batch never changes, and, without late writes, that a terminal batch is
settled.  The invariant adds that a terminal batch has no unfinished job and
that "cancelling" is exactly a cancellation that has not ended.

`SessionRuntimeProofs` proves `OneHead`, `FrozenSurvives`, `OneFailureEvent` and
`NothingIsUndone` for any finite set of inputs and any managers, outputs, attempt
budget and failures.  It argues in two parts.  Every operation of
`SessionStore` keeps `RowsInv` and undoes nothing, as long as nobody buries an
input that has an output.  `LaneInv` provides that: it says what a lane still
knows of the rows after it was overtaken.  Most of it needs no fence, since an
output that exists never changes: what a lane has seen or is about to project is
the output of the turn.  Only a lane about to bury relies on its fence: as long
as it has it, no other lane can save an output (`OneFence`).  Sequence numbers
are natural numbers because the set of inputs is finite (`SessionAssumption`);
claims, delays and contexts stay uninterpreted.

Reviews are proved for any sets of handlers, relays, agents, requests,
candidates and approvals, any budgets and faults, and for both starts.  A
decision, its command and its record are separate transactions, and every process
may be overtaken between them, so what it found out must still be true when it
acts.  The reason it is: what is reviewed only moves forward.  `Forward` says that
a closed review never opens again, that what no longer matches its binding never
matches again, and that the trace of a command (a key among the applied ones, a
receipt, a spec that left review) is never lost; `ReviewsMoveForward` proves it
of every step.  `ReviewInv` then consists of

* `TargetInv` and `StoreInv`: the revisions and the rows are well formed by
  themselves (one revision in review, the pending plan is the one in review, a
  continuation for exactly the decided approvals, stale exactly when the binding
  was not seen to match);
* `LinkInv`: approvals and targets agree (an approval has a target, what is in
  effect was approved, what is applied is closed, a stale one does not match);
* `LedgerInv`: ledger, inputs and mappings claim only what was applied;
* `ProcInv` and `PlannerInv`: what a process or planner at a program point relies on.

`ReviewTargetProofs` shows what each operation of `SpecStore`, `ArtifactStore`
and the storyboard commands keep, `ApprovalStoreProofs` the same for the
PostgreSQL forms of `ApprovalStore` and `ContinuationStore`,
`ApprovalProcessProofs` for the steps that leave the targets alone,
`ApprovalRuntimeProofs` for the other steps.  From
`ReviewIsSound` follow `OneOfEach`, `OnlyApprovedTakesEffect`, `AppliedIsClosed`,
`LedgerTellsTruth` and `AgentHearsApplied`.  `StoresAgree` follows as well: on
every store content that `StoreInv` and `SpecsInv` allow, each call of the memory
store and of the PostgreSQL store has the same result.  The invariant is needed
for it: a counting check and a unique index, or a fold over all rows and an
update of the one row in review, agree only if there is at most one.

The storyboard is proved for any elements, plans, jobs, uploads, texts and
dependencies, any set of overtaken commands and either repository.
`StoryboardInv` says that the stored aggregate is `Sound`, that the events are its
ledger, and what those who wait still know of it.  `Sound` is `BindingsMatchSlots`
in a form each command can be shown to keep (no binding id twice, a live binding
sits in its slot, what a slot names is a binding of its element), with what it
needs of a plan under review (`Reviewed`): that its slots hold no candidate, and an
asset only where it preserves those of the active plan, and that each of its
elements whose key the active plan has is a later state of that element, under the
same id (`Succeeds`: revision numbers only grow, the same numbers mean the same
lock, a locked prompt is kept).  Keys are unique in a revision (`UniqueKeys`), so
"the element of that key" is one.  For each command there is a lemma
that from a sound aggregate it makes a sound one by an `Allowed` step.  A handler
that was overtaken saves only if the version is the one it loaded, and then the
aggregate it computed is the one the command would compute now (`SlowInv`).
`fillMissingPrompts` reads before the model call and writes prompt by prompt after
it: `FillInv` says that while the version is the one it goes on with, the elements
still to be written have an unlocked prompt and the revision numbers it read
(`Recent`); a write leaves the other elements alone.  From `StoryboardIsSound` follow
`BindingsMatchSlots`, `EventsMatchLedger`, `AdoptedIsCurrent`,
`AdoptedSurvivesPromotion` and `LockedStaysLocked`.  The dependency closure stays
uninterpreted: only that it is a set of elements is used.

Assumed of the constants: approvals are named by kind and number
(`IdentityAssumption`), `None` is none of the values it stands beside
(`RowAssumption`, `ApprovalAssumption`), request ids differ from command keys (in
the code by their prefixes), and in a session that starts planned the two
approvals that are over are left out (`PlannedAssumption`).

Only model-checked: liveness (out of the prover's reach under fairness); turns,
whose proofs are not written; `RetryKeepsFirst`, whose first
part is true of one handler at a time only, the way the run has it: a second
handler with the same key could read the binding before and decide after the
target changed, and would then be answered with a conflict; `SuccessIsBoundAndCharged`,
whose proof is not written.

## 5. Not modelled

* `HandoffLease`, `ResolveInput`, `RetryInput`, `SaveTurnCheckpoint` and
  `TurnSpec` of the session runtime, which production never reaches.
* Balances and concurrent accounts of the billing ledger; the connection pool;
  the Redis queue as a variable.
* The prompts to the models inside a capability, decoding and validating what
  they return, media adapters, uploads: I/O around external services.
* Turn context text, A2UI formatting, configuration, skills, frontend.
* Composition of all parts in one state space: the parts meet at frozen
  interfaces (the job contract, the owner of an input, the candidates of a
  board), each modelled on both sides.
