--------------------------- MODULE WorkflowStore ---------------------------
(***************************************************************************)
(* The durable row of one GenerationJob and the compare-and-swap every      *)
(* actor changes it through (internal/aigc/generation).  Lifecycle workers, *)
(* finalization and compensation all hold a copy of the row (their local    *)
(* variable `job`) and write with MutateJob(job.StatusVersion, ...).        *)
(*                                                                          *)
(* StatusVersion only ever serves to decide whether the row changed since   *)
(* an actor's copy was taken, and every successful write increments it.     *)
(* The model keeps exactly that bit: actor[p].fresh says that the version   *)
(* in p's copy is still the row's version.                                  *)
(***************************************************************************)
EXTENDS Integers, FiniteSets

CONSTANTS
  Workers,          \* LifecycleWorkers of all the processes
  Compensators,     \* outbox dispatchers running CompensationService.Run
  Nobody,           \* the empty LeaseOwner
  Outputs,          \* output indexes of the job (one deterministic asset each)
  Async,            \* TRUE: Submit/Poll provider; FALSE: completes in Submit
  MaxAttempts,      \* job.MaxAttempts, the transient-failure budget
  MaxPolls,         \* job.MaxProviderPollAttempts
  ReportedPoints,   \* price when the provider reports its usage
  EstimatedPoints,  \* price when it does not (cost calculator's estimate)
  RetryRows,        \* outbox rows for repeated refunds (bounds those pending)
  Faults            \* the kinds of failure the environment may produce

(* crash:   an actor stops between two steps (process crash, returned error) *)
(* lease:   the lease of a worker that is still running lapses               *)
(* store:   a storyboard/asset read or the domain commit fails, rolled back  *)
(* commit:  the domain commit is durable but the job transaction fails       *)
(* billing: a charge or refund call fails in transit, applied or not         *)
(* cancel:  a provider cancel call fails in transit                          *)
(* refund:  the ledger rejects a refund permanently                          *)
(* dead:    an outbox row exhausts its ten deliveries                        *)
FaultKinds == {"crash", "lease", "store", "commit", "billing", "cancel", "refund",
               "dead"}

Actors == Workers \cup Compensators

ASSUME StoreAssumption ==
  /\ Nobody \notin Actors
  /\ Workers \cap Compensators = {}
  /\ Outputs # {}
  /\ Async \in BOOLEAN
  /\ MaxAttempts \in Nat \ {0}
  /\ MaxPolls \in Nat \ {0}
  /\ ReportedPoints \in Nat
  /\ EstimatedPoints \in Nat
  /\ "requested" \notin RetryRows
  /\ Faults \subseteq FaultKinds

VARIABLES
  job,       \* the versioned fields of the row
  lease,     \* LeaseOwner and whether LeaseUntil lies in the future
  actor,     \* what each worker / compensator is doing, with its copy of the row
  avail,     \* availability of the asset row of each output
  bound,     \* the storyboard holds the job's binding (and approval row)
  binding,   \* how the frozen BindingToken compares with the storyboard now
  provider,  \* the provider's own task
  ledger,    \* points charged and refunded for the job in the billing store
  outbox     \* billing.compensation_requested rows: pending ones, keys used

vars == <<job, lease, actor, avail, bound, binding, provider, ledger, outbox>>

TerminalStatuses == {"succeeded", "failed", "cancelled"}
Statuses == {"queued", "running", "waiting_provider", "finalizing", "retry_wait"}
              \cup TerminalStatuses
Phases == {"provider_submit", "provider_poll", "artifact_finalize",
           "billing_charge", "compensation"}
CompensationStatuses == {"not_required", "pending", "running", "retry_wait",
                         "completed", "manual_final"}
NoQuote == -1

(* GenerationJob.  tried is Attempt > 0; task, txn: ProviderTaskID and        *)
(* BillingTransactionID are set; retry saturates at MaxAttempts, the only     *)
(* value it is compared with; manual says, while comp is pending, that        *)
(* ErrorCode is compensation_failed and Retryable is false.                   *)
Jobs == [status : Statuses, phase : Phases, cancel : BOOLEAN, tried : BOOLEAN,
         task : BOOLEAN, polls : 0..MaxPolls, retry : 0..MaxAttempts,
         assets : SUBSET Outputs, usage : {"none", "reported", "estimated"},
         quote : {NoQuote, ReportedPoints, EstimatedPoints}, txn : BOOLEAN,
         comp : CompensationStatuses, manual : BOOLEAN]

(* CreateWorkflow: the row as it is inserted *)
CreatedJob ==
  [status |-> "queued", phase |-> "provider_submit", cancel |-> FALSE,
   tried |-> FALSE, task |-> FALSE, polls |-> 0, retry |-> 0, assets |-> {},
   usage |-> "none", quote |-> NoQuote, txn |-> FALSE,
   comp |-> "not_required", manual |-> FALSE]

(* RetryCount++, saturating *)
NextRetry(j) == IF j.retry < MaxAttempts THEN j.retry + 1 ELSE j.retry

IsTerminalJobStatus(s) == s \in TerminalStatuses

jobTransitions ==
  [s \in Statuses |->
     CASE s = "queued" -> {"running", "cancelled", "failed"}
       [] s = "running" -> {"waiting_provider", "finalizing", "retry_wait",
                            "failed", "cancelled"}
       [] s = "waiting_provider" -> {"running", "finalizing", "retry_wait",
                                     "failed", "cancelled"}
       [] s = "finalizing" -> {"retry_wait", "succeeded", "failed", "cancelled"}
       [] s = "retry_wait" -> {"running", "finalizing", "failed", "cancelled"}
       [] OTHER -> {}]

ValidateJobTransition(from, to) == from = to \/ to \in jobTransitions[from]

NoLease == [owner |-> Nobody, live |-> FALSE]
LeaseOf(p) == [owner |-> p, live |-> TRUE]

At(pc, arg, copy) == [pc |-> pc, arg |-> arg, snap |-> copy, fresh |-> TRUE]
Idle == [pc |-> "idle", arg |-> "none", snap |-> CreatedJob, fresh |-> FALSE]

(* p moves on without touching the row: its copy stays as fresh as it was *)
Goto(p, pc, arg) ==
  actor' = [actor EXCEPT ![p].pc = pc, ![p].arg = arg]

Return(p) == actor' = [actor EXCEPT ![p] = Idle]

(* The row after p's write of `new`; everybody else's copy becomes stale. *)
Write(p, new, newLease, next) ==
  /\ job' = new
  /\ lease' = newLease
  /\ actor' = [q \in Actors |-> IF q = p THEN next
                                ELSE [actor[q] EXCEPT !.fresh = FALSE]]

(* The copies after a write by somebody who is not an actor. *)
EveryCopyStale == actor' = [q \in Actors |-> [actor[q] EXCEPT !.fresh = FALSE]]

(* A write that does not start from a stale copy and makes a legal transition. *)
CanWrite(p, new) ==
  actor[p].fresh /\ ValidateJobTransition(job.status, new.status)

(* MutateJob: version check, mutation of the current row, transition check,   *)
(* one transaction.  An error makes the caller return.                        *)
MutateJob(p, new, newLease, next) ==
  IF CanWrite(p, new)
    THEN Write(p, new, newLease, next)
    ELSE Return(p) /\ UNCHANGED <<job, lease>>

(* RenewJobLease: owner and status are checked, the version is not bumped. *)
RenewJobLease(w) ==
  /\ actor[w].pc # "idle"
  /\ lease.owner = w /\ ~lease.live
  /\ job.status \in {"running", "finalizing"}
  /\ lease' = [lease EXCEPT !.live = TRUE]
  /\ UNCHANGED <<job, actor, avail, bound, binding, provider, ledger, outbox>>

(* LeaseUntil passes and nobody renews the lease. *)
LeaseExpires ==
  /\ lease.live
  /\ actor[lease.owner].pc = "idle"
  /\ lease' = [lease EXCEPT !.live = FALSE]
  /\ UNCHANGED <<job, actor, avail, bound, binding, provider, ledger, outbox>>

(* LeaseUntil passes although the owner is still at work: it is paused, its    *)
(* renewals fail for a whole lease, or (compensation) it has no heartbeat.     *)
LeaseLapses ==
  /\ "lease" \in Faults
  /\ lease.live
  /\ actor[lease.owner].pc # "idle"
  /\ lease' = [lease EXCEPT !.live = FALSE]
  /\ UNCHANGED <<job, actor, avail, bound, binding, provider, ledger, outbox>>

(* ListRunnableJobs and the early returns of Process agree on this. *)
Runnable ==
  /\ ~IsTerminalJobStatus(job.status)
  /\ ~(job.status \in {"running", "finalizing"} /\ lease.live)
=============================================================================
