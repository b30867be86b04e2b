--------------------------- MODULE GenerationJob ---------------------------
(***************************************************************************)
(* One GenerationJob from CreateWorkflow to its settlement: lifecycle       *)
(* workers, finalization and compensation running concurrently over the     *)
(* job's row, the storyboard, the asset store and the billing ledger, while *)
(* the user cancels or edits and processes crash.                           *)
(***************************************************************************)
EXTENDS LifecycleWorker, CompensationService

Init ==
  /\ job = CreatedJob
  /\ lease = NoLease
  /\ actor = [p \in Actors |-> Idle]
  /\ avail = [o \in Outputs |-> "absent"]
  /\ bound = FALSE
  /\ binding = "match"
  /\ provider = "none"
  /\ ledger = [charge |-> 0, refund |-> 0]
  /\ outbox = [pending |-> {}, requested |-> FALSE]

(* Fault injection: a job that has ended can still be cancelled. *)
CancelAnytime ==
  /\ ~job.cancel
  /\ job' = [job EXCEPT !.cancel = TRUE]
  /\ EveryCopyStale
  /\ UNCHANGED <<lease, avail, bound, binding, provider, ledger, outbox>>

(* CancelBatch on this job: the intent is frozen, a queued job is cancelled   *)
(* on the spot.                                                               *)
CancelBatch ==
  /\ ~job.cancel /\ ~IsTerminalJobStatus(job.status)
  /\ job' = [job EXCEPT !.cancel = TRUE,
                        !.status = IF job.status = "queued" /\ ~job.task
                                     THEN "cancelled" ELSE job.status]
  /\ EveryCopyStale
  /\ UNCHANGED <<lease, avail, bound, binding, provider, ledger, outbox>>

(* The target is edited, regenerated, replaced or deleted: every component of *)
(* the binding token only grows, so it never matches again.                   *)
EditStoryboard ==
  /\ binding = "match"
  /\ binding' = "stale"
  /\ UNCHANGED <<job, lease, actor, avail, bound, provider, ledger, outbox>>

(* p stops between two steps: process crash, or an error its caller returns. *)
Abandon(p) ==
  /\ "crash" \in Faults
  /\ actor[p].pc # "idle"
  /\ Return(p)
  /\ UNCHANGED <<job, lease, avail, bound, binding, provider, ledger, outbox>>

Fault ==
  \/ \E w \in Workers : FinalizeFault(w) \/ CancelLost(w)
  \/ \E c \in Compensators : CompensatorFault(c)
  \/ \E p \in Actors : Abandon(p)
  \/ DeadLetter
  \/ LeaseLapses

Environment == CancelBatch \/ EditStoryboard \/ ProviderProgress \/ ManualFinalize

Next ==
  \/ \E w \in Workers : WorkerStep(w) \/ Finalize(w)
  \/ \E c \in Compensators : CompensatorStep(c)
  \/ LeaseExpires
  \/ Environment
  \/ Fault

(* Workers and dispatchers are goroutines that keep running; a lapsed lease    *)
(* is observed because LeaseUntil is compared with the clock; every 10 s the   *)
(* recovery scheduler enqueues runnable jobs again.                            *)
Fairness ==
  /\ \A w \in Workers : WF_vars(WorkerStep(w) \/ Finalize(w))
  /\ \A c \in Compensators : WF_vars(CompensatorStep(c))
  /\ WF_vars(LeaseExpires)

Spec == Init /\ [][Next]_vars

FairSpec == Spec /\ Fairness
-----------------------------------------------------------------------------
Pcs == {"idle", "recover", "claim", "submit", "submitCall", "poll", "pollCall",
        "answer", "providerError", "cancel", "cancelCall", "cancelRetry",
        "finalize", "quote", "inspect", "check", "reserve", "charge", "record",
        "recheck", "commit", "reload", "retry", "discard", "settle",
        "ack", "claimRefund", "refund", "complete", "refundRetry", "refundFailed"}

Args == {"none", "process", "retryable", "permanent", "accepted", "completed",
         "failed", "cancelled", "binding", "billing", "failAfterCharge",
         "cancelBeforeCommit", "failWithoutCharge", "failPermanent",
         "failProvider", "cancelJob"} \cup Rows

Points == {0, ReportedPoints, EstimatedPoints}

Leases == [owner : Actors \cup {Nobody}, live : BOOLEAN]
Locals == [pc : Pcs, arg : Args, snap : Jobs, fresh : BOOLEAN]

(* Every variable has its type. *)
TypeOK ==
  /\ job \in Jobs
  /\ lease \in Leases
  /\ actor \in [Actors -> Locals]
  /\ avail \in [Outputs -> {"absent", "pending_billing", "available", "quarantined"}]
  /\ bound \in BOOLEAN
  /\ binding \in {"match", "stale"}
  /\ provider \in {"none", "running", "done", "failed", "cancelled"}
  /\ ledger \in [charge : Points, refund : Points]
  /\ outbox \in [pending : SUBSET Rows, requested : BOOLEAN]

(* No asset is available to the user before its job has been paid for:        *)
(* PendingAssetStore and the charge-then-commit order of Finalize.             *)
PaidBeforeAvailable ==
  (\E o \in Outputs : avail[o] = "available") => job.quote = 0 \/ ledger.charge > 0

(* Charge and refund idempotency keys and the frozen settlement quote: the    *)
(* ledger holds at most one charge, of the quoted points, and at most one     *)
(* refund, of exactly that charge, whatever is retried or replayed.           *)
LedgerFollowsQuote ==
  /\ ledger.charge \in {0, job.quote}
  /\ ledger.refund \in {0, ledger.charge}

(* Nothing that was delivered is refunded, and a job that reports a completed *)
(* compensation has its points back.                                          *)
RefundsFollowFailure ==
  /\ ledger.refund > 0 => job.status \in {"failed", "cancelled"} /\ job.txn
  /\ job.comp = "completed" => ledger.refund = ledger.charge

(* "cancelling locally at this point would orphan provider work and cost":    *)
(* a cancelled job leaves no provider task running.                           *)
NoOrphanedProviderWork ==
  job.status = "cancelled" => provider # "running"

(* A job that reports success has its binding in the storyboard and, unless   *)
(* it was free, its charge on record, although the domain commit and the job   *)
(* transaction are two and a worker may act on a lapsed lease (Commit,         *)
(* completeCommittedReceipt).                                                  *)
SuccessIsBoundAndCharged ==
  job.status = "succeeded" => bound /\ (job.quote > 0 => job.txn)

(* Once terminal, the status of a job never changes, however late a worker,   *)
(* a charge or a compensation writes to it (jobTransitions).                  *)
TerminalIsFinal ==
  [][IsTerminalJobStatus(job.status) => job'.status = job.status]_vars

(* "如果取消请求先提交，Worker 不得再将 Job 绑定为当前结果": a job whose cancel   *)
(* request was committed first never becomes bound.                           *)
CancelledNeverBinds ==
  [][~bound /\ bound' => ~job.cancel]_vars

(* What a copy of the row j is good for: at the current version it is the     *)
(* row; at any version its quote and its charge are still the row's.           *)
CopyAgrees(a, j) ==
  /\ a.fresh => a.snap = j
  /\ a.snap.quote # NoQuote => j.quote = a.snap.quote
  /\ a.snap.txn => j.txn

(* What holds of the row j and the ledger l while an actor is at a step of     *)
(* finalization or compensation.                                               *)
StepJustified(a, j, l) ==
  /\ a.pc \in {"inspect", "check", "reserve", "charge", "record", "recheck", "commit"}
       => a.snap.quote # NoQuote
  /\ a.pc \in {"reserve", "charge", "record"} => a.snap.quote > 0
  /\ a.pc = "record" => l.charge = a.snap.quote
  /\ a.pc \in {"recheck", "commit"} => a.snap.quote \in {0, l.charge}
  /\ a.pc = "claimRefund" => a.snap.comp # "not_required" /\ a.snap.txn
  /\ a.pc \in {"refund", "complete", "refundRetry", "refundFailed"}
       => j.status \in {"failed", "cancelled"} /\ j.txn
  /\ a.pc = "complete" => l.refund = l.charge

(* The row j and the ledger l agree on what was quoted, charged and refunded. *)
BooksAgree(j, l) ==
  /\ l.charge \in {0, j.quote}
  /\ l.refund \in {0, l.charge}
  /\ l.refund > 0 => j.status \in {"failed", "cancelled"} /\ j.txn
  /\ j.comp = "completed" => j.txn /\ l.refund = l.charge
  /\ j.txn => j.quote > 0 /\ l.charge = j.quote
  /\ j.comp # "not_required" => j.status \in {"failed", "cancelled"}

(* The inductive invariant behind the money properties. *)
SettlementInv ==
  /\ PaidBeforeAvailable
  /\ BooksAgree(job, ledger)
  /\ \A p \in Actors : CopyAgrees(actor[p], job) /\ StepJustified(actor[p], job, ledger)

(* Once the environment stops failing, the job reaches a terminal status:      *)
(* leases lapse, retries and polls are bounded, nobody waits for anybody.      *)
JobTerminates ==
  []<><<Fault>>_vars \/ <>IsTerminalJobStatus(job.status)

(* A compensation that was requested is settled, or waits for the operator.    *)
CompensationSettles ==
  []<><<Fault>>_vars \/
  [](job.txn /\ job.comp = "pending" =>
       <>(job.comp \in {"completed", "manual_final"} \/ (job.comp = "pending" /\ job.manual)))
=============================================================================
