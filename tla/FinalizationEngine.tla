------------------------- MODULE FinalizationEngine -------------------------
(***************************************************************************)
(* FinalizationEngine.Finalize (generation/finalization.go) with the        *)
(* storyboard, asset and billing adapters it calls                          *)
(* (generationruntime/adapters.go), run by worker w on its job.  One action *)
(* per store transaction or external call; the program counter names the    *)
(* next one.  Any returned error leaves the row as it is and frees w.       *)
(***************************************************************************)
EXTENDS WorkflowStore

Price(usage) == IF usage = "reported" THEN ReportedPoints ELSE EstimatedPoints

(* GetJob, the terminal early return, and the CAS that enters finalization.  *)
(* It is guarded by the version only: the lease owner is not consulted.  The *)
(* usage receipt is recorded already, by the CAS that entered finalizing.    *)
BeginFinalize(w) ==
  /\ actor[w].pc = "finalize"
  /\ IF IsTerminalJobStatus(job.status)
       THEN Return(w) /\ UNCHANGED <<job, lease>>
       ELSE LET new == [job EXCEPT !.status = "finalizing",
                                   !.phase = "artifact_finalize"]
            IN  Write(w, new, lease, At("quote", "none", new))
  /\ UNCHANGED <<avail, bound, binding, provider, ledger, outbox>>

(* freezeSettlementQuote (reloading and retrying on conflicts), then GetJob. *)
FreezeSettlementQuote(w) ==
  /\ actor[w].pc = "quote"
  /\ IF job.quote = NoQuote
       THEN LET new == [job EXCEPT !.quote = Price(actor[w].snap.usage)]
            IN  Write(w, new, lease, At("inspect", "none", new))
       ELSE /\ actor' = [actor EXCEPT ![w] = At("inspect", "none", job)]
            /\ UNCHANGED <<job, lease>>
  /\ UNCHANGED <<avail, bound, binding, provider, ledger, outbox>>

(* Fault injection: stored assets alone count as the receipt. *)
IsStored(assets) == \A o \in assets : avail[o] # "absent"

(* StoryboardBindingAdapter.IsCommitted *)
IsCommitted(assets) == bound /\ \A o \in assets : avail[o] = "available"

(* cancelBeforeCommit hands a job with a recorded charge to failAfterCharge *)
CancelGoal(j) == IF j.txn THEN "failAfterCharge" ELSE "cancelBeforeCommit"

Succeeded(j) == [j EXCEPT !.status = "succeeded", !.phase = "artifact_finalize",
                          !.comp = "not_required", !.manual = FALSE]

(* The commit inspector, completeCommittedReceipt, and the cancel test. *)
InspectCommit(w) ==
  LET copy == actor[w].snap IN
  /\ actor[w].pc = "inspect"
  /\ IF IsCommitted(copy.assets)
       THEN MutateJob(w, Succeeded(job), NoLease, Idle)
       ELSE /\ IF copy.cancel THEN Goto(w, "discard", CancelGoal(copy))
                              ELSE Goto(w, "check", "none")
            /\ UNCHANGED <<job, lease>>
  /\ UNCHANGED <<avail, bound, binding, provider, ledger, outbox>>

(* Fault injection: the price is tested the wrong way round. *)
CheckBindingUnpriced(w) ==
  LET copy == actor[w].snap IN
  /\ actor[w].pc = "check"
  /\ CASE binding # "match" /\ copy.txn -> Goto(w, "discard", "failAfterCharge")
       [] binding # "match" /\ ~copy.txn -> Goto(w, "discard", "failWithoutCharge")
       [] binding = "match" /\ copy.quote = 0 -> Goto(w, "reserve", "none")
       [] OTHER -> Goto(w, "recheck", "none")
  /\ UNCHANGED <<job, lease, avail, bound, binding, provider, ledger, outbox>>

(* checkBinding before the charge *)
CheckBinding(w) ==
  LET copy == actor[w].snap IN
  /\ actor[w].pc = "check"
  /\ CASE binding # "match" /\ copy.txn -> Goto(w, "discard", "failAfterCharge")
       [] binding # "match" /\ ~copy.txn -> Goto(w, "discard", "failWithoutCharge")
       [] binding = "match" /\ copy.quote > 0 -> Goto(w, "reserve", "none")
       [] OTHER -> Goto(w, "recheck", "none")
  /\ UNCHANGED <<job, lease, avail, bound, binding, provider, ledger, outbox>>

(* The CAS that records the charge intent (PhaseBillingCharge). *)
BeginCharge(w) ==
  LET new == [job EXCEPT !.phase = "billing_charge"] IN
  /\ actor[w].pc = "reserve"
  /\ MutateJob(w, new, lease, At("charge", "none", new))
  /\ UNCHANGED <<avail, bound, binding, provider, ledger, outbox>>

(* Fault injection: a replayed charge is charged again. *)
ChargeAppliedAgain(points) ==
  ledger' = [ledger EXCEPT !.charge = ledger.charge + points]

(* billing.Store.Charge under the job's idempotency key: applied once, a      *)
(* replay returns the first transaction, a replay with other points conflicts *)
ChargeApplied(points) ==
  ledger' = IF ledger.charge = 0 THEN [ledger EXCEPT !.charge = points] ELSE ledger

Charge(w) ==
  LET points == actor[w].snap.quote IN
  /\ actor[w].pc = "charge"
  /\ ledger.charge \in {0, points}
  /\ ChargeApplied(points)
  /\ Goto(w, "record", "none")
  /\ UNCHANGED <<job, lease, avail, bound, binding, provider, outbox>>

(* No account, insufficient points, or an idempotency conflict: permanent. *)
ChargeRejected(w) ==
  /\ actor[w].pc = "charge"
  /\ ledger.charge # actor[w].snap.quote
  /\ Goto(w, "discard", "failPermanent")
  /\ UNCHANGED <<job, lease, avail, bound, binding, provider, ledger, outbox>>

(* The call fails in transit; the charge may have been applied. *)
ChargeLost(w) ==
  /\ actor[w].pc = "charge"
  /\ "billing" \in Faults
  /\ ChargeApplied(actor[w].snap.quote) \/ UNCHANGED ledger
  /\ Goto(w, "retry", "billing")
  /\ UNCHANGED <<job, lease, avail, bound, binding, provider, outbox>>

(* recordCharge: on a conflict it reloads the row and writes the latest       *)
(* version, whatever its status; a row that has the transaction is returned.  *)
RecordCharge(w) ==
  LET new == [job EXCEPT !.txn = TRUE] IN
  /\ actor[w].pc = "record"
  /\ IF actor[w].fresh \/ ~job.txn
       THEN Write(w, new, lease, At("recheck", "none", new))
       ELSE /\ actor' = [actor EXCEPT ![w] = At("recheck", "none", job)]
            /\ UNCHANGED <<job, lease>>
  /\ UNCHANGED <<avail, bound, binding, provider, ledger, outbox>>

(* checkBinding after the charge, with the cancel flag of the copy *)
RecheckBinding(w) ==
  /\ actor[w].pc = "recheck"
  /\ IF binding # "match" \/ actor[w].snap.cancel
       THEN Goto(w, "discard", "failAfterCharge")
       ELSE Goto(w, "commit", "none")
  /\ UNCHANGED <<job, lease, avail, bound, binding, provider, ledger, outbox>>

(* The domain transaction: token revalidated, assets available, binding made. *)
CommitDomain(assets) ==
  /\ avail' = [o \in Outputs |-> IF o \in assets THEN "available" ELSE avail[o]]
  /\ bound' = TRUE

(* Fault injection: the cancel flag is not read again under the row lock. *)
CommitUnguarded(w) ==
  /\ actor[w].pc = "commit"
  /\ IF binding = "match"
       THEN /\ CommitDomain(actor[w].snap.assets)
            /\ IF CanWrite(w, Succeeded(job))
                 THEN Write(w, Succeeded(job), NoLease, Idle)
                 ELSE Goto(w, "reload", "retryable") /\ UNCHANGED <<job, lease>>
       ELSE Goto(w, "reload", "permanent") /\ UNCHANGED <<job, lease, avail, bound>>
  /\ UNCHANGED <<binding, provider, ledger, outbox>>

(* MutateJob around committer.Commit.  The version and the cancel flag are     *)
(* checked under the row lock; the job's transition only after the domain      *)
(* commit.  Every error continues with the reload of the row.                  *)
Commit(w) ==
  LET copy == actor[w].snap IN
  /\ actor[w].pc = "commit"
  /\ CASE ~actor[w].fresh \/ job.cancel ->
            Goto(w, "reload", "retryable") /\ UNCHANGED <<job, lease, avail, bound>>
       [] actor[w].fresh /\ ~job.cancel /\ binding # "match" ->
            Goto(w, "reload", "permanent") /\ UNCHANGED <<job, lease, avail, bound>>
       [] OTHER ->
            /\ CommitDomain(copy.assets)
            /\ IF CanWrite(w, Succeeded(job))
                 THEN Write(w, Succeeded(job), NoLease, Idle)
                 ELSE Goto(w, "reload", "permanent") /\ UNCHANGED <<job, lease>>
  /\ UNCHANGED <<binding, provider, ledger, outbox>>

(* The domain commit is durable, the job transaction is not. *)
CommitJobTxLost(w) ==
  /\ actor[w].pc = "commit"
  /\ "commit" \in Faults
  /\ actor[w].fresh /\ ~job.cancel /\ binding = "match"
  /\ CommitDomain(actor[w].snap.assets)
  /\ Goto(w, "reload", "retryable")
  /\ UNCHANGED <<job, lease, binding, provider, ledger, outbox>>

(* The error path of the commit: reload, cancel test, classification. *)
AfterCommitError(w) ==
  /\ actor[w].pc = "reload"
  /\ actor' = [actor EXCEPT ![w] =
       CASE job.cancel -> At("discard", CancelGoal(job), job)
         [] ~job.cancel /\ actor[w].arg = "retryable" -> At("retry", "binding", job)
         [] ~job.cancel /\ actor[w].arg = "permanent" /\ job.txn ->
              At("discard", "failAfterCharge", job)
         [] OTHER -> At("discard", "failPermanent", job)]
  /\ UNCHANGED <<job, lease, avail, bound, binding, provider, ledger, outbox>>

(* Inspector, binding check or domain transaction fails: handleFinalizeError  *)
(* (commit: its reload) classifies it as retryable at the binding stage.      *)
StoreError(w) ==
  /\ "store" \in Faults
  /\ \/ /\ actor[w].pc \in {"inspect", "check", "recheck"}
        /\ Goto(w, "retry", "binding")
     \/ /\ actor[w].pc = "commit"
        /\ Goto(w, "reload", "retryable")
  /\ UNCHANGED <<job, lease, avail, bound, binding, provider, ledger, outbox>>

(* scheduleRetry; the exhausted budget compensates a recorded charge only     *)
(* when the failing stage is the binding stage.                               *)
ScheduleRetry(w) ==
  LET copy == actor[w].snap
      new == [job EXCEPT !.status = "retry_wait", !.retry = NextRetry(job),
                         !.manual = FALSE]
  IN
  /\ actor[w].pc = "retry"
  /\ IF copy.retry + 1 >= MaxAttempts
       THEN /\ Goto(w, "discard", IF actor[w].arg = "binding" /\ copy.txn
                                    THEN "failAfterCharge" ELSE "failPermanent")
            /\ UNCHANGED <<job, lease>>
       ELSE MutateJob(w, new, NoLease, Idle)
  /\ UNCHANGED <<avail, bound, binding, provider, ledger, outbox>>

(* discardResult and Discard: the assets of w's copy become quarantined before *)
(* the terminal CAS.  failPermanent skips it when a charge is recorded.        *)
DiscardResult(w) ==
  LET copy == actor[w].snap
      keep == actor[w].arg = "failPermanent" /\ copy.txn
  IN
  /\ actor[w].pc = "discard"
  /\ avail' = [o \in Outputs |-> IF o \in copy.assets /\ ~keep THEN "quarantined"
                                 ELSE avail[o]]
  /\ Goto(w, "settle", actor[w].arg)
  /\ UNCHANGED <<job, lease, bound, binding, provider, ledger, outbox>>

(* The terminal CAS of an outcome without compensation. *)
SettleAs(w, goal, status) ==
  /\ actor[w].pc = "settle" /\ actor[w].arg = goal
  /\ MutateJob(w, [job EXCEPT !.status = status, !.comp = "not_required",
                              !.manual = FALSE], NoLease, Idle)
  /\ UNCHANGED <<avail, bound, binding, provider, ledger, outbox>>

FailWithoutCharge(w) == SettleAs(w, "failWithoutCharge", "failed")

CancelBeforeCommit(w) == SettleAs(w, "cancelBeforeCommit", "cancelled")

FailPermanent(w) == SettleAs(w, "failPermanent", "failed")

(* failAfterCharge: terminal, compensation pending and its outbox row in one  *)
(* transaction.  The row's idempotency key is the job's transaction, so a     *)
(* second request inserts nothing.                                            *)
FailAfterCharge(w) ==
  LET new == [job EXCEPT !.status = IF job.cancel THEN "cancelled" ELSE "failed",
                         !.comp = "pending", !.manual = FALSE]
  IN
  /\ actor[w].pc = "settle" /\ actor[w].arg = "failAfterCharge"
  /\ MutateJob(w, new, NoLease, Idle)
  /\ outbox' = IF CanWrite(w, new) /\ ~outbox.requested
                 THEN [pending |-> outbox.pending \cup {"requested"}, requested |-> TRUE]
                 ELSE outbox
  /\ UNCHANGED <<avail, bound, binding, provider, ledger>>

Finalize(w) ==
  \/ BeginFinalize(w) \/ FreezeSettlementQuote(w) \/ InspectCommit(w)
  \/ CheckBinding(w) \/ BeginCharge(w) \/ Charge(w) \/ ChargeRejected(w)
  \/ RecordCharge(w) \/ RecheckBinding(w) \/ Commit(w) \/ AfterCommitError(w)
  \/ ScheduleRetry(w) \/ DiscardResult(w) \/ FailWithoutCharge(w)
  \/ CancelBeforeCommit(w) \/ FailPermanent(w) \/ FailAfterCharge(w)

FinalizeFault(w) == ChargeLost(w) \/ CommitJobTxLost(w) \/ StoreError(w)
=============================================================================
