-------------------------- MODULE GenerationBatch --------------------------
(***************************************************************************)
(* The batch and operation of a workflow: BatchBarrier, CancelBatch and the *)
(* batch.finalize_requested rows of the outbox (generation/barrier.go,      *)
(* command.go, outbox_dispatcher.go), over jobs that keep JobContract.      *)
(* TransactBatch locks batch, operation and jobs, so each of its            *)
(* transactions is one action.                                              *)
(***************************************************************************)
EXTENDS JobContract, FiniteSets, FiniteSetsExt

CONSTANTS
  Jobs,    \* the jobs of the batch
  Price    \* ChargedPoints of a job that was charged

ASSUME BatchAssumption ==
  /\ IsFiniteSet(Jobs) /\ Jobs # {}
  /\ Price \in Nat \ {0}

VARIABLES
  job,        \* the view of each job
  refunded,   \* CompensatedPoints of each job
  plan,       \* completion policy, MinSuccess and the Required jobs
  batch,      \* status, CancelRequested and Cost of the batch
  operation,  \* status of the operation
  outbox,     \* finalize_requested rows: pending, and every key ever inserted
  signal      \* the terminal event of the batch: its status and cost

vars == <<job, refunded, plan, batch, operation, outbox, signal>>

Policies == {"all_required", "allow_partial", "min_success"}

Plans == [policy : Policies, min : 0..Cardinality(Jobs), required : SUBSET Jobs]

NoCost == [gross |-> 0, refund |-> 0]
NoSignal == [status |-> "none", cost |-> NoCost]

TerminalBatchStatuses == {"completed", "partial_failed", "failed", "cancelled"}

(* batchTransitions; a transaction that leaves the status alone is not checked. *)
ValidateBatchTransition(from, to) ==
  \/ from = to
  \/ from = "waiting_jobs"
  \/ from = "finalizing" /\ to # "waiting_jobs"
  \/ from = "cancelling" /\ to \in {"cancelled", "completed", "partial_failed"}

(* CreateWorkflow: a batch that requires all its jobs but names none requires *)
(* every one.  MinSuccess and Required matter only under their own policy.    *)
Init ==
  /\ job = [i \in Jobs |-> CreatedView]
  /\ refunded = [i \in Jobs |-> 0]
  /\ plan \in Plans
  /\ plan.policy = "all_required" <=> plan.required # {}
  /\ plan.policy # "min_success" => plan.min = 0
  /\ batch = [status |-> "waiting_jobs", cancel |-> FALSE, cost |-> NoCost]
  /\ operation = "waiting_jobs"
  /\ outbox = [pending |-> {}, keys |-> {}]
  /\ signal = NoSignal
-----------------------------------------------------------------------------
(* newBatchFinalizeRequestedEvent and the insert that ignores a known key. *)
RequestFinalize(key) ==
  IF key \in outbox.keys
    THEN outbox
    ELSE [pending |-> outbox.pending \cup {key}, keys |-> outbox.keys \cup {key}]

(* A worker claims job i or records its charge. *)
Work(i) ==
  /\ \E v \in Started(job[i]) \cup Charged(job[i]) : job' = [job EXCEPT ![i] = v]
  /\ UNCHANGED <<refunded, plan, batch, operation, outbox, signal>>

(* A worker ends job i and, in the same transaction, asks for the barrier. *)
End(i) ==
  /\ \E v \in Finished(job[i]) \cup EndedAgain(job[i]) : job' = [job EXCEPT ![i] = v]
  /\ outbox' = RequestFinalize(<<i, "terminal">>)
  /\ UNCHANGED <<refunded, plan, batch, operation, signal>>

(* Fault injection: both triggers share one key. *)
SettleSharedKey(i) ==
  /\ \E v \in Settled(job[i]) : job' = [job EXCEPT ![i] = v]
  /\ \E points \in 0..Price : refunded' = [refunded EXCEPT ![i] = points]
  /\ outbox' = RequestFinalize(<<i, "terminal">>)
  /\ UNCHANGED <<plan, batch, operation, signal>>

(* Run or ManualFinalize settles the compensation of job i: the billing        *)
(* service, or the operator, decides how many of the points are given back.    *)
Settle(i) ==
  /\ \E v \in Settled(job[i]) : job' = [job EXCEPT ![i] = v]
  /\ \E points \in 0..Price : refunded' = [refunded EXCEPT ![i] = points]
  /\ outbox' = RequestFinalize(<<i, "compensation-settled">>)
  /\ UNCHANGED <<plan, batch, operation, signal>>

(* CancelBatch: a terminal batch or one already cancelled is left alone. *)
CancelBatch ==
  /\ batch.status \notin TerminalBatchStatuses /\ ~batch.cancel
  /\ ValidateBatchTransition(batch.status, "cancelling")
  /\ batch' = [batch EXCEPT !.cancel = TRUE, !.status = "cancelling"]
  /\ job' = [i \in Jobs |-> IF job[i].status \in Ended THEN job[i]
                                                      ELSE CancelRequested(job[i])]
  /\ outbox' = RequestFinalize(<<"batch", "cancel">>)
  /\ UNCHANGED <<refunded, plan, operation, signal>>
-----------------------------------------------------------------------------
Succeeded == {i \in Jobs : job[i].status = "succeeded"}

evaluateCompletionPolicy ==
  CASE plan.policy = "allow_partial" ->
         IF Succeeded = Jobs THEN "completed"
         ELSE IF Succeeded # {} THEN "partial_failed" ELSE "failed"
    [] plan.policy = "min_success" ->
         IF Cardinality(Succeeded) >= (IF plan.min = 0 THEN 1 ELSE plan.min)
           THEN "completed" ELSE "failed"
    [] plan.policy = "all_required" ->
         IF plan.required \subseteq Succeeded THEN "completed" ELSE "failed"

(* Fault injection: a cancelled batch is cancelled whatever was delivered. *)
OutcomeCancelled ==
  IF batch.cancel THEN "cancelled" ELSE evaluateCompletionPolicy

(* A cancelled batch reports what was delivered before the cancellation. *)
Outcome ==
  IF ~batch.cancel THEN evaluateCompletionPolicy
  ELSE IF Succeeded = Jobs THEN "completed"
  ELSE IF Succeeded # {} THEN "partial_failed" ELSE "cancelled"

(* Every charge and every refund has its own transaction id. *)
aggregateCost ==
  [gross |-> Price * Cardinality({i \in Jobs : job[i].txn}),
   refund |-> MapThenSumSet(LAMBDA i : refunded[i], {i \in Jobs : job[i].comp = "settled"})]

operationStatusForBatch(status) == status

Unfinished == \E i \in Jobs : job[i].status \notin Ended

(* A job without BillingTransactionID does not hold the barrier. *)
Unsettled == \E i \in Jobs : job[i].txn /\ job[i].comp = "open"

(* TryFinalize while jobs or compensations are outstanding. *)
Hold ==
  /\ batch.status \notin TerminalBatchStatuses
  /\ Unfinished \/ Unsettled
  /\ LET to == IF batch.cancel THEN "cancelling"
               ELSE IF Unfinished THEN batch.status ELSE "finalizing"
     IN  /\ ValidateBatchTransition(batch.status, to)
         /\ batch' = [batch EXCEPT !.status = to]
  /\ UNCHANGED <<operation, signal>>

(* Fault injection: compensations do not hold the barrier. *)
CloseUnsettled ==
  /\ batch.status \notin TerminalBatchStatuses
  /\ ~Unfinished
  /\ batch' = [batch EXCEPT !.status = Outcome, !.cost = aggregateCost]
  /\ operation' = operationStatusForBatch(Outcome)
  /\ signal' = [status |-> Outcome, cost |-> aggregateCost]

(* Fault injection: the payload is built before the cost is aggregated. *)
CloseEarlyPayload ==
  /\ batch.status \notin TerminalBatchStatuses
  /\ ~Unfinished /\ ~Unsettled
  /\ batch' = [batch EXCEPT !.status = Outcome, !.cost = aggregateCost]
  /\ operation' = operationStatusForBatch(Outcome)
  /\ signal' = [status |-> Outcome, cost |-> batch.cost]

(* TryFinalize when nothing is outstanding: status, cost, operation and the    *)
(* terminal event are written in one transaction.                              *)
Close ==
  /\ batch.status \notin TerminalBatchStatuses
  /\ ~Unfinished /\ ~Unsettled
  /\ ValidateBatchTransition(batch.status, Outcome)
  /\ batch' = [batch EXCEPT !.status = Outcome, !.cost = aggregateCost]
  /\ operation' = operationStatusForBatch(Outcome)
  /\ signal' = [status |-> Outcome, cost |-> aggregateCost]

(* tryFinalizeBatchBestEffort, and a delivery that is not acknowledged. *)
TryFinalize ==
  /\ Hold \/ Close
  /\ UNCHANGED <<job, refunded, plan, outbox>>

(* The dispatcher delivers a row and marks it published; a row whose           *)
(* transaction fails stays pending and is never dead-lettered.                 *)
Deliver(row) ==
  /\ row \in outbox.pending
  /\ \/ Hold \/ Close
     \/ batch.status \in TerminalBatchStatuses /\ UNCHANGED <<batch, operation, signal>>
  /\ outbox' = [outbox EXCEPT !.pending = @ \ {row}]
  /\ UNCHANGED <<job, refunded, plan>>

Next ==
  \/ \E i \in Jobs : Work(i) \/ End(i) \/ Settle(i)
  \/ CancelBatch
  \/ TryFinalize
  \/ \E row \in outbox.pending : Deliver(row)

Spec == Init /\ [][Next]_vars

(* The dispatcher polls the outbox every 500 ms. *)
FairSpec == Spec /\ WF_vars(\E row \in outbox.pending : Deliver(row))
-----------------------------------------------------------------------------
BatchStatuses == {"waiting_jobs", "finalizing", "cancelling"} \cup TerminalBatchStatuses

(* "It waits for all jobs and all charged-job compensation settlements": a     *)
(* terminal batch has only ended jobs and no refund outstanding.               *)
TerminalBatchIsSettled ==
  batch.status \in TerminalBatchStatuses => ~Unfinished /\ ~Unsettled

(* A batch never hides or invents deliveries: "cancelled" means that nothing   *)
(* was delivered, "partial_failed" that something was and something was not,   *)
(* and "completed" that every required job was.                                *)
OutcomeIsHonest ==
  /\ batch.status = "cancelled" => batch.cancel /\ Succeeded = {}
  /\ batch.status = "partial_failed" => Succeeded # {} /\ Succeeded # Jobs
  /\ batch.status = "completed" =>
       /\ Succeeded # {}
       /\ plan.policy = "all_required" => plan.required \subseteq Succeeded
       /\ plan.policy = "allow_partial" => Succeeded = Jobs
  /\ batch.status = "failed" => ~batch.cancel

(* "the only producer of a Batch terminal event": signal, operation and batch  *)
(* tell the same story, in every state a consumer may read them.               *)
SignalAgrees ==
  IF batch.status \in TerminalBatchStatuses
    THEN signal = [status |-> batch.status, cost |-> batch.cost] /\ operation = batch.status
    ELSE signal = NoSignal /\ operation = "waiting_jobs"

(* "appends exactly one terminal signal": neither redelivered rows, nor late   *)
(* cancellations, nor settlements change a batch that is terminal.             *)
TerminalBatchIsFinal ==
  [][batch.status \in TerminalBatchStatuses => UNCHANGED <<batch, operation, signal>>]_vars

(* "A terminal Job has no future scheduler wake": once all jobs have ended and *)
(* every refund is settled, the rows left in the outbox close the batch.       *)
BatchCloses ==
  []((~Unfinished /\ ~Unsettled) => <>(batch.status \in TerminalBatchStatuses))
=============================================================================
