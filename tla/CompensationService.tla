------------------------ MODULE CompensationService ------------------------
(***************************************************************************)
(* CompensationService (generation/finalization.go) driven by the outbox:   *)
(* a dispatcher delivers a billing.compensation_requested row               *)
(* (outbox_dispatcher.go, generationruntime/outbox.go) to Run and marks it  *)
(* published afterwards.  Delivery is at least once: a row whose delivery   *)
(* fails, or whose dispatcher stops before the mark, stays pending.         *)
(***************************************************************************)
EXTENDS WorkflowStore

Rows == {"requested"} \cup RetryRows

(* Fault injection: a compensation that is running is never taken over. *)
RunCompensationOnce(c) ==
  /\ actor[c].pc = "idle"
  /\ \E row \in outbox.pending :
       \/ /\ job.comp \in {"completed", "manual_final", "not_required"}
          /\ actor' = [actor EXCEPT ![c] = At("ack", row, job)]
       \/ /\ job.comp \in {"pending", "retry_wait"}
          /\ job.txn
          /\ actor' = [actor EXCEPT ![c] = At("claimRefund", row, job)]
  /\ UNCHANGED <<job, lease, avail, bound, binding, provider, ledger, outbox>>

(* Run: GetJob and its early returns.  A compensation in progress elsewhere,   *)
(* or a job without a recorded charge, is an error: the row stays pending.     *)
RunCompensation(c) ==
  /\ actor[c].pc = "idle"
  /\ \E row \in outbox.pending :
       \/ /\ job.comp \in {"completed", "manual_final", "not_required"}
          /\ actor' = [actor EXCEPT ![c] = At("ack", row, job)]
       \/ /\ job.comp \in {"pending", "retry_wait", "running"}
          /\ ~(job.comp = "running" /\ lease.live)
          /\ job.txn
          /\ actor' = [actor EXCEPT ![c] = At("claimRefund", row, job)]
  /\ UNCHANGED <<job, lease, avail, bound, binding, provider, ledger, outbox>>

ClaimCompensation(c) ==
  LET new == [job EXCEPT !.comp = "running", !.phase = "compensation"] IN
  /\ actor[c].pc = "claimRefund"
  /\ MutateJob(c, new, LeaseOf(c), At("refund", actor[c].arg, new))
  /\ UNCHANGED <<avail, bound, binding, provider, ledger, outbox>>

(* billing.Store.Refund of the charge under a key derived from job and        *)
(* transaction: applied once, a replay returns the first refund.              *)
RefundApplied == ledger' = [ledger EXCEPT !.refund = ledger.charge]

Refund(c) ==
  /\ actor[c].pc = "refund"
  /\ RefundApplied
  /\ Goto(c, "complete", actor[c].arg)
  /\ UNCHANGED <<job, lease, avail, bound, binding, provider, outbox>>

(* Fault injection: a refund without an answer counts as made. *)
RefundLostCompleted(c) ==
  /\ actor[c].pc = "refund"
  /\ "billing" \in Faults
  /\ RefundApplied \/ UNCHANGED ledger
  /\ Goto(c, "complete", actor[c].arg)
  /\ UNCHANGED <<job, lease, avail, bound, binding, provider, outbox>>

(* The call fails in transit; the refund may have been applied. *)
RefundLost(c) ==
  /\ actor[c].pc = "refund"
  /\ "billing" \in Faults
  /\ RefundApplied \/ UNCHANGED ledger
  /\ Goto(c, "refundRetry", actor[c].arg)
  /\ UNCHANGED <<job, lease, avail, bound, binding, provider, outbox>>

(* The ledger rejects the refund; a replay of an applied one is never rejected. *)
RefundRejected(c) ==
  /\ actor[c].pc = "refund"
  /\ "refund" \in Faults
  /\ ledger.refund = 0
  /\ Goto(c, "refundFailed", actor[c].arg)
  /\ UNCHANGED <<job, lease, avail, bound, binding, provider, ledger, outbox>>

CompleteCompensation(c) ==
  /\ actor[c].pc = "complete"
  /\ LET new == [job EXCEPT !.comp = "completed"]
     IN  MutateJob(c, new, NoLease, At("ack", actor[c].arg, new))
  /\ UNCHANGED <<avail, bound, binding, provider, ledger, outbox>>

(* A permanent failure waits for ManualFinalize. *)
FailCompensation(c) ==
  /\ actor[c].pc = "refundFailed"
  /\ LET new == [job EXCEPT !.comp = "pending", !.phase = "compensation",
                            !.manual = TRUE]
     IN  MutateJob(c, new, NoLease, At("ack", actor[c].arg, new))
  /\ UNCHANGED <<avail, bound, binding, provider, ledger, outbox>>

(* Rows no outbox row and no delivery in progress stands for. *)
FreeRows == RetryRows \ (outbox.pending \cup {actor[c].arg : c \in Compensators})

(* A transient failure schedules a new row with the retry, in one transaction. *)
(* With more RetryRows than Compensators, running out of rows means that some  *)
(* retry is pending undelivered; the new row is merged with that one.          *)
RetryCompensation(c) ==
  LET new == [job EXCEPT !.comp = "retry_wait", !.phase = "compensation",
                         !.retry = NextRetry(job), !.manual = FALSE]
  IN
  /\ actor[c].pc = "refundRetry"
  /\ MutateJob(c, new, NoLease, At("ack", actor[c].arg, new))
  /\ outbox' = IF CanWrite(c, new) /\ FreeRows # {}
                 THEN [outbox EXCEPT !.pending = @ \cup {CHOOSE r \in FreeRows : TRUE}]
                 ELSE outbox
  /\ UNCHANGED <<avail, bound, binding, provider, ledger>>

(* MarkOutboxPublished *)
AckRow(c) ==
  /\ actor[c].pc = "ack"
  /\ outbox' = [outbox EXCEPT !.pending = @ \ {actor[c].arg}]
  /\ Return(c)
  /\ UNCHANGED <<job, lease, avail, bound, binding, provider, ledger>>

(* MarkOutboxFailed for the tenth time: the row is dead-lettered. *)
DeadLetter ==
  /\ "dead" \in Faults
  /\ \E row \in outbox.pending : outbox' = [outbox EXCEPT !.pending = @ \ {row}]
  /\ UNCHANGED <<job, lease, actor, avail, bound, binding, provider, ledger>>

(* ManualFinalize: the operator settles a permanently failed compensation. *)
ManualFinalize ==
  /\ job.comp = "pending" /\ job.manual
  /\ job' = [job EXCEPT !.comp = "manual_final"]
  /\ EveryCopyStale
  /\ UNCHANGED <<lease, avail, bound, binding, provider, ledger, outbox>>

CompensatorStep(c) ==
  \/ RunCompensation(c) \/ ClaimCompensation(c) \/ Refund(c)
  \/ CompleteCompensation(c) \/ FailCompensation(c) \/ RetryCompensation(c)
  \/ AckRow(c)

CompensatorFault(c) == RefundLost(c) \/ RefundRejected(c)
=============================================================================
