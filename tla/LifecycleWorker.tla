-------------------------- MODULE LifecycleWorker --------------------------
(***************************************************************************)
(* LifecycleWorker.Process (generation/lifecycle_worker.go): one durable    *)
(* step of the provider phase per wake-up, with the provider adapters       *)
(* (generation/handlers, legacy_provider_adapter.go) and the asset receipts *)
(* they leave behind.                                                       *)
(***************************************************************************)
EXTENDS FinalizationEngine

(* Fault injection: a cancelled job without a task id is cancelled locally. *)
RouteCancelsLocally(j) ==
  CASE j.status = "finalizing" \/ (j.status = "retry_wait"
         /\ j.phase \in {"artifact_finalize", "billing_charge"}) -> "claim"
    [] j.cancel -> "cancel"
    [] ~j.cancel /\ ~j.task -> "submit"
    [] OTHER -> "poll"

(* Where Process goes once the receipt lookup found no complete result. *)
Route(j) ==
  CASE j.status = "finalizing" \/ (j.status = "retry_wait"
         /\ j.phase \in {"artifact_finalize", "billing_charge"}) -> "claim"
    [] j.cancel /\ ~j.task /\ j.tried -> "submit"
    [] j.cancel /\ (j.task \/ ~j.tried) -> "cancel"
    [] ~j.cancel /\ ~j.task -> "submit"
    [] OTHER -> "poll"

(* A wake-up (dispatch or cancel outbox row, recovery scheduler, duplicate)   *)
(* is dequeued: GetJob and the early returns of Process.                      *)
Process(w) ==
  /\ actor[w].pc = "idle"
  /\ Runnable
  /\ actor' = [actor EXCEPT ![w] =
       At(IF job.tried THEN "recover" ELSE Route(job), "process", job)]
  /\ UNCHANGED <<job, lease, avail, bound, binding, provider, ledger, outbox>>

(* What follows an incomplete receipt: Process routes the job, and            *)
(* handleProviderError goes on with the error it was called for.              *)
AfterRecovery(w, j) ==
  IF actor[w].arg = "process" THEN Route(j) ELSE "providerError"

UsageOr(j, usage) == IF j.usage = "none" THEN usage ELSE j.usage

(* PendingAssetStore.RecoverProviderResult: outputs with a usable asset row *)
Receipt == {o \in Outputs : avail[o] \in {"pending_billing", "available"}}

(* recoverProviderReceipt: a complete receipt moves the job to finalization,  *)
(* a new partial one is stored, anything else changes nothing.                *)
RecoverProviderReceipt(w) ==
  LET complete == [job EXCEPT !.status = "finalizing", !.phase = "artifact_finalize",
                              !.assets = Outputs, !.usage = UsageOr(job, "estimated")]
      partial == [job EXCEPT !.assets = Receipt]
      copy == actor[w].snap
  IN
  /\ actor[w].pc = "recover"
  /\ CASE Receipt = Outputs ->
            MutateJob(w, complete, LeaseOf(w), At("finalize", "none", complete))
       [] Receipt # Outputs /\ Receipt \notin {{}, copy.assets} ->
            MutateJob(w, partial, lease,
                      At(AfterRecovery(w, partial), actor[w].arg, partial))
       [] OTHER -> /\ Goto(w, AfterRecovery(w, copy), actor[w].arg)
                   /\ UNCHANGED <<job, lease>>
  /\ UNCHANGED <<avail, bound, binding, provider, ledger, outbox>>

(* submit: the row is claimed before the provider is called. *)
Submit(w) ==
  LET new == [job EXCEPT !.status = "running", !.phase = "provider_submit",
                         !.tried = TRUE]
  IN
  /\ actor[w].pc = "submit"
  /\ MutateJob(w, new, LeaseOf(w), At("submitCall", "none", new))
  /\ UNCHANGED <<avail, bound, binding, provider, ledger, outbox>>

(* PendingAssetStore.Save: deterministic ids, the row is overwritten. *)
SavePending(outs) ==
  avail' = [o \in Outputs |-> IF o \in outs THEN "pending_billing" ELSE avail[o]]

(* provider.Submit.  A synchronous handler saves outputs one by one and        *)
(* completes; an asynchronous one creates its task under the job's             *)
(* idempotency key.  Either may fail after part of its work.                   *)
SubmitCall(w) ==
  /\ actor[w].pc = "submitCall"
  /\ \/ ~Async /\ SavePending(Outputs) /\ Goto(w, "answer", "completed")
        /\ UNCHANGED provider
     \/ \E outs \in SUBSET Outputs, err \in {"retryable", "permanent"} :
          ~Async /\ SavePending(outs) /\ Goto(w, "recover", err)
          /\ UNCHANGED provider
     \/ /\ Async /\ UNCHANGED avail
        /\ provider' = IF provider = "none" THEN "running" ELSE provider
        /\ \/ Goto(w, "answer", "accepted")
           \/ Goto(w, "recover", "retryable")
     \/ /\ Async /\ UNCHANGED <<avail, provider>>
        /\ \E err \in {"retryable", "permanent"} : Goto(w, "recover", err)
  /\ UNCHANGED <<job, lease, bound, binding, ledger, outbox>>

(* poll: the persisted poll budget, then the claim. *)
Poll(w) ==
  LET copy == actor[w].snap
      new == [job EXCEPT !.status = "running", !.phase = "provider_poll",
                         !.tried = TRUE, !.polls = copy.polls + 1]
  IN
  /\ actor[w].pc = "poll"
  /\ IF copy.polls >= MaxPolls
       THEN Goto(w, "discard", "failProvider") /\ UNCHANGED <<job, lease>>
       ELSE MutateJob(w, new, LeaseOf(w), At("pollCall", "none", new))
  /\ UNCHANGED <<avail, bound, binding, provider, ledger, outbox>>

(* provider.Poll: the task's state, the asset saved when it is done. *)
PollCall(w) ==
  /\ actor[w].pc = "pollCall"
  /\ \/ /\ provider = "done" /\ SavePending(Outputs)
        /\ Goto(w, "answer", "completed")
     \/ /\ provider = "running" /\ UNCHANGED avail
        /\ Goto(w, "answer", "accepted")
     \/ /\ provider \in {"failed", "cancelled"} /\ UNCHANGED avail
        /\ Goto(w, "answer", provider)
     \/ \E outs \in SUBSET Outputs, err \in {"retryable", "permanent"} :
          /\ outs = {} \/ provider = "done"
          /\ SavePending(outs) /\ Goto(w, "recover", err)
  /\ UNCHANGED <<job, lease, bound, binding, provider, ledger, outbox>>

(* applyProviderResponse.  A submit replayed for a cancelled job continues    *)
(* with processCancellation on the accepted task.                             *)
ApplyProviderResponse(w) ==
  LET copy == actor[w].snap
      waiting == [job EXCEPT !.status = "waiting_provider",
                             !.phase = "provider_poll", !.task = TRUE]
      finished(usage) ==
        [job EXCEPT !.status = "finalizing", !.phase = "artifact_finalize",
                    !.assets = Outputs, !.usage = UsageOr(job, usage)]
      replayed == copy.phase = "provider_submit" /\ copy.cancel
      exhausted == copy.phase = "provider_poll" /\ copy.polls >= MaxPolls
  IN
  /\ actor[w].pc = "answer"
  /\ CASE actor[w].arg = "accepted" /\ ~exhausted ->
            MutateJob(w, waiting, NoLease,
                      IF replayed THEN At("cancel", "none", waiting) ELSE Idle)
       [] actor[w].arg = "completed" ->
            \E usage \in {"reported", "estimated"} :
              MutateJob(w, finished(usage), LeaseOf(w),
                        At("finalize", "none", finished(usage)))
       [] actor[w].arg = "cancelled" ->
            Goto(w, "discard", "cancelJob") /\ UNCHANGED <<job, lease>>
       [] OTHER ->
            Goto(w, "discard", "failProvider") /\ UNCHANGED <<job, lease>>
  /\ UNCHANGED <<avail, bound, binding, provider, ledger, outbox>>

(* scheduleProviderRetry *)
ScheduleProviderRetry(w) ==
  MutateJob(w, [job EXCEPT !.status = "retry_wait", !.retry = NextRetry(job),
                           !.manual = FALSE], NoLease, Idle)

(* Fault injection: provider errors are retried without a budget. *)
RetryProviderForever(w) ==
  /\ actor[w].pc = "providerError"
  /\ IF actor[w].arg = "retryable"
       THEN ScheduleProviderRetry(w)
       ELSE Goto(w, "discard", "failProvider") /\ UNCHANGED <<job, lease>>
  /\ UNCHANGED <<avail, bound, binding, provider, ledger, outbox>>

(* handleProviderError after the receipt lookup *)
HandleProviderError(w) ==
  /\ actor[w].pc = "providerError"
  /\ IF actor[w].arg = "retryable" /\ actor[w].snap.retry + 1 < MaxAttempts
       THEN ScheduleProviderRetry(w)
       ELSE Goto(w, "discard", "failProvider") /\ UNCHANGED <<job, lease>>
  /\ UNCHANGED <<avail, bound, binding, provider, ledger, outbox>>

(* processCancellation: local without a task, else the claim of the call *)
ProcessCancellation(w) ==
  LET new == [job EXCEPT !.status = "running", !.phase = "provider_poll"] IN
  /\ actor[w].pc = "cancel"
  /\ IF actor[w].snap.task
       THEN MutateJob(w, new, LeaseOf(w), At("cancelCall", "none", new))
       ELSE Goto(w, "discard", "cancelJob") /\ UNCHANGED <<job, lease>>
  /\ UNCHANGED <<avail, bound, binding, provider, ledger, outbox>>

(* The provider stops a running task. *)
TaskCancelled == provider' = IF provider = "running" THEN "cancelled" ELSE provider

(* provider.Cancel: confirmed, or not (yet) confirmed or refused, which Poll  *)
(* observes.                                                                  *)
CancelCall(w) ==
  /\ actor[w].pc = "cancelCall"
  /\ \/ TaskCancelled /\ Goto(w, "discard", "cancelJob")
     \/ TaskCancelled /\ Goto(w, "poll", "none")
     \/ UNCHANGED provider /\ Goto(w, "poll", "none")
  /\ UNCHANGED <<job, lease, avail, bound, binding, ledger, outbox>>

(* A transient error of provider.Cancel is retried without a budget. *)
CancelLost(w) ==
  /\ actor[w].pc = "cancelCall"
  /\ "cancel" \in Faults
  /\ TaskCancelled \/ UNCHANGED provider
  /\ Goto(w, "cancelRetry", "none")
  /\ UNCHANGED <<job, lease, avail, bound, binding, ledger, outbox>>

RetryCancellation(w) ==
  /\ actor[w].pc = "cancelRetry"
  /\ ScheduleProviderRetry(w)
  /\ UNCHANGED <<avail, bound, binding, provider, ledger, outbox>>

ClaimFinalization(w) ==
  LET new == [job EXCEPT !.status = "finalizing"] IN
  /\ actor[w].pc = "claim"
  /\ MutateJob(w, new, LeaseOf(w), At("finalize", "none", new))
  /\ UNCHANGED <<avail, bound, binding, provider, ledger, outbox>>

FailProvider(w) == SettleAs(w, "failProvider", "failed")

CancelJob(w) == SettleAs(w, "cancelJob", "cancelled")

(* The program points at which startProviderHeartbeat is running. *)
Heartbeating(w) ==
  \/ actor[w].pc \in {"submitCall", "pollCall", "cancelCall", "finalize", "quote",
                      "inspect", "check", "reserve", "charge", "record", "recheck",
                      "commit", "reload", "retry"}
  \/ actor[w].pc \in {"discard", "settle"}
     /\ actor[w].arg \notin {"failProvider", "cancelJob"}

(* RenewJobLease is refused because the lease has another owner: the call     *)
(* context is cancelled and the worker returns.                               *)
HeartbeatLost(w) ==
  /\ Heartbeating(w)
  /\ lease.owner # w
  /\ Return(w)
  /\ UNCHANGED <<job, lease, avail, bound, binding, provider, ledger, outbox>>

(* The provider's own progress on an accepted task. *)
ProviderProgress ==
  /\ provider = "running"
  /\ provider' \in {"done", "failed"}
  /\ UNCHANGED <<job, lease, actor, avail, bound, binding, ledger, outbox>>

WorkerStep(w) ==
  \/ Process(w) \/ RecoverProviderReceipt(w) \/ Submit(w) \/ SubmitCall(w)
  \/ Poll(w) \/ PollCall(w) \/ ApplyProviderResponse(w) \/ HandleProviderError(w)
  \/ ProcessCancellation(w) \/ CancelCall(w) \/ RetryCancellation(w)
  \/ ClaimFinalization(w) \/ FailProvider(w) \/ CancelJob(w)
  \/ HeartbeatLost(w) \/ RenewJobLease(w)
=============================================================================
