------------------------ MODULE GenerationJobProofs ------------------------
(***************************************************************************)
(* The types and the money properties of GenerationJob, what a job owes its *)
(* provider and what it promises to its batch, proved for any number of     *)
(* workers, dispatchers and outputs, any budgets and prices, and any        *)
(* combination of faults.                                                   *)
(***************************************************************************)
EXTENDS GenerationJobContract, TLAPS

(* The row a copy starts from, and the lease values the code writes. *)
LEMMA StoreTypes ==
  /\ CreatedJob \in Jobs
  /\ NoLease \in Leases
  /\ Idle \in Locals
  /\ \A p \in Actors : LeaseOf(p) \in Leases
BY StoreAssumption DEF CreatedJob, Jobs, NoLease, Leases, Idle, Locals, LeaseOf,
   Pcs, Args, Statuses, TerminalStatuses, Phases, CompensationStatuses

(* A local state built from a row is well-typed. *)
LEMMA AtType ==
  ASSUME NEW pc \in Pcs, NEW arg \in Args, NEW copy \in Jobs
  PROVE  At(pc, arg, copy) \in Locals
BY Zenon DEF At, Locals

(* Goto keeps the type of actor. *)
LEMMA GotoType ==
  ASSUME actor \in [Actors -> Locals], NEW p \in Actors,
         NEW pc \in Pcs, NEW arg \in Args, Goto(p, pc, arg)
  PROVE  actor' \in [Actors -> Locals]
BY ZenonT(60) DEF Goto, Locals

(* Return keeps the type of actor. *)
LEMMA ReturnType ==
  ASSUME actor \in [Actors -> Locals], NEW p \in Actors, Return(p)
  PROVE  actor' \in [Actors -> Locals]
BY Zenon, StoreTypes DEF Return

(* Write gives the row, the lease and actor their types. *)
LEMMA WriteType ==
  ASSUME actor \in [Actors -> Locals], NEW p \in Actors, NEW new \in Jobs,
         NEW newLease \in Leases, NEW next \in Locals,
         Write(p, new, newLease, next)
  PROVE  job' \in Jobs /\ lease' \in Leases /\ actor' \in [Actors -> Locals]
BY Zenon DEF Write, Locals

(* MutateJob keeps the types whether or not the compare-and-swap succeeds. *)
LEMMA MutateType ==
  ASSUME job \in Jobs, lease \in Leases, actor \in [Actors -> Locals],
         NEW p \in Actors, NEW new \in Jobs, NEW newLease \in Leases,
         NEW next \in Locals, MutateJob(p, new, newLease, next)
  PROVE  job' \in Jobs /\ lease' \in Leases /\ actor' \in [Actors -> Locals]
BY Zenon, WriteType, ReturnType DEF MutateJob

(* The retry counter stays within its saturation bound. *)
LEMMA NextRetryType ==
  ASSUME NEW j \in Jobs
  PROVE  NextRetry(j) \in 0..MaxAttempts
BY StoreAssumption DEF NextRetry, Jobs

(* A job routed by Process continues at a program point of the worker. *)
LEMMA RouteType ==
  ASSUME NEW j \in Jobs
  PROVE  Route(j) \in Pcs
BY Zenon DEF Route, Pcs

(* Every step of LifecycleWorker is type-correct. *)
LEMMA WorkerTypes ==
  ASSUME TypeOK, NEW w \in Workers, WorkerStep(w)
  PROVE  TypeOK'
<1> USE DEF TypeOK
<1>w. w \in Actors
  BY Zenon DEF Actors
<1>s. actor[w] \in Locals /\ actor[w].snap \in Jobs /\ actor[w].arg \in Args
      /\ LeaseOf(w) \in Leases /\ NoLease \in Leases /\ Idle \in Locals
  BY Zenon, <1>w, StoreTypes DEF Locals
<1>1. CASE Process(w)
  <2> DEFINE pc == IF job.tried THEN "recover" ELSE Route(job)
  <2>1. pc \in Pcs
    BY Zenon, RouteType DEF Pcs
  <2>2. "process" \in Args
    BY Zenon DEF Args
  <2>3. At(pc, "process", job) \in Locals
    BY Zenon, <2>1, <2>2, AtType
  <2>4. QED
    BY Zenon, <1>1, <1>w, <2>3 DEF Process
<1>2. CASE RecoverProviderReceipt(w)
  <2>1. \A j \in Jobs : AfterRecovery(w, j) \in Pcs
    BY Zenon, RouteType DEF AfterRecovery, Pcs
  <2> DEFINE complete == [job EXCEPT !.status = "finalizing", !.phase = "artifact_finalize",
                                     !.assets = Outputs, !.usage = UsageOr(job, "estimated")]
             partial == [job EXCEPT !.assets = Receipt]
  <2>2. complete \in Jobs /\ partial \in Jobs
    BY Zenon DEF Jobs, UsageOr, Receipt, Statuses, Phases
  <2>3. /\ At("finalize", "none", complete) \in Locals
        /\ At(AfterRecovery(w, partial), actor[w].arg, partial) \in Locals
    <3>1. At("finalize", "none", complete) \in Locals
      BY Zenon, <2>2, AtType DEF Pcs, Args
    <3>2. At(AfterRecovery(w, partial), actor[w].arg, partial) \in Locals
      BY Zenon, <1>s, <2>1, <2>2, AtType
    <3>3. QED
      BY Zenon, <3>1, <3>2
  <2>4. CASE MutateJob(w, complete, LeaseOf(w), At("finalize", "none", complete))
    BY Zenon, <1>2, <1>w, <1>s, <2>2, <2>3, <2>4, MutateType DEF RecoverProviderReceipt
  <2>5. CASE MutateJob(w, partial, lease,
                       At(AfterRecovery(w, partial), actor[w].arg, partial))
    BY Zenon, <1>2, <1>w, <1>s, <2>2, <2>3, <2>5, MutateType DEF RecoverProviderReceipt
  <2>6. CASE /\ Goto(w, AfterRecovery(w, actor[w].snap), actor[w].arg)
             /\ UNCHANGED <<job, lease>>
    BY Zenon, <1>2, <1>w, <1>s, <2>1, <2>6, GotoType DEF RecoverProviderReceipt
  <2>7. QED
    BY Zenon, <1>2, <2>4, <2>5, <2>6 DEF RecoverProviderReceipt
<1>3. CASE Submit(w)
  <2> DEFINE new == [job EXCEPT !.status = "running", !.phase = "provider_submit",
                                !.tried = TRUE]
  <2>1. new \in Jobs
    BY Zenon DEF Jobs, Statuses, Phases
  <2>2. At("submitCall", "none", new) \in Locals
    BY Zenon, <2>1, AtType DEF Pcs, Args
  <2>3. QED
    BY Zenon, <1>3, <1>w, <1>s, <2>1, <2>2, MutateType DEF Submit
<1>4. CASE SubmitCall(w)
  <2>1. PICK pc \in {"answer", "recover"},
             arg \in {"completed", "retryable", "permanent", "accepted"} :
          Goto(w, pc, arg)
    BY Zenon, <1>4 DEF SubmitCall
  <2>2. actor' \in [Actors -> Locals]
    BY <1>w, <2>1, GotoType DEF Pcs, Args
  <2>3. avail' \in [Outputs -> {"absent", "pending_billing", "available", "quarantined"}]
    BY Zenon, <1>4 DEF SubmitCall, SavePending
  <2>4. provider' \in {"none", "running", "done", "failed", "cancelled"}
    BY Zenon, <1>4 DEF SubmitCall
  <2>5. QED
    BY Zenon, <1>4, <2>2, <2>3, <2>4 DEF SubmitCall
<1>5. CASE Poll(w)
  <2> DEFINE new == [job EXCEPT !.status = "running", !.phase = "provider_poll",
                                !.tried = TRUE, !.polls = actor[w].snap.polls + 1]
  <2>1. CASE actor[w].snap.polls >= MaxPolls
    BY Zenon, <1>5, <1>w, <2>1, GotoType DEF Poll, Pcs, Args
  <2>2. CASE ~(actor[w].snap.polls >= MaxPolls)
    <3>1. actor[w].snap.polls + 1 \in 0..MaxPolls
      BY <1>s, <2>2, StoreAssumption DEF Jobs
    <3>2. new \in Jobs
      BY Zenon, <3>1 DEF Jobs, Statuses, Phases
    <3>3. At("pollCall", "none", new) \in Locals
      BY Zenon, <3>2, AtType DEF Pcs, Args
    <3>4. QED
      BY Zenon, <1>5, <1>w, <1>s, <2>2, <3>2, <3>3, MutateType DEF Poll
  <2>3. QED
    BY Zenon, <2>1, <2>2
<1>6. CASE PollCall(w)
  <2>1. PICK pc \in {"answer", "recover"},
             arg \in {"completed", "retryable", "permanent", "accepted", "failed", "cancelled"} :
          Goto(w, pc, arg)
    BY Zenon, <1>6 DEF PollCall
  <2>2. actor' \in [Actors -> Locals]
    BY <1>w, <2>1, GotoType DEF Pcs, Args
  <2>3. avail' \in [Outputs -> {"absent", "pending_billing", "available", "quarantined"}]
    BY Zenon, <1>6 DEF PollCall, SavePending
  <2>4. QED
    BY Zenon, <1>6, <2>2, <2>3 DEF PollCall
<1>7. CASE ApplyProviderResponse(w)
  <2> DEFINE waiting == [job EXCEPT !.status = "waiting_provider",
                                    !.phase = "provider_poll", !.task = TRUE]
             finished(usage) ==
               [job EXCEPT !.status = "finalizing", !.phase = "artifact_finalize",
                           !.assets = Outputs, !.usage = UsageOr(job, usage)]
             next == IF actor[w].snap.phase = "provider_submit" /\ actor[w].snap.cancel
                       THEN At("cancel", "none", waiting) ELSE Idle
  <2>1. waiting \in Jobs
    BY Zenon DEF Jobs, Statuses, Phases
  <2>2. \A usage \in {"reported", "estimated"} : finished(usage) \in Jobs
    BY ZenonT(60) DEF Jobs, Statuses, Phases, UsageOr
  <2>3. next \in Locals
    BY Zenon, <1>s, <2>1, AtType DEF Pcs, Args
  <2>4. \A usage \in {"reported", "estimated"} :
          At("finalize", "none", finished(usage)) \in Locals
    BY Zenon, <2>2, AtType DEF Pcs, Args
  <2>5. CASE MutateJob(w, waiting, NoLease, next)
    BY Zenon, <1>7, <1>w, <1>s, <2>1, <2>3, <2>5, MutateType DEF ApplyProviderResponse
  <2>6. ASSUME NEW usage \in {"reported", "estimated"},
               MutateJob(w, finished(usage), LeaseOf(w),
                         At("finalize", "none", finished(usage)))
        PROVE  TypeOK'
    BY Zenon, <1>7, <1>w, <1>s, <2>2, <2>4, <2>6, MutateType DEF ApplyProviderResponse
  <2>7. ASSUME NEW goal \in {"cancelJob", "failProvider"},
               Goto(w, "discard", goal) /\ UNCHANGED <<job, lease>>
        PROVE  TypeOK'
    BY Zenon, <1>7, <1>w, <2>7, GotoType DEF ApplyProviderResponse, Pcs, Args
  <2>8. QED
    BY Zenon, <1>7, <2>5, <2>6, <2>7 DEF ApplyProviderResponse
<1>8. ASSUME ScheduleProviderRetry(w), UNCHANGED <<avail, bound, binding, ledger, outbox>>,
             provider' \in {"none", "running", "done", "failed", "cancelled"}
      PROVE  TypeOK'
  <2> DEFINE new == [job EXCEPT !.status = "retry_wait", !.retry = NextRetry(job),
                                !.manual = FALSE]
  <2>1. new \in Jobs
    BY Zenon, NextRetryType DEF Jobs, Statuses
  <2>2. QED
    BY Zenon, <1>8, <1>w, <1>s, <2>1, MutateType DEF ScheduleProviderRetry
<1>9. CASE HandleProviderError(w)
  <2>1. CASE ScheduleProviderRetry(w)
    BY Zenon, <1>8, <1>9, <2>1 DEF HandleProviderError
  <2>2. CASE Goto(w, "discard", "failProvider") /\ UNCHANGED <<job, lease>>
    BY Zenon, <1>9, <1>w, <2>2, GotoType DEF HandleProviderError, Pcs, Args
  <2>3. QED
    BY Zenon, <1>9, <2>1, <2>2 DEF HandleProviderError
<1>10. CASE ProcessCancellation(w)
  <2> DEFINE new == [job EXCEPT !.status = "running", !.phase = "provider_poll"]
  <2>1. new \in Jobs
    BY Zenon DEF Jobs, Statuses, Phases
  <2>2. At("cancelCall", "none", new) \in Locals
    BY Zenon, <2>1, AtType DEF Pcs, Args
  <2>3. CASE MutateJob(w, new, LeaseOf(w), At("cancelCall", "none", new))
    BY Zenon, <1>10, <1>w, <1>s, <2>1, <2>2, <2>3, MutateType DEF ProcessCancellation
  <2>4. CASE Goto(w, "discard", "cancelJob") /\ UNCHANGED <<job, lease>>
    BY Zenon, <1>10, <1>w, <2>4, GotoType DEF ProcessCancellation, Pcs, Args
  <2>5. QED
    BY Zenon, <1>10, <2>3, <2>4 DEF ProcessCancellation
<1>11. CASE CancelCall(w)
  <2>1. PICK pc \in {"discard", "poll"}, arg \in {"cancelJob", "none"} : Goto(w, pc, arg)
    BY Zenon, <1>11 DEF CancelCall
  <2>2. actor' \in [Actors -> Locals]
    BY <1>w, <2>1, GotoType DEF Pcs, Args
  <2>3. QED
    BY Zenon, <1>11, <2>2 DEF CancelCall, TaskCancelled
<1>12. CASE RetryCancellation(w)
  BY Zenon, <1>8, <1>12 DEF RetryCancellation
<1>13. CASE ClaimFinalization(w)
  <2> DEFINE new == [job EXCEPT !.status = "finalizing"]
  <2>1. new \in Jobs
    BY Zenon DEF Jobs, Statuses
  <2>2. At("finalize", "none", new) \in Locals
    BY Zenon, <2>1, AtType DEF Pcs, Args
  <2>3. QED
    BY Zenon, <1>13, <1>w, <1>s, <2>1, <2>2, MutateType DEF ClaimFinalization
<1>14. ASSUME NEW goal, NEW status \in {"failed", "cancelled"}, SettleAs(w, goal, status)
       PROVE  TypeOK'
  <2> DEFINE new == [job EXCEPT !.status = status, !.comp = "not_required",
                                !.manual = FALSE]
  <2>1. new \in Jobs
    BY Zenon DEF Jobs, Statuses, TerminalStatuses, CompensationStatuses
  <2>2. QED
    BY Zenon, <1>14, <1>w, <1>s, <2>1, MutateType DEF SettleAs
<1>15. CASE FailProvider(w) \/ CancelJob(w)
  BY Zenon, <1>14, <1>15 DEF FailProvider, CancelJob
<1>16. CASE HeartbeatLost(w)
  BY Zenon, <1>16, <1>w, ReturnType DEF HeartbeatLost
<1>17. CASE RenewJobLease(w)
  BY ZenonT(60), <1>17 DEF RenewJobLease, Leases
<1>18. QED
  BY Zenon, <1>1, <1>2, <1>3, <1>4, <1>5, <1>6, <1>7, <1>9, <1>10, <1>11, <1>12, <1>13,
     <1>15, <1>16, <1>17 DEF WorkerStep

(* Every step of FinalizationEngine is type-correct; that the ledger is charged *)
(* with a price and not with a missing quote rests on the settlement invariant.  *)
LEMMA FinalizeTypes ==
  ASSUME TypeOK, SettlementInv, NEW w \in Workers, Finalize(w) \/ FinalizeFault(w)
  PROVE  TypeOK'
<1> USE DEF TypeOK
<1>w. w \in Actors
  BY Zenon DEF Actors
<1>s. actor[w] \in Locals /\ actor[w].snap \in Jobs /\ actor[w].arg \in Args
      /\ NoLease \in Leases /\ Idle \in Locals
  BY Zenon, <1>w, StoreTypes DEF Locals
<1>q. actor[w].snap.quote \in {NoQuote, ReportedPoints, EstimatedPoints}
  BY Zenon, <1>s DEF Jobs
<1>1. CASE BeginFinalize(w)
  <2> DEFINE new == [job EXCEPT !.status = "finalizing", !.phase = "artifact_finalize"]
  <2>1. new \in Jobs
    BY Zenon DEF Jobs, Statuses, Phases
  <2>2. At("quote", "none", new) \in Locals
    BY Zenon, <2>1, AtType DEF Pcs, Args
  <2>3. CASE Return(w) /\ UNCHANGED <<job, lease>>
    BY Zenon, <1>1, <1>w, <2>3, ReturnType DEF BeginFinalize
  <2>4. CASE Write(w, new, lease, At("quote", "none", new))
    BY Zenon, <1>1, <1>w, <2>1, <2>2, <2>4, WriteType DEF BeginFinalize
  <2>5. QED
    BY Zenon, <1>1, <2>3, <2>4 DEF BeginFinalize
<1>2. CASE FreezeSettlementQuote(w)
  <2> DEFINE new == [job EXCEPT !.quote = Price(actor[w].snap.usage)]
  <2>1. new \in Jobs
    BY Zenon DEF Jobs, Price
  <2>2. At("inspect", "none", new) \in Locals /\ At("inspect", "none", job) \in Locals
    BY Zenon, <2>1, AtType DEF Pcs, Args
  <2>3. CASE Write(w, new, lease, At("inspect", "none", new))
    BY Zenon, <1>2, <1>w, <2>1, <2>2, <2>3, WriteType DEF FreezeSettlementQuote
  <2>4. CASE /\ actor' = [actor EXCEPT ![w] = At("inspect", "none", job)]
             /\ UNCHANGED <<job, lease>>
    BY Zenon, <1>2, <1>w, <2>2, <2>4 DEF FreezeSettlementQuote
  <2>5. QED
    BY Zenon, <1>2, <2>3, <2>4 DEF FreezeSettlementQuote
<1>3. Succeeded(job) \in Jobs
  BY ZenonT(60) DEF Succeeded, Jobs, Statuses, TerminalStatuses, Phases, CompensationStatuses
<1>4. CASE InspectCommit(w)
  <2>1. CASE MutateJob(w, Succeeded(job), NoLease, Idle)
    BY Zenon, <1>4, <1>w, <1>s, <1>3, <2>1, MutateType DEF InspectCommit
  <2>2. CASE /\ Goto(w, "discard", CancelGoal(actor[w].snap)) \/ Goto(w, "check", "none")
             /\ UNCHANGED <<job, lease>>
    BY Zenon, <1>4, <1>w, <2>2, GotoType DEF InspectCommit, CancelGoal, Pcs, Args
  <2>3. QED
    BY Zenon, <1>4, <2>1, <2>2 DEF InspectCommit
<1>5. CASE CheckBinding(w)
  <2>1. PICK pc \in {"discard", "reserve", "recheck"},
             arg \in {"failAfterCharge", "failWithoutCharge", "none"} : Goto(w, pc, arg)
    BY Zenon, <1>5 DEF CheckBinding
  <2>2. QED
    BY Zenon, <1>5, <1>w, <2>1, GotoType DEF CheckBinding, Pcs, Args
<1>6. CASE BeginCharge(w)
  <2> DEFINE new == [job EXCEPT !.phase = "billing_charge"]
  <2>1. new \in Jobs
    BY Zenon DEF Jobs, Phases
  <2>2. At("charge", "none", new) \in Locals
    BY Zenon, <2>1, AtType DEF Pcs, Args
  <2>3. QED
    BY Zenon, <1>6, <1>w, <1>s, <2>1, <2>2, MutateType DEF BeginCharge
<1>7. CASE Charge(w) \/ ChargeLost(w)
  <2>1. actor[w].snap.quote \in {ReportedPoints, EstimatedPoints}
    BY Zenon, <1>7, <1>w, <1>q DEF Charge, ChargeLost, SettlementInv, StepJustified, NoQuote
  <2>2. ledger' \in [charge : Points, refund : Points]
    BY Zenon, <1>7, <2>1 DEF Charge, ChargeLost, ChargeApplied, Points
  <2>3. PICK pc \in {"record", "retry"}, arg \in {"none", "billing"} : Goto(w, pc, arg)
    BY Zenon, <1>7 DEF Charge, ChargeLost
  <2>4. actor' \in [Actors -> Locals]
    BY <1>w, <2>3, GotoType DEF Pcs, Args
  <2>5. QED
    BY Zenon, <1>7, <2>2, <2>4 DEF Charge, ChargeLost
<1>8. CASE ChargeRejected(w)
  BY Zenon, <1>8, <1>w, GotoType DEF ChargeRejected, Pcs, Args
<1>9. CASE RecordCharge(w)
  <2> DEFINE new == [job EXCEPT !.txn = TRUE]
  <2>1. new \in Jobs
    BY Zenon DEF Jobs
  <2>2. At("recheck", "none", new) \in Locals /\ At("recheck", "none", job) \in Locals
    BY Zenon, <2>1, AtType DEF Pcs, Args
  <2>3. CASE Write(w, new, lease, At("recheck", "none", new))
    BY Zenon, <1>9, <1>w, <2>1, <2>2, <2>3, WriteType DEF RecordCharge
  <2>4. CASE /\ actor' = [actor EXCEPT ![w] = At("recheck", "none", job)]
             /\ UNCHANGED <<job, lease>>
    BY Zenon, <1>9, <1>w, <2>2, <2>4 DEF RecordCharge
  <2>5. QED
    BY Zenon, <1>9, <2>3, <2>4 DEF RecordCharge
<1>10. CASE RecheckBinding(w)
  <2>1. PICK pc \in {"discard", "commit"}, arg \in {"failAfterCharge", "none"} :
          Goto(w, pc, arg)
    BY Zenon, <1>10 DEF RecheckBinding
  <2>2. QED
    BY Zenon, <1>10, <1>w, <2>1, GotoType DEF RecheckBinding, Pcs, Args
<1>11. CASE Commit(w) \/ CommitJobTxLost(w)
  <2>1. avail' \in [Outputs -> {"absent", "pending_billing", "available", "quarantined"}]
    BY Zenon, <1>11 DEF Commit, CommitJobTxLost, CommitDomain
  <2>2. bound' \in BOOLEAN
    BY Zenon, <1>11 DEF Commit, CommitJobTxLost, CommitDomain
  <2>3. job' \in Jobs /\ lease' \in Leases /\ actor' \in [Actors -> Locals]
    <3>1. ASSUME NEW arg \in {"retryable", "permanent"},
                 Goto(w, "reload", arg) /\ UNCHANGED <<job, lease>>
          PROVE  job' \in Jobs /\ lease' \in Leases /\ actor' \in [Actors -> Locals]
      BY Zenon, <3>1, <1>w, GotoType DEF Pcs, Args
    <3>2. CASE Write(w, Succeeded(job), NoLease, Idle)
      BY Zenon, <3>2, <1>w, <1>s, <1>3, WriteType
    <3>3. QED
      BY Zenon, <1>11, <3>1, <3>2 DEF Commit, CommitJobTxLost
  <2>4. QED
    BY Zenon, <1>11, <2>1, <2>2, <2>3 DEF Commit, CommitJobTxLost
<1>12. CASE AfterCommitError(w)
  <2> DEFINE goals == {"failAfterCharge", "cancelBeforeCommit", "failPermanent"}
  <2>1. /\ \A goal \in goals : At("discard", goal, job) \in Locals
        /\ At("retry", "binding", job) \in Locals
    BY Zenon, AtType DEF Pcs, Args
  <2>2. \E next \in Locals : actor' = [actor EXCEPT ![w] = next]
    BY Zenon, <1>12, <2>1 DEF AfterCommitError, CancelGoal
  <2>3. QED
    BY Zenon, <1>12, <1>w, <2>2 DEF AfterCommitError
<1>13. CASE StoreError(w)
  <2>1. PICK pc \in {"retry", "reload"}, arg \in {"binding", "retryable"} : Goto(w, pc, arg)
    BY Zenon, <1>13 DEF StoreError
  <2>2. QED
    BY Zenon, <1>13, <1>w, <2>1, GotoType DEF StoreError, Pcs, Args
<1>14. CASE ScheduleRetry(w)
  <2> DEFINE new == [job EXCEPT !.status = "retry_wait", !.retry = NextRetry(job),
                                !.manual = FALSE]
  <2>1. new \in Jobs
    BY Zenon, NextRetryType DEF Jobs, Statuses
  <2>2. CASE MutateJob(w, new, NoLease, Idle)
    BY Zenon, <1>14, <1>w, <1>s, <2>1, <2>2, MutateType DEF ScheduleRetry
  <2>3. ASSUME NEW goal \in {"failAfterCharge", "failPermanent"},
               Goto(w, "discard", goal), UNCHANGED <<job, lease>>
        PROVE  TypeOK'
    BY Zenon, <1>14, <1>w, <2>3, GotoType DEF ScheduleRetry, Pcs, Args
  <2>4. QED
    BY Zenon, <1>14, <2>2, <2>3 DEF ScheduleRetry
<1>15. CASE DiscardResult(w)
  <2>1. actor' \in [Actors -> Locals]
    BY <1>15, <1>w, <1>s, GotoType DEF DiscardResult, Pcs
  <2>2. avail' \in [Outputs -> {"absent", "pending_billing", "available", "quarantined"}]
    BY Zenon, <1>15 DEF DiscardResult
  <2>3. QED
    BY Zenon, <1>15, <2>1, <2>2 DEF DiscardResult
<1>16. ASSUME NEW goal, NEW status \in {"failed", "cancelled"}, SettleAs(w, goal, status)
       PROVE  TypeOK'
  <2> DEFINE new == [job EXCEPT !.status = status, !.comp = "not_required",
                                !.manual = FALSE]
  <2>1. new \in Jobs
    BY Zenon DEF Jobs, Statuses, TerminalStatuses, CompensationStatuses
  <2>2. QED
    BY Zenon, <1>16, <1>w, <1>s, <2>1, MutateType DEF SettleAs
<1>17. CASE FailWithoutCharge(w) \/ CancelBeforeCommit(w) \/ FailPermanent(w)
  BY Zenon, <1>16, <1>17 DEF FailWithoutCharge, CancelBeforeCommit, FailPermanent
<1>18. CASE FailAfterCharge(w)
  <2> DEFINE new == [job EXCEPT !.status = IF job.cancel THEN "cancelled" ELSE "failed",
                                !.comp = "pending", !.manual = FALSE]
  <2>1. new \in Jobs
    BY ZenonT(60) DEF Jobs, Statuses, TerminalStatuses, CompensationStatuses
  <2>2. outbox' \in [pending : SUBSET Rows, requested : BOOLEAN]
    BY Zenon, <1>18 DEF FailAfterCharge, Rows
  <2>3. QED
    BY Zenon, <1>18, <1>w, <1>s, <2>1, <2>2, MutateType DEF FailAfterCharge
<1>19. QED
  BY Zenon, <1>1, <1>2, <1>4, <1>5, <1>6, <1>7, <1>8, <1>9, <1>10, <1>11, <1>12, <1>13,
     <1>14, <1>15, <1>17, <1>18 DEF Finalize, FinalizeFault

(* Every step of CompensationService is type-correct. *)
LEMMA CompensatorTypes ==
  ASSUME TypeOK, NEW c \in Compensators, CompensatorStep(c) \/ CompensatorFault(c)
  PROVE  TypeOK'
<1> USE DEF TypeOK
<1>c. c \in Actors
  BY Zenon DEF Actors
<1>s. actor[c] \in Locals /\ actor[c].arg \in Args
      /\ NoLease \in Leases /\ LeaseOf(c) \in Leases
  BY Zenon, <1>c, StoreTypes DEF Locals
<1>1. CASE RunCompensation(c)
  <2>1. PICK row \in outbox.pending, pc \in {"ack", "claimRefund"} :
          actor' = [actor EXCEPT ![c] = At(pc, row, job)]
    BY Zenon, <1>1 DEF RunCompensation
  <2>2. row \in Args
    BY Zenon DEF Args
  <2>3. At(pc, row, job) \in Locals
    BY Zenon, <2>2, AtType DEF Pcs
  <2>4. QED
    BY Zenon, <1>1, <1>c, <2>1, <2>3 DEF RunCompensation
<1>2. CASE ClaimCompensation(c)
  <2> DEFINE new == [job EXCEPT !.comp = "running", !.phase = "compensation"]
  <2>1. new \in Jobs
    BY Zenon DEF Jobs, CompensationStatuses, Phases
  <2>2. At("refund", actor[c].arg, new) \in Locals
    BY Zenon, <1>s, <2>1, AtType DEF Pcs
  <2>3. QED
    BY Zenon, <1>2, <1>c, <1>s, <2>1, <2>2, MutateType DEF ClaimCompensation
<1>3. CASE Refund(c) \/ RefundLost(c) \/ RefundRejected(c)
  <2>1. PICK pc \in {"complete", "refundRetry", "refundFailed"} : Goto(c, pc, actor[c].arg)
    BY Zenon, <1>3 DEF Refund, RefundLost, RefundRejected
  <2>2. actor' \in [Actors -> Locals]
    BY <1>c, <1>s, <2>1, GotoType DEF Pcs
  <2>3. ledger' \in [charge : Points, refund : Points]
    BY Zenon, <1>3 DEF Refund, RefundLost, RefundRejected, RefundApplied
  <2>4. QED
    BY Zenon, <1>3, <2>2, <2>3 DEF Refund, RefundLost, RefundRejected
<1>4. CASE CompleteCompensation(c)
  <2> DEFINE new == [job EXCEPT !.comp = "completed"]
  <2>1. new \in Jobs
    BY Zenon DEF Jobs, CompensationStatuses
  <2>2. At("ack", actor[c].arg, new) \in Locals
    BY Zenon, <1>s, <2>1, AtType DEF Pcs
  <2>3. QED
    BY Zenon, <1>4, <1>c, <1>s, <2>1, <2>2, MutateType DEF CompleteCompensation
<1>5. CASE FailCompensation(c)
  <2> DEFINE new == [job EXCEPT !.comp = "pending", !.phase = "compensation",
                                !.manual = TRUE]
  <2>1. new \in Jobs
    BY Zenon DEF Jobs, CompensationStatuses, Phases
  <2>2. At("ack", actor[c].arg, new) \in Locals
    BY Zenon, <1>s, <2>1, AtType DEF Pcs
  <2>3. QED
    BY Zenon, <1>5, <1>c, <1>s, <2>1, <2>2, MutateType DEF FailCompensation
<1>6. CASE RetryCompensation(c)
  <2> DEFINE new == [job EXCEPT !.comp = "retry_wait", !.phase = "compensation",
                                !.retry = NextRetry(job), !.manual = FALSE]
  <2>1. new \in Jobs
    BY Zenon, NextRetryType DEF Jobs, CompensationStatuses, Phases
  <2>2. At("ack", actor[c].arg, new) \in Locals
    BY Zenon, <1>s, <2>1, AtType DEF Pcs
  <2>3. FreeRows # {} => (CHOOSE r \in FreeRows : TRUE) \in Rows
    BY Zenon DEF FreeRows, Rows
  <2>4. outbox' \in [pending : SUBSET Rows, requested : BOOLEAN]
    BY Zenon, <1>6, <2>3 DEF RetryCompensation
  <2>5. QED
    BY Zenon, <1>6, <1>c, <1>s, <2>1, <2>2, <2>4, MutateType DEF RetryCompensation
<1>7. CASE AckRow(c)
  BY Zenon, <1>7, <1>c, ReturnType DEF AckRow
<1>8. QED
  BY Zenon, <1>1, <1>2, <1>3, <1>4, <1>5, <1>6, <1>7 DEF CompensatorStep, CompensatorFault

(* The environment's steps are type-correct. *)
LEMMA EnvironmentTypes ==
  ASSUME TypeOK,
         \/ Environment \/ LeaseExpires \/ LeaseLapses \/ DeadLetter
         \/ \E p \in Actors : Abandon(p)
         \/ \E w \in Workers : CancelLost(w)
  PROVE  TypeOK'
<1> USE DEF TypeOK
<1>s. ASSUME EveryCopyStale
      PROVE  actor' \in [Actors -> Locals]
  BY ZenonT(60), <1>s DEF EveryCopyStale, Locals
<1>1. CASE CancelBatch
  <2>1. job' \in Jobs
    BY ZenonT(60), <1>1 DEF CancelBatch, Jobs, Statuses, TerminalStatuses
  <2>2. QED
    BY Zenon, <1>1, <1>s, <2>1 DEF CancelBatch
<1>8. CASE ManualFinalize
  <2>1. job' \in Jobs
    BY Zenon, <1>8 DEF ManualFinalize, Jobs, CompensationStatuses
  <2>2. QED
    BY Zenon, <1>8, <1>s, <2>1 DEF ManualFinalize
<1>2. CASE EditStoryboard \/ ProviderProgress
  BY Zenon, <1>2 DEF EditStoryboard, ProviderProgress
<1>3. CASE LeaseExpires \/ LeaseLapses
  BY Zenon, <1>3 DEF LeaseExpires, LeaseLapses, Leases
<1>4. CASE DeadLetter
  BY Zenon, <1>4 DEF DeadLetter
<1>5. ASSUME NEW p \in Actors, Abandon(p)
      PROVE  TypeOK'
  BY Zenon, <1>5, ReturnType DEF Abandon
<1>6. ASSUME NEW w \in Workers, CancelLost(w)
      PROVE  TypeOK'
  <2>1. w \in Actors
    BY Zenon DEF Actors
  <2>2. actor' \in [Actors -> Locals]
    BY Zenon, <1>6, <2>1, GotoType DEF CancelLost, Pcs, Args
  <2>3. QED
    BY Zenon, <1>6, <2>2 DEF CancelLost, TaskCancelled
<1>7. QED
  BY Zenon, <1>1, <1>2, <1>3, <1>4, <1>5, <1>6, <1>8 DEF Environment

(* The program points of finalization. *)
FinalizationPcs == {"claim", "finalize", "quote", "inspect", "check", "reserve", "charge",
                    "record", "recheck", "commit", "reload", "retry"}

(* The outcomes that finalization settles a job with. *)
FinalizationGoals == {"failAfterCharge", "cancelBeforeCommit", "failWithoutCharge",
                      "failPermanent"}
-----------------------------------------------------------------------------
(* The money *)

(* What no step takes back: a quote, a recorded charge, a failed or cancelled *)
(* status, the ledger's charge and its refund.                                *)
Frozen(j, k, l, m) ==
  /\ j.quote # NoQuote => k.quote = j.quote
  /\ j.txn => k.txn
  /\ j.status \in {"failed", "cancelled"} => k.status = j.status
  /\ l.charge # 0 => m.charge = l.charge
  /\ j.txn /\ l.refund = l.charge => m.refund = m.charge

(* A copy that is not refreshed keeps its meaning across such a step. *)
LEMMA CopyKept ==
  ASSUME NEW a \in Locals, NEW b \in Locals,
         NEW j \in Jobs, NEW k \in Jobs,
         NEW l \in [charge : Points, refund : Points],
         NEW m \in [charge : Points, refund : Points],
         Frozen(j, k, l, m), CopyAgrees(a, j), StepJustified(a, j, l),
         b.pc = a.pc, b.snap = a.snap, b.fresh => a.fresh /\ j = k
  PROVE  CopyAgrees(b, k) /\ StepJustified(b, k, m)
<1>1. CopyAgrees(b, k)
  BY Zenon DEF CopyAgrees, Frozen
<1>2. StepJustified(b, k, m)
  <2>1. a.snap.quote \in Int /\ l.charge \in Int
    BY StoreAssumption DEF Locals, Jobs, Points, NoQuote
  <2>2. QED
    BY <2>1 DEF StepJustified, Frozen
<1>3. QED
  BY Zenon, <1>1, <1>2

(* Nothing becomes available, so nothing has to be paid for. *)
LEMMA PaidKept ==
  ASSUME TypeOK, TypeOK', PaidBeforeAvailable, Frozen(job, job', ledger, ledger'),
         \A o \in Outputs : avail'[o] = "available" => avail[o] = "available"
  PROVE  PaidBeforeAvailable'
BY DEF PaidBeforeAvailable, Frozen, TypeOK, NoQuote

(* A step of p after which p's own state and the books are in order. *)
LEMMA StepSettles ==
  ASSUME TypeOK, TypeOK', SettlementInv, NEW p \in Actors,
         Frozen(job, job', ledger, ledger'), BooksAgree(job', ledger'),
         PaidBeforeAvailable',
         CopyAgrees(actor'[p], job'), StepJustified(actor'[p], job', ledger'),
         \A q \in Actors \ {p} :
            /\ actor'[q].pc = actor[q].pc /\ actor'[q].snap = actor[q].snap
            /\ actor'[q].fresh => actor[q].fresh /\ job' = job
  PROVE  SettlementInv'
<1>1. ASSUME NEW q \in Actors
      PROVE  CopyAgrees(actor'[q], job') /\ StepJustified(actor'[q], job', ledger')
  <2>1. CASE q = p
    BY Zenon, <2>1
  <2>2. CASE q # p
    <3>1. actor[q] \in Locals /\ actor'[q] \in Locals
      BY Zenon DEF TypeOK
    <3>2. QED
      BY <2>2, <3>1, CopyKept DEF SettlementInv, TypeOK
  <2>3. QED
    BY Zenon, <2>1, <2>2
<1>2. QED
  BY Zenon, <1>1 DEF SettlementInv

(* Nothing changes in the row or the ledger. *)
LEMMA FrozenSame ==
  ASSUME NEW j, NEW l
  PROVE  Frozen(j, j, l, l)
BY Zenon DEF Frozen

(* An idle actor claims nothing. *)
LEMMA IdleJustified ==
  ASSUME NEW j, NEW l
  PROVE  CopyAgrees(Idle, j) /\ StepJustified(Idle, j, l)
BY Zenon DEF Idle, CreatedJob, CopyAgrees, StepJustified

(* The program points about which StepJustified says something. *)
SettlementPcs == {"inspect", "check", "reserve", "charge", "record", "recheck", "commit",
                  "claimRefund", "refund", "complete", "refundRetry", "refundFailed"}

(* A fresh copy taken at any other program point claims nothing either. *)
LEMMA PlainAt ==
  ASSUME NEW pc \in Pcs \ SettlementPcs, NEW arg \in Args, NEW j \in Jobs, NEW l
  PROVE  CopyAgrees(At(pc, arg, j), j) /\ StepJustified(At(pc, arg, j), j, l)
BY Zenon DEF At, CopyAgrees, StepJustified, SettlementPcs

(* A step of p that moves its program counter only. *)
LEMMA GotoSettles ==
  ASSUME TypeOK, TypeOK', SettlementInv, NEW p \in Actors, NEW pc \in Pcs, NEW arg \in Args,
         Goto(p, pc, arg), UNCHANGED <<job, ledger>>, PaidBeforeAvailable',
         StepJustified([actor[p] EXCEPT !.pc = pc, !.arg = arg], job, ledger)
  PROVE  SettlementInv'
<1>1. actor[p] \in Locals
  BY Zenon DEF TypeOK
<1>2. /\ actor'[p] = [actor[p] EXCEPT !.pc = pc, !.arg = arg]
      /\ \A q \in Actors \ {p} : actor'[q] = actor[q]
  BY <1>1 DEF Goto, TypeOK, Locals
<1>3. CopyAgrees(actor'[p], job')
  BY Zenon, <1>1, <1>2 DEF CopyAgrees, SettlementInv, Locals
<1>4. Frozen(job, job', ledger, ledger') /\ BooksAgree(job', ledger')
  BY Zenon, FrozenSame DEF SettlementInv
<1>5. StepJustified(actor'[p], job', ledger')
  BY Zenon, <1>2
<1>6. QED
  BY Zenon, <1>2, <1>3, <1>4, <1>5, StepSettles

(* The same, to a program point that claims nothing. *)
LEMMA PlainGoto ==
  ASSUME TypeOK, TypeOK', SettlementInv, NEW p \in Actors,
         NEW pc \in Pcs \ SettlementPcs, NEW arg \in Args,
         Goto(p, pc, arg), UNCHANGED <<job, ledger>>,
         \A o \in Outputs : avail'[o] = "available" => avail[o] = "available"
  PROVE  SettlementInv'
<1>1. StepJustified([actor[p] EXCEPT !.pc = pc, !.arg = arg], job, ledger)
  BY DEF StepJustified, SettlementPcs, TypeOK, Locals
<1>2. PaidBeforeAvailable'
  BY Zenon, FrozenSame, PaidKept DEF SettlementInv
<1>3. QED
  BY Zenon, <1>1, <1>2, GotoSettles

(* p returns. *)
LEMMA ReturnSettles ==
  ASSUME TypeOK, TypeOK', SettlementInv, NEW p \in Actors, Return(p),
         UNCHANGED <<job, ledger, avail>>
  PROVE  SettlementInv'
<1>1. actor'[p] = Idle /\ \A q \in Actors \ {p} : actor'[q] = actor[q]
  BY Zenon DEF Return, TypeOK
<1>2. PaidBeforeAvailable'
  BY Zenon, FrozenSame, PaidKept DEF SettlementInv
<1>3. Frozen(job, job', ledger, ledger') /\ BooksAgree(job', ledger')
  BY Zenon, FrozenSame DEF SettlementInv
<1>4. CopyAgrees(actor'[p], job') /\ StepJustified(actor'[p], job', ledger')
  BY Zenon, <1>1, IdleJustified
<1>5. QED
  BY Zenon, <1>1, <1>2, <1>3, <1>4, StepSettles

(* p writes the row. *)
LEMMA WriteSettles ==
  ASSUME TypeOK, TypeOK', SettlementInv, NEW p \in Actors, NEW new \in Jobs,
         NEW newLease, NEW next \in Locals, Write(p, new, newLease, next),
         UNCHANGED ledger, PaidBeforeAvailable',
         Frozen(job, new, ledger, ledger), BooksAgree(new, ledger),
         CopyAgrees(next, new), StepJustified(next, new, ledger)
  PROVE  SettlementInv'
<1>1. job' = new /\ actor'[p] = next
  BY Zenon DEF Write
<1>2. ASSUME NEW q \in Actors \ {p}
      PROVE  /\ actor'[q].pc = actor[q].pc /\ actor'[q].snap = actor[q].snap
             /\ ~actor'[q].fresh
  <2>1. actor'[q] = [actor[q] EXCEPT !.fresh = FALSE] /\ actor[q] \in Locals
    BY Zenon DEF Write, TypeOK
  <2>2. QED
    BY Zenon, <2>1 DEF Locals
<1>3. QED
  BY Zenon, <1>1, <1>2, StepSettles

(* p tries to write the row. *)
LEMMA MutateSettles ==
  ASSUME TypeOK, TypeOK', SettlementInv, NEW p \in Actors, NEW new \in Jobs,
         NEW newLease, NEW next \in Locals, MutateJob(p, new, newLease, next),
         UNCHANGED <<ledger, avail>>,
         CanWrite(p, new) => /\ Frozen(job, new, ledger, ledger)
                             /\ BooksAgree(new, ledger)
                             /\ CopyAgrees(next, new)
                             /\ StepJustified(next, new, ledger)
  PROVE  SettlementInv'
<1>1. CASE CanWrite(p, new)
  <2>1. Write(p, new, newLease, next)
    BY Zenon, <1>1 DEF MutateJob
  <2>2. job' = new
    BY Zenon, <2>1 DEF Write
  <2>3. PaidBeforeAvailable'
    BY Zenon, <1>1, <2>2, PaidKept DEF SettlementInv
  <2>4. QED
    BY Zenon, <1>1, <2>1, <2>3, WriteSettles
<1>2. CASE ~CanWrite(p, new)
  BY Zenon, <1>2, ReturnSettles DEF MutateJob
<1>3. QED
  BY Zenon, <1>1, <1>2

(* A terminal status admits no transition but to itself. *)
LEMMA TerminalStuck ==
  ASSUME NEW s \in TerminalStatuses, NEW t, ValidateJobTransition(s, t)
  PROVE  t = s
BY Zenon DEF ValidateJobTransition, jobTransitions, TerminalStatuses, Statuses

(* A legal write that leaves quote, charge and compensation alone. *)
LEMMA PlainWrite ==
  ASSUME TypeOK, SettlementInv, NEW p \in Actors, NEW new \in Jobs, CanWrite(p, new),
         new.quote = job.quote, new.txn = job.txn, new.comp = job.comp
  PROVE  Frozen(job, new, ledger, ledger) /\ BooksAgree(new, ledger)
<1>1. job.status \in {"failed", "cancelled"} => new.status = job.status
  BY Zenon, TerminalStuck DEF CanWrite, TerminalStatuses
<1>2. QED
  BY Zenon, <1>1 DEF Frozen, BooksAgree, SettlementInv

(* The common case of the worker: such a write, after which p is idle or at a *)
(* program point that claims nothing.                                          *)
LEMMA PlainMutate ==
  ASSUME TypeOK, TypeOK', SettlementInv, NEW p \in Actors, NEW new \in Jobs,
         NEW newLease, NEW next \in Locals, MutateJob(p, new, newLease, next),
         UNCHANGED <<ledger, avail>>,
         new.quote = job.quote, new.txn = job.txn, new.comp = job.comp,
         \/ next = Idle
         \/ \E pc \in Pcs \ SettlementPcs, arg \in Args : next = At(pc, arg, new)
  PROVE  SettlementInv'
<1>1. CopyAgrees(next, new) /\ StepJustified(next, new, ledger)
  BY Zenon, IdleJustified, PlainAt
<1>2. QED
  BY Zenon, <1>1, PlainWrite, MutateSettles

(* p takes a new copy of the row. *)
LEMMA RefreshSettles ==
  ASSUME TypeOK, TypeOK', SettlementInv, NEW p \in Actors, NEW next \in Locals,
         actor' = [actor EXCEPT ![p] = next], UNCHANGED <<job, ledger, avail>>,
         CopyAgrees(next, job), StepJustified(next, job, ledger)
  PROVE  SettlementInv'
<1>1. actor'[p] = next /\ \A q \in Actors \ {p} : actor'[q] = actor[q]
  BY Zenon DEF TypeOK
<1>2. PaidBeforeAvailable'
  BY Zenon, FrozenSame, PaidKept DEF SettlementInv
<1>3. Frozen(job, job', ledger, ledger') /\ BooksAgree(job', ledger')
  BY Zenon, FrozenSame DEF SettlementInv
<1>4. QED
  BY Zenon, <1>1, <1>2, <1>3, StepSettles

(* The terminal write of an outcome without compensation. *)
LEMMA SettleAsSettles ==
  ASSUME TypeOK, TypeOK', SettlementInv, NEW w \in Workers, NEW goal,
         NEW status \in {"failed", "cancelled"}, SettleAs(w, goal, status)
  PROVE  SettlementInv'
<1> DEFINE new == [job EXCEPT !.status = status, !.comp = "not_required", !.manual = FALSE]
<1>j. job \in Jobs
  BY Zenon DEF TypeOK
<1>1. new \in Jobs /\ w \in Actors /\ Idle \in Locals
  <2>1. new \in Jobs
    BY Zenon, <1>j DEF Jobs, Statuses, TerminalStatuses, CompensationStatuses
  <2>2. QED
    BY Zenon, <2>1, StoreTypes DEF Actors
<1>2. new.quote = job.quote /\ new.txn = job.txn /\ new.comp = "not_required"
      /\ new.status = status
  BY Zenon, <1>j DEF Jobs
<1>3. CanWrite(w, new) => Frozen(job, new, ledger, ledger) /\ BooksAgree(new, ledger)
  <2>1. CanWrite(w, new) /\ job.status \in {"failed", "cancelled"} => new.status = job.status
    BY TerminalStuck DEF CanWrite, TerminalStatuses
  <2>2. QED
    BY Zenon, <1>2, <2>1 DEF Frozen, BooksAgree, SettlementInv
<1>4. QED
  BY Zenon, <1>1, <1>3, IdleJustified, MutateSettles DEF SettleAs

(* Every step of LifecycleWorker preserves the settlement invariant. *)
LEMMA WorkerSettles ==
  ASSUME TypeOK, TypeOK', SettlementInv, NEW w \in Workers, WorkerStep(w)
  PROVE  SettlementInv'
<1>w. w \in Actors
  BY Zenon DEF Actors
<1>s. /\ actor[w] \in Locals /\ actor[w].snap \in Jobs /\ actor[w].arg \in Args
      /\ job \in Jobs /\ Idle \in Locals
  BY Zenon, <1>w, StoreTypes DEF TypeOK, Locals
<1>r. \A j : Route(j) \in Pcs \ SettlementPcs
  BY DEF Route, Pcs, SettlementPcs
<1>1. CASE Process(w)
  <2> DEFINE pc == IF job.tried THEN "recover" ELSE Route(job)
  <2>1. pc \in Pcs \ SettlementPcs
    BY Zenon, <1>r DEF Pcs, SettlementPcs
  <2>2. "process" \in Args
    BY Zenon DEF Args
  <2>3. At(pc, "process", job) \in Locals
    BY Zenon, <1>s, <2>1, <2>2, AtType
  <2>4. QED
    BY Zenon, <1>1, <1>w, <1>s, <2>1, <2>2, <2>3, PlainAt, RefreshSettles DEF Process
<1>2. CASE RecoverProviderReceipt(w)
  <2>1. \A j : AfterRecovery(w, j) \in Pcs \ SettlementPcs
    BY Zenon, <1>r DEF AfterRecovery, Pcs, SettlementPcs
  <2> DEFINE complete == [job EXCEPT !.status = "finalizing", !.phase = "artifact_finalize",
                                     !.assets = Outputs, !.usage = UsageOr(job, "estimated")]
             partial == [job EXCEPT !.assets = Receipt]
  <2>2. complete \in Jobs /\ partial \in Jobs
    BY ZenonT(60), <1>s DEF Jobs, UsageOr, Receipt, Statuses, Phases
  <2>3. /\ complete.quote = job.quote /\ complete.txn = job.txn /\ complete.comp = job.comp
        /\ partial.quote = job.quote /\ partial.txn = job.txn /\ partial.comp = job.comp
    BY Zenon, <1>s DEF Jobs
  <2>4. CASE MutateJob(w, complete, LeaseOf(w), At("finalize", "none", complete))
    <3>1. "finalize" \in Pcs \ SettlementPcs /\ "none" \in Args
      BY Zenon DEF Pcs, SettlementPcs, Args
    <3>2. At("finalize", "none", complete) \in Locals
      BY Zenon, <2>2, <3>1, AtType
    <3>3. QED
      BY Zenon, <1>2, <1>w, <2>2, <2>3, <2>4, <3>1, <3>2, PlainMutate DEF RecoverProviderReceipt
  <2>5. CASE MutateJob(w, partial, lease,
                       At(AfterRecovery(w, partial), actor[w].arg, partial))
    <3>1. At(AfterRecovery(w, partial), actor[w].arg, partial) \in Locals
      BY Zenon, <1>s, <2>1, <2>2, AtType
    <3>2. QED
      BY Zenon, <1>2, <1>w, <1>s, <2>1, <2>2, <2>3, <2>5, <3>1, PlainMutate
         DEF RecoverProviderReceipt
  <2>6. CASE /\ Goto(w, AfterRecovery(w, actor[w].snap), actor[w].arg)
             /\ UNCHANGED <<job, lease>>
    BY Zenon, <1>2, <1>w, <1>s, <2>1, <2>6, PlainGoto DEF RecoverProviderReceipt
  <2>7. QED
    BY Zenon, <1>2, <2>4, <2>5, <2>6 DEF RecoverProviderReceipt
<1>3. CASE Submit(w)
  <2> DEFINE new == [job EXCEPT !.status = "running", !.phase = "provider_submit",
                                !.tried = TRUE]
  <2>1. new \in Jobs /\ new.quote = job.quote /\ new.txn = job.txn /\ new.comp = job.comp
    BY ZenonT(60), <1>s DEF Jobs, Statuses, Phases
  <2>2. "submitCall" \in Pcs \ SettlementPcs /\ "none" \in Args
    BY Zenon DEF Pcs, SettlementPcs, Args
  <2>3. At("submitCall", "none", new) \in Locals
    BY Zenon, <2>1, <2>2, AtType
  <2>4. QED
    BY Zenon, <1>3, <1>w, <2>1, <2>2, <2>3, PlainMutate DEF Submit
<1>4. CASE SubmitCall(w)
  <2>1. PICK pc \in {"answer", "recover"},
             arg \in {"completed", "retryable", "permanent", "accepted"} :
          Goto(w, pc, arg)
    BY Zenon, <1>4 DEF SubmitCall
  <2>2. \A o \in Outputs : avail'[o] = "available" => avail[o] = "available"
    BY Zenon, <1>4 DEF SubmitCall, SavePending
  <2>3. pc \in Pcs \ SettlementPcs /\ arg \in Args
    BY Zenon, <2>1 DEF Pcs, SettlementPcs, Args
  <2>4. QED
    BY Zenon, <1>4, <1>w, <2>1, <2>2, <2>3, PlainGoto DEF SubmitCall
<1>5. CASE Poll(w)
  <2> DEFINE new == [job EXCEPT !.status = "running", !.phase = "provider_poll",
                                !.tried = TRUE, !.polls = actor[w].snap.polls + 1]
  <2>1. "discard" \in Pcs \ SettlementPcs /\ "failProvider" \in Args
        /\ "pollCall" \in Pcs \ SettlementPcs /\ "none" \in Args
    BY Zenon DEF Pcs, SettlementPcs, Args
  <2>2. CASE actor[w].snap.polls >= MaxPolls
    BY Zenon, <1>5, <1>w, <2>1, <2>2, PlainGoto DEF Poll
  <2>3. CASE ~(actor[w].snap.polls >= MaxPolls)
    <3>1. actor[w].snap.polls + 1 \in 0..MaxPolls
      BY <1>s, <2>3, StoreAssumption DEF Jobs
    <3>2. new \in Jobs /\ new.quote = job.quote /\ new.txn = job.txn /\ new.comp = job.comp
      BY ZenonT(60), <1>s, <3>1 DEF Jobs, Statuses, Phases
    <3>3. At("pollCall", "none", new) \in Locals
      BY Zenon, <2>1, <3>2, AtType
    <3>4. QED
      BY ZenonT(60), <1>5, <1>w, <2>1, <2>3, <3>2, <3>3, PlainMutate DEF Poll
  <2>4. QED
    BY Zenon, <2>2, <2>3
<1>6. CASE PollCall(w)
  <2>1. PICK pc \in {"answer", "recover"},
             arg \in {"completed", "retryable", "permanent", "accepted", "failed", "cancelled"} :
          Goto(w, pc, arg)
    BY Zenon, <1>6 DEF PollCall
  <2>2. \A o \in Outputs : avail'[o] = "available" => avail[o] = "available"
    BY Zenon, <1>6 DEF PollCall, SavePending
  <2>3. pc \in Pcs \ SettlementPcs /\ arg \in Args
    BY Zenon, <2>1 DEF Pcs, SettlementPcs, Args
  <2>4. QED
    BY Zenon, <1>6, <1>w, <2>1, <2>2, <2>3, PlainGoto DEF PollCall
<1>7. CASE ApplyProviderResponse(w)
  <2> DEFINE waiting == [job EXCEPT !.status = "waiting_provider",
                                    !.phase = "provider_poll", !.task = TRUE]
             finished(usage) ==
               [job EXCEPT !.status = "finalizing", !.phase = "artifact_finalize",
                           !.assets = Outputs, !.usage = UsageOr(job, usage)]
             next == IF actor[w].snap.phase = "provider_submit" /\ actor[w].snap.cancel
                       THEN At("cancel", "none", waiting) ELSE Idle
  <2>1. /\ waiting \in Jobs /\ waiting.quote = job.quote /\ waiting.txn = job.txn
        /\ waiting.comp = job.comp
    BY Zenon, <1>s DEF Jobs, Statuses, Phases
  <2>2. "cancel" \in Pcs \ SettlementPcs /\ "none" \in Args
        /\ "finalize" \in Pcs \ SettlementPcs /\ "discard" \in Pcs \ SettlementPcs
    BY Zenon DEF Pcs, SettlementPcs, Args
  <2>3. CASE MutateJob(w, waiting, NoLease, next)
    <3>1. next \in Locals
      BY Zenon, <1>s, <2>1, <2>2, AtType
    <3>2. QED
      BY Zenon, <1>7, <1>w, <2>1, <2>2, <2>3, <3>1, PlainMutate DEF ApplyProviderResponse
  <2>4. ASSUME NEW usage \in {"reported", "estimated"},
               MutateJob(w, finished(usage), LeaseOf(w),
                         At("finalize", "none", finished(usage)))
        PROVE  SettlementInv'
    <3>1. /\ finished(usage) \in Jobs /\ finished(usage).quote = job.quote
          /\ finished(usage).txn = job.txn /\ finished(usage).comp = job.comp
      BY ZenonT(60), <1>s DEF Jobs, Statuses, Phases, UsageOr
    <3>2. At("finalize", "none", finished(usage)) \in Locals
      BY Zenon, <2>2, <3>1, AtType
    <3>3. QED
      BY Zenon, <1>7, <1>w, <2>2, <2>4, <3>1, <3>2, PlainMutate DEF ApplyProviderResponse
  <2>5. ASSUME NEW goal \in {"cancelJob", "failProvider"},
               Goto(w, "discard", goal) /\ UNCHANGED <<job, lease>>
        PROVE  SettlementInv'
    <3>1. goal \in Args
      BY Zenon DEF Args
    <3>2. QED
      BY Zenon, <1>7, <1>w, <2>2, <2>5, <3>1, PlainGoto DEF ApplyProviderResponse
  <2>6. QED
    BY Zenon, <1>7, <2>3, <2>4, <2>5 DEF ApplyProviderResponse
<1>8. ASSUME ScheduleProviderRetry(w), UNCHANGED <<avail, ledger>>
      PROVE  SettlementInv'
  <2> DEFINE new == [job EXCEPT !.status = "retry_wait", !.retry = NextRetry(job),
                                !.manual = FALSE]
  <2>1. new \in Jobs /\ new.quote = job.quote /\ new.txn = job.txn /\ new.comp = job.comp
    BY Zenon, <1>s, NextRetryType DEF Jobs, Statuses
  <2>2. QED
    BY Zenon, <1>8, <1>w, <1>s, <2>1, PlainMutate DEF ScheduleProviderRetry
<1>9. CASE HandleProviderError(w)
  <2>1. CASE ScheduleProviderRetry(w)
    BY Zenon, <1>8, <1>9, <2>1 DEF HandleProviderError
  <2>2. CASE Goto(w, "discard", "failProvider") /\ UNCHANGED <<job, lease>>
    <3>1. "discard" \in Pcs \ SettlementPcs /\ "failProvider" \in Args
      BY Zenon DEF Pcs, SettlementPcs, Args
    <3>2. QED
      BY Zenon, <1>9, <1>w, <2>2, <3>1, PlainGoto DEF HandleProviderError
  <2>3. QED
    BY Zenon, <1>9, <2>1, <2>2 DEF HandleProviderError
<1>10. CASE ProcessCancellation(w)
  <2> DEFINE new == [job EXCEPT !.status = "running", !.phase = "provider_poll"]
  <2>1. new \in Jobs /\ new.quote = job.quote /\ new.txn = job.txn /\ new.comp = job.comp
    BY Zenon, <1>s DEF Jobs, Statuses, Phases
  <2>2. "cancelCall" \in Pcs \ SettlementPcs /\ "none" \in Args
        /\ "discard" \in Pcs \ SettlementPcs /\ "cancelJob" \in Args
    BY Zenon DEF Pcs, SettlementPcs, Args
  <2>3. At("cancelCall", "none", new) \in Locals
    BY Zenon, <2>1, <2>2, AtType
  <2>4. CASE MutateJob(w, new, LeaseOf(w), At("cancelCall", "none", new))
    BY Zenon, <1>10, <1>w, <2>1, <2>2, <2>3, <2>4, PlainMutate DEF ProcessCancellation
  <2>5. CASE Goto(w, "discard", "cancelJob") /\ UNCHANGED <<job, lease>>
    BY Zenon, <1>10, <1>w, <2>2, <2>5, PlainGoto DEF ProcessCancellation
  <2>6. QED
    BY Zenon, <1>10, <2>4, <2>5 DEF ProcessCancellation
<1>11. CASE CancelCall(w)
  <2>1. PICK pc \in {"discard", "poll"}, arg \in {"cancelJob", "none"} : Goto(w, pc, arg)
    BY Zenon, <1>11 DEF CancelCall
  <2>2. pc \in Pcs \ SettlementPcs /\ arg \in Args
    BY Zenon, <2>1 DEF Pcs, SettlementPcs, Args
  <2>3. QED
    BY Zenon, <1>11, <1>w, <2>1, <2>2, PlainGoto DEF CancelCall
<1>12. CASE RetryCancellation(w)
  BY Zenon, <1>8, <1>12 DEF RetryCancellation
<1>13. CASE ClaimFinalization(w)
  <2> DEFINE new == [job EXCEPT !.status = "finalizing"]
  <2>1. new \in Jobs /\ new.quote = job.quote /\ new.txn = job.txn /\ new.comp = job.comp
    BY Zenon, <1>s DEF Jobs, Statuses
  <2>2. "finalize" \in Pcs \ SettlementPcs /\ "none" \in Args
    BY DEF Pcs, SettlementPcs, Args
  <2>3. At("finalize", "none", new) \in Locals
    BY Zenon, <2>1, <2>2, AtType
  <2>4. QED
    BY Zenon, <1>13, <1>w, <2>1, <2>2, <2>3, PlainMutate DEF ClaimFinalization
<1>14. CASE FailProvider(w) \/ CancelJob(w)
  BY Zenon, <1>14, SettleAsSettles DEF FailProvider, CancelJob
<1>15. CASE HeartbeatLost(w)
  BY Zenon, <1>15, <1>w, ReturnSettles DEF HeartbeatLost
<1>16. CASE RenewJobLease(w)
  BY Zenon, <1>16 DEF RenewJobLease, SettlementInv, PaidBeforeAvailable
<1>17. QED
  BY Zenon, <1>1, <1>2, <1>3, <1>4, <1>5, <1>6, <1>7, <1>9, <1>10, <1>11, <1>12, <1>13,
     <1>14, <1>15, <1>16 DEF WorkerStep

(* The row of a delivered job. *)
LEMMA SucceededRow ==
  ASSUME NEW j \in Jobs
  PROVE  /\ Succeeded(j) \in Jobs /\ Succeeded(j).quote = j.quote /\ Succeeded(j).txn = j.txn
         /\ Succeeded(j).comp = "not_required" /\ Succeeded(j).status = "succeeded"
<1>1. "succeeded" \in Statuses /\ "artifact_finalize" \in Phases
      /\ "not_required" \in CompensationStatuses
  BY Zenon DEF Statuses, TerminalStatuses, Phases, CompensationStatuses
<1>2. Succeeded(j) \in Jobs
  BY ZenonT(60), <1>1 DEF Succeeded, Jobs
<1>3. QED
  BY Zenon, <1>2 DEF Succeeded, Jobs

(* A fresh copy with a frozen quote may be inspected. *)
LEMMA InspectAt ==
  ASSUME NEW j \in Jobs, NEW l, j.quote # NoQuote
  PROVE  /\ CopyAgrees(At("inspect", "none", j), j)
         /\ StepJustified(At("inspect", "none", j), j, l)
BY Zenon DEF At, CopyAgrees, StepJustified

(* A quote is a number of points once it is frozen. *)
LEMMA QuoteIs ==
  ASSUME NEW j \in Jobs
  PROVE  j.quote \in Int /\ (j.quote # NoQuote => j.quote \in Nat)
BY StoreAssumption DEF Jobs, NoQuote

(* Every step of FinalizationEngine preserves the settlement invariant. *)
LEMMA FinalizeSettles ==
  ASSUME TypeOK, TypeOK', SettlementInv, NEW w \in Workers,
         Finalize(w) \/ FinalizeFault(w)
  PROVE  SettlementInv'
<1> DEFINE a == actor[w]
           copy == actor[w].snap
<1>w. w \in Actors
  BY Zenon DEF Actors
<1>s. a \in Locals /\ copy \in Jobs /\ a.arg \in Args /\ job \in Jobs /\ Idle \in Locals
  BY Zenon, <1>w, StoreTypes DEF TypeOK, Locals
<1>q. copy.quote \in Int /\ job.quote \in Int /\ ledger.charge \in Nat /\ ledger.refund \in Nat
      /\ (job.quote # NoQuote => job.quote \in Nat)
      /\ (copy.quote # NoQuote => copy.quote \in Nat)
  <2>1. ledger.charge \in Nat /\ ledger.refund \in Nat
    BY StoreAssumption DEF TypeOK, Points
  <2>2. QED
    BY Zenon, <1>s, <2>1, QuoteIs
<1>a. CopyAgrees(a, job) /\ StepJustified(a, job, ledger) /\ BooksAgree(job, ledger)
      /\ PaidBeforeAvailable
  BY Zenon, <1>w DEF SettlementInv
<1>g. ASSUME NEW pc \in Pcs
      PROVE  [a EXCEPT !.pc = pc].pc = pc /\ [a EXCEPT !.pc = pc].snap = copy
  BY Zenon, <1>s DEF Locals
<1>p. ASSUME UNCHANGED avail, Frozen(job, job', ledger, ledger')
      PROVE  PaidBeforeAvailable'
  BY Zenon, <1>a, <1>p, PaidKept
<1>1. CASE BeginFinalize(w)
  <2> DEFINE new == [job EXCEPT !.status = "finalizing", !.phase = "artifact_finalize"]
  <2>1. CASE IsTerminalJobStatus(job.status)
    BY Zenon, <1>1, <1>w, <2>1, ReturnSettles DEF BeginFinalize
  <2>2. CASE ~IsTerminalJobStatus(job.status)
    <3>1. new \in Jobs /\ new.quote = job.quote /\ new.txn = job.txn /\ new.comp = job.comp
      BY Zenon, <1>s DEF Jobs, Statuses, Phases
    <3>2. "quote" \in Pcs \ SettlementPcs /\ "none" \in Args
      BY Zenon DEF Pcs, SettlementPcs, Args
    <3>3. At("quote", "none", new) \in Locals
      BY Zenon, <3>1, <3>2, AtType
    <3>4. CopyAgrees(At("quote", "none", new), new)
          /\ StepJustified(At("quote", "none", new), new, ledger)
      BY Zenon, <3>1, <3>2, PlainAt
    <3>5. Frozen(job, new, ledger, ledger) /\ BooksAgree(new, ledger)
      BY Zenon, <1>a, <2>2, <3>1 DEF Frozen, BooksAgree, IsTerminalJobStatus, TerminalStatuses
    <3>6. Write(w, new, lease, At("quote", "none", new)) /\ UNCHANGED <<ledger, avail>>
      BY Zenon, <1>1, <2>2 DEF BeginFinalize
    <3>7. PaidBeforeAvailable'
      BY Zenon, <1>p, <3>5, <3>6 DEF Write
    <3>8. QED
      BY Zenon, <1>w, <3>1, <3>3, <3>4, <3>5, <3>6, <3>7, WriteSettles
  <2>3. QED
    BY Zenon, <2>1, <2>2
<1>2. CASE FreezeSettlementQuote(w)
  <2>t. "inspect" \in Pcs /\ "none" \in Args
    BY Zenon DEF Pcs, Args
  <2>1. CASE job.quote = NoQuote
    <3> DEFINE new == [job EXCEPT !.quote = Price(copy.usage)]
    <3>1. Price(copy.usage) \in {ReportedPoints, EstimatedPoints} /\ Price(copy.usage) \in Nat
      BY Zenon, StoreAssumption DEF Price
    <3>2. /\ new \in Jobs /\ new.quote = Price(copy.usage) /\ new.txn = job.txn
          /\ new.comp = job.comp /\ new.status = job.status
      BY Zenon, <1>s, <3>1 DEF Jobs
    <3>3. Frozen(job, new, ledger, ledger) /\ BooksAgree(new, ledger)
      BY <1>a, <1>q, <2>1, <3>1, <3>2 DEF Frozen, BooksAgree, NoQuote
    <3>4. At("inspect", "none", new) \in Locals
      BY Zenon, <2>t, <3>2, AtType
    <3>5. CopyAgrees(At("inspect", "none", new), new)
          /\ StepJustified(At("inspect", "none", new), new, ledger)
      <4>1. new.quote # NoQuote
        BY <3>1, <3>2 DEF NoQuote
      <4>2. HIDE DEF new
      <4>3. QED
        BY Zenon, <3>2, <4>1, InspectAt
    <3>6. Write(w, new, lease, At("inspect", "none", new)) /\ UNCHANGED <<ledger, avail>>
      BY Zenon, <1>2, <2>1 DEF FreezeSettlementQuote
    <3>7. PaidBeforeAvailable'
      BY Zenon, <1>p, <3>3, <3>6 DEF Write
    <3>8. QED
      BY Zenon, <1>w, <3>2, <3>3, <3>4, <3>5, <3>6, <3>7, WriteSettles
  <2>2. CASE job.quote # NoQuote
    <3>1. At("inspect", "none", job) \in Locals
      BY Zenon, <1>s, <2>t, AtType
    <3>2. CopyAgrees(At("inspect", "none", job), job)
          /\ StepJustified(At("inspect", "none", job), job, ledger)
      BY Zenon, <2>2 DEF At, CopyAgrees, StepJustified
    <3>3. QED
      BY Zenon, <1>2, <1>w, <2>2, <3>1, <3>2, RefreshSettles DEF FreezeSettlementQuote
  <2>3. QED
    BY Zenon, <2>1, <2>2
<1>3. CASE InspectCommit(w)
  <2>1. CASE IsCommitted(copy.assets)
    <3> DEFINE new == Succeeded(job)
    <3>1. /\ new \in Jobs /\ new.quote = job.quote /\ new.txn = job.txn
          /\ new.comp = "not_required" /\ new.status = "succeeded"
      BY Zenon, <1>s, SucceededRow
    <3>2. CanWrite(w, new) => job.status \notin {"failed", "cancelled"}
      BY Zenon, <3>1, TerminalStuck DEF CanWrite, TerminalStatuses
    <3>3. CanWrite(w, new) => Frozen(job, new, ledger, ledger) /\ BooksAgree(new, ledger)
      BY ZenonT(60), <1>a, <3>1, <3>2 DEF Frozen, BooksAgree
    <3>4. MutateJob(w, new, NoLease, Idle) /\ UNCHANGED <<ledger, avail>>
      BY Zenon, <1>3, <2>1 DEF InspectCommit
    <3>5. QED
      BY Zenon, <1>w, <1>s, <3>1, <3>3, <3>4, IdleJustified, MutateSettles
  <2>2. CASE Goto(w, "discard", CancelGoal(copy)) /\ UNCHANGED <<job, ledger, avail>>
    <3>1. "discard" \in Pcs \ SettlementPcs /\ CancelGoal(copy) \in Args
      BY Zenon DEF Pcs, SettlementPcs, Args, CancelGoal
    <3>2. QED
      BY Zenon, <1>w, <2>2, <3>1, PlainGoto
  <2>3. CASE Goto(w, "check", "none") /\ UNCHANGED <<job, ledger, avail>>
    <3>1. "check" \in Pcs /\ "none" \in Args
      BY Zenon DEF Pcs, Args
    <3>2. StepJustified([a EXCEPT !.pc = "check", !.arg = "none"], job, ledger)
      BY Zenon, <1>3, <1>a, <1>s DEF StepJustified, InspectCommit, Locals
    <3>3. QED
      BY Zenon, <1>w, <1>p, <2>3, <3>1, <3>2, FrozenSame, GotoSettles
  <2>4. QED
    BY Zenon, <1>3, <2>1, <2>2, <2>3 DEF InspectCommit
<1>4. CASE CheckBinding(w)
  <2>u. UNCHANGED <<job, ledger, avail>> /\ a.pc = "check"
    BY Zenon, <1>4 DEF CheckBinding
  <2>p. PaidBeforeAvailable'
    BY Zenon, <1>p, <2>u, FrozenSame
  <2>c. copy.quote # NoQuote
    BY Zenon, <1>a, <2>u DEF StepJustified
  <2>1. ASSUME NEW goal \in {"failAfterCharge", "failWithoutCharge"}, Goto(w, "discard", goal)
        PROVE  SettlementInv'
    <3>1. "discard" \in Pcs \ SettlementPcs /\ goal \in Args
      BY Zenon DEF Pcs, SettlementPcs, Args
    <3>2. QED
      BY Zenon, <1>w, <2>u, <2>1, <3>1, PlainGoto
  <2>2. CASE Goto(w, "reserve", "none") /\ copy.quote > 0
    <3>1. "reserve" \in Pcs /\ "none" \in Args
      BY Zenon DEF Pcs, Args
    <3>2. StepJustified([a EXCEPT !.pc = "reserve", !.arg = "none"], job, ledger)
      BY Zenon, <1>s, <2>c, <2>2 DEF StepJustified, Locals
    <3>3. QED
      BY Zenon, <1>w, <2>u, <2>p, <2>2, <3>1, <3>2, GotoSettles
  <2>3. CASE Goto(w, "recheck", "none") /\ ~(copy.quote > 0)
    <3>1. "recheck" \in Pcs /\ "none" \in Args
      BY Zenon DEF Pcs, Args
    <3>2. StepJustified([a EXCEPT !.pc = "recheck", !.arg = "none"], job, ledger)
      BY <1>s, <1>q, <2>c, <2>3 DEF StepJustified, Locals
    <3>3. QED
      BY Zenon, <1>w, <2>u, <2>p, <2>3, <3>1, <3>2, GotoSettles
  <2>4. QED
    BY Zenon, <1>4, <2>1, <2>2, <2>3 DEF CheckBinding
<1>5. CASE BeginCharge(w)
  <2> DEFINE new == [job EXCEPT !.phase = "billing_charge"]
  <2>1. new \in Jobs /\ new.quote = job.quote /\ new.txn = job.txn /\ new.comp = job.comp
    BY Zenon, <1>s DEF Jobs, Phases
  <2>2. "charge" \in Pcs /\ "none" \in Args
    BY Zenon DEF Pcs, Args
  <2>3. At("charge", "none", new) \in Locals
    BY Zenon, <2>1, <2>2, AtType
  <2>4. copy.quote > 0 /\ copy.quote # NoQuote /\ job.quote = copy.quote
    BY Zenon, <1>5, <1>a DEF BeginCharge, StepJustified, CopyAgrees
  <2>5. CopyAgrees(At("charge", "none", new), new)
        /\ StepJustified(At("charge", "none", new), new, ledger)
    BY Zenon, <2>1, <2>4 DEF At, CopyAgrees, StepJustified
  <2>6. MutateJob(w, new, lease, At("charge", "none", new)) /\ UNCHANGED <<ledger, avail>>
    BY Zenon, <1>5 DEF BeginCharge
  <2>7. QED
    BY Zenon, <1>w, <2>1, <2>3, <2>5, <2>6, PlainWrite, MutateSettles
<1>6. ASSUME NEW pc \in {"record", "retry"}, NEW arg \in {"none", "billing"},
             a.pc = "charge", Goto(w, pc, arg), UNCHANGED <<job, avail>>,
             \/ ChargeApplied(copy.quote) /\ ledger.charge \in {0, copy.quote}
             \/ ChargeApplied(copy.quote) /\ pc = "retry"
      PROVE  SettlementInv'
  <2>1. copy.quote > 0 /\ copy.quote # NoQuote /\ job.quote = copy.quote
    BY Zenon, <1>6, <1>a DEF StepJustified, CopyAgrees
  <2>2. /\ ledger'.charge = job.quote /\ ledger'.refund = ledger.refund
        /\ ledger.charge \in {0, job.quote}
    <3>1. ledger.charge \in {0, job.quote}
      BY Zenon, <1>a DEF BooksAgree
    <3>2. ledger \in [charge : Points, refund : Points]
      BY Zenon DEF TypeOK
    <3>3. QED
      BY Zenon, <1>6, <2>1, <3>1, <3>2 DEF ChargeApplied
  <2>3. Frozen(job, job', ledger, ledger') /\ BooksAgree(job', ledger')
    BY ZenonT(60), <1>6, <1>a, <1>q, <2>1, <2>2 DEF Frozen, BooksAgree
  <2>4. PaidBeforeAvailable'
    BY Zenon, <1>6, <1>p, <2>3
  <2>5. /\ actor'[w] = [a EXCEPT !.pc = pc, !.arg = arg]
        /\ \A q \in Actors \ {w} : actor'[q] = actor[q]
    BY <1>6, <1>w, <1>s DEF Goto, TypeOK, Locals
  <2>6. actor'[w].pc = pc /\ actor'[w].snap = copy /\ actor'[w].fresh = a.fresh
    BY Zenon, <1>s, <2>5 DEF Locals
  <2>7. CopyAgrees(actor'[w], job')
    BY Zenon, <1>6, <1>a, <2>6 DEF CopyAgrees
  <2>8. StepJustified(actor'[w], job', ledger')
    BY ZenonT(60), <1>6, <2>1, <2>2, <2>6 DEF StepJustified
  <2>9. QED
    BY Zenon, <1>6, <1>w, <2>3, <2>4, <2>5, <2>7, <2>8, StepSettles
<1>7. CASE Charge(w)
  BY Zenon, <1>6, <1>7 DEF Charge
<1>8. CASE ChargeRejected(w)
  <2>1. "discard" \in Pcs \ SettlementPcs /\ "failPermanent" \in Args
    BY Zenon DEF Pcs, SettlementPcs, Args
  <2>2. QED
    BY Zenon, <1>8, <1>w, <2>1, PlainGoto DEF ChargeRejected
<1>9. CASE ChargeLost(w)
  <2>1. CASE ChargeApplied(copy.quote)
    BY Zenon, <1>6, <1>9, <2>1 DEF ChargeLost
  <2>2. CASE UNCHANGED ledger
    <3>1. "retry" \in Pcs \ SettlementPcs /\ "billing" \in Args
      BY Zenon DEF Pcs, SettlementPcs, Args
    <3>2. QED
      BY Zenon, <1>9, <1>w, <2>2, <3>1, PlainGoto DEF ChargeLost
  <2>3. QED
    BY Zenon, <1>9, <2>1, <2>2 DEF ChargeLost
<1>10. CASE RecordCharge(w)
  <2>t. "recheck" \in Pcs /\ "none" \in Args
    BY DEF Pcs, Args
  <2>q. /\ copy.quote > 0 /\ copy.quote # NoQuote /\ job.quote = copy.quote
        /\ ledger.charge = job.quote
    BY Zenon, <1>10, <1>a DEF RecordCharge, StepJustified, CopyAgrees
  <2>u. UNCHANGED <<ledger, avail>>
    BY Zenon, <1>10 DEF RecordCharge
  <2>1. CASE a.fresh \/ ~job.txn
    <3> DEFINE new == [job EXCEPT !.txn = TRUE]
    <3>1. /\ new \in Jobs /\ new.quote = job.quote /\ new.txn /\ new.comp = job.comp
          /\ new.status = job.status
      BY Zenon, <1>s DEF Jobs
    <3>2. Frozen(job, new, ledger, ledger) /\ BooksAgree(new, ledger)
      BY Zenon, <1>a, <2>q, <3>1 DEF Frozen, BooksAgree
    <3>3. At("recheck", "none", new) \in Locals
      BY Zenon, <2>t, <3>1, AtType
    <3>4. CopyAgrees(At("recheck", "none", new), new)
          /\ StepJustified(At("recheck", "none", new), new, ledger)
      BY Zenon, <2>q, <3>1 DEF At, CopyAgrees, StepJustified
    <3>5. Write(w, new, lease, At("recheck", "none", new))
      BY Zenon, <1>10, <2>1 DEF RecordCharge
    <3>6. PaidBeforeAvailable'
      BY Zenon, <1>p, <2>u, <3>2, <3>5 DEF Write
    <3>7. QED
      BY Zenon, <1>w, <2>u, <3>1, <3>2, <3>3, <3>4, <3>5, <3>6, WriteSettles
  <2>2. CASE ~(a.fresh \/ ~job.txn)
    <3>1. At("recheck", "none", job) \in Locals
      BY Zenon, <1>s, <2>t, AtType
    <3>2. CopyAgrees(At("recheck", "none", job), job)
          /\ StepJustified(At("recheck", "none", job), job, ledger)
      BY Zenon, <2>q DEF At, CopyAgrees, StepJustified
    <3>3. QED
      BY Zenon, <1>10, <1>w, <2>2, <3>1, <3>2, RefreshSettles DEF RecordCharge
  <2>3. QED
    BY Zenon, <2>1, <2>2
<1>11. CASE RecheckBinding(w)
  <2>1. CASE Goto(w, "discard", "failAfterCharge")
    <3>1. "discard" \in Pcs \ SettlementPcs /\ "failAfterCharge" \in Args
      BY Zenon DEF Pcs, SettlementPcs, Args
    <3>2. QED
      BY Zenon, <1>11, <1>w, <2>1, <3>1, PlainGoto DEF RecheckBinding
  <2>2. CASE Goto(w, "commit", "none")
    <3>1. "commit" \in Pcs /\ "none" \in Args
      BY Zenon DEF Pcs, Args
    <3>2. StepJustified([a EXCEPT !.pc = "commit", !.arg = "none"], job, ledger)
      BY Zenon, <1>11, <1>a, <1>s DEF StepJustified, RecheckBinding, Locals
    <3>3. UNCHANGED <<job, ledger, avail>>
      BY Zenon, <1>11 DEF RecheckBinding
    <3>4. QED
      BY Zenon, <1>w, <1>p, <2>2, <3>1, <3>2, <3>3, FrozenSame, GotoSettles
  <2>3. QED
    BY Zenon, <1>11, <2>1, <2>2 DEF RecheckBinding
<1>c. ASSUME a.pc = "commit", a.fresh, job'.quote = job.quote, UNCHANGED ledger
      PROVE  PaidBeforeAvailable'
  <2>1. job.quote = 0 \/ ledger.charge > 0
    <3>1. copy.quote # NoQuote /\ copy.quote \in {0, ledger.charge}
      BY Zenon, <1>a, <1>c DEF StepJustified
    <3>2. job.quote = copy.quote
      BY Zenon, <1>a, <3>1 DEF CopyAgrees
    <3>3. QED
      BY <1>q, <3>1, <3>2
  <2>2. QED
    BY Zenon, <1>c, <2>1 DEF PaidBeforeAvailable
<1>t. /\ "reload" \in Pcs \ SettlementPcs /\ "retry" \in Pcs \ SettlementPcs
      /\ "discard" \in Pcs \ SettlementPcs /\ "settle" \in Pcs \ SettlementPcs
      /\ {"retryable", "permanent", "binding", "billing", "failAfterCharge", "failPermanent",
          "cancelBeforeCommit"} \subseteq Args
  BY Zenon DEF Pcs, SettlementPcs, Args
<1>12. ASSUME NEW arg \in {"retryable", "permanent"}, Goto(w, "reload", arg),
              UNCHANGED <<job, ledger>>, a.pc = "commit", a.fresh \/ UNCHANGED avail
       PROVE  SettlementInv'
  <2>1. PaidBeforeAvailable'
    BY Zenon, <1>12, <1>c, <1>p, FrozenSame
  <2>2. StepJustified([a EXCEPT !.pc = "reload", !.arg = arg], job, ledger)
    BY Zenon, <1>s DEF StepJustified, Locals
  <2>3. QED
    BY ZenonT(60), <1>12, <1>w, <1>t, <2>1, <2>2, GotoSettles
<1>13. CASE Commit(w)
  <2>1. CASE a.fresh /\ CanWrite(w, Succeeded(job)) /\ Write(w, Succeeded(job), NoLease, Idle)
    <3> DEFINE new == Succeeded(job)
    <3>1. /\ new \in Jobs /\ new.quote = job.quote /\ new.txn = job.txn
          /\ new.comp = "not_required" /\ new.status = "succeeded"
      BY <1>s, SucceededRow
    <3>2. job.status \notin {"failed", "cancelled"}
      BY Zenon, <2>1, <3>1, TerminalStuck DEF CanWrite, TerminalStatuses
    <3>3. Frozen(job, new, ledger, ledger) /\ BooksAgree(new, ledger)
      BY Zenon, <1>a, <3>1, <3>2 DEF Frozen, BooksAgree
    <3>4. UNCHANGED ledger /\ a.pc = "commit"
      BY Zenon, <1>13 DEF Commit
    <3>5. PaidBeforeAvailable'
      BY Zenon, <1>c, <2>1, <3>1, <3>4 DEF Write
    <3>6. QED
      BY ZenonT(60), <1>w, <1>s, <2>1, <3>1, <3>3, <3>4, <3>5, IdleJustified, WriteSettles
  <2>2. QED
    BY Zenon, <1>12, <1>13, <2>1 DEF Commit
<1>14. CASE CommitJobTxLost(w)
  BY Zenon, <1>12, <1>14 DEF CommitJobTxLost
<1>15. CASE AfterCommitError(w)
  <2>1. PICK pc \in {"discard", "retry"},
             arg \in {"failAfterCharge", "failPermanent", "cancelBeforeCommit", "binding"} :
          actor' = [actor EXCEPT ![w] = At(pc, arg, job)]
    BY ZenonT(60), <1>15 DEF AfterCommitError, CancelGoal
  <2>2. At(pc, arg, job) \in Locals
    BY Zenon, <1>s, <1>t, AtType
  <2>3. CopyAgrees(At(pc, arg, job), job) /\ StepJustified(At(pc, arg, job), job, ledger)
    BY Zenon, <1>s, <1>t, PlainAt
  <2>4. QED
    BY Zenon, <1>15, <1>w, <2>1, <2>2, <2>3, RefreshSettles DEF AfterCommitError
<1>16. CASE StoreError(w)
  BY Zenon, <1>12, <1>16, <1>w, <1>t, PlainGoto DEF StoreError
<1>17. CASE ScheduleRetry(w)
  <2> DEFINE new == [job EXCEPT !.status = "retry_wait", !.retry = NextRetry(job),
                                !.manual = FALSE]
             goal == IF a.arg = "binding" /\ copy.txn THEN "failAfterCharge"
                                                      ELSE "failPermanent"
  <2>1. CASE Goto(w, "discard", goal) /\ UNCHANGED job
    <3>1. goal \in Args
      BY Zenon, <1>t
    <3>2. QED
      BY Zenon, <1>17, <1>w, <1>t, <2>1, <3>1, PlainGoto DEF ScheduleRetry
  <2>2. CASE MutateJob(w, new, NoLease, Idle)
    <3>1. new \in Jobs /\ new.quote = job.quote /\ new.txn = job.txn /\ new.comp = job.comp
      BY ZenonT(60), <1>s, NextRetryType DEF Jobs, Statuses
    <3>2. QED
      BY Zenon, <1>17, <1>w, <1>s, <2>2, <3>1, PlainMutate DEF ScheduleRetry
  <2>3. QED
    BY Zenon, <1>17, <2>1, <2>2 DEF ScheduleRetry
<1>18. CASE DiscardResult(w)
  <2>1. \A o \in Outputs : avail'[o] = "available" => avail[o] = "available"
    BY Zenon, <1>18 DEF DiscardResult
  <2>2. QED
    BY Zenon, <1>18, <1>w, <1>s, <1>t, <2>1, PlainGoto DEF DiscardResult
<1>19. CASE FailWithoutCharge(w) \/ CancelBeforeCommit(w) \/ FailPermanent(w)
  BY Zenon, <1>19, SettleAsSettles DEF FailWithoutCharge, CancelBeforeCommit, FailPermanent
<1>20. CASE FailAfterCharge(w)
  <2> DEFINE status == IF job.cancel THEN "cancelled" ELSE "failed"
             new == [job EXCEPT !.status = status, !.comp = "pending", !.manual = FALSE]
  <2>1. /\ new \in Jobs /\ new.quote = job.quote /\ new.txn = job.txn
        /\ new.comp = "pending" /\ new.status \in {"failed", "cancelled"}
    BY ZenonT(60), <1>s DEF Jobs, Statuses, TerminalStatuses, CompensationStatuses
  <2>2. CanWrite(w, new) /\ job.status \in {"failed", "cancelled"} => new.status = job.status
    BY TerminalStuck DEF CanWrite, TerminalStatuses
  <2>3. CanWrite(w, new) => Frozen(job, new, ledger, ledger) /\ BooksAgree(new, ledger)
    BY Zenon, <1>a, <2>1, <2>2 DEF Frozen, BooksAgree
  <2>4. MutateJob(w, new, NoLease, Idle) /\ UNCHANGED <<ledger, avail>>
    BY Zenon, <1>20 DEF FailAfterCharge
  <2>5. QED
    BY Zenon, <1>w, <1>s, <2>1, <2>3, <2>4, IdleJustified, MutateSettles
<1>21. QED
  BY Zenon, <1>1, <1>2, <1>3, <1>4, <1>5, <1>7, <1>8, <1>9, <1>10, <1>11, <1>13, <1>14, <1>15,
     <1>16, <1>17, <1>18, <1>19, <1>20 DEF Finalize, FinalizeFault

(* A write of a compensator: the job has failed with a recorded charge, and    *)
(* only its compensation status changes.                                       *)
LEMMA CompensationWrite ==
  ASSUME TypeOK, TypeOK', SettlementInv, NEW c \in Actors, NEW new \in Jobs,
         NEW newLease, NEW next \in Locals, MutateJob(c, new, newLease, next),
         UNCHANGED <<ledger, avail>>,
         CanWrite(c, new) => /\ job.status \in {"failed", "cancelled"} /\ job.txn
                             /\ new.quote = job.quote /\ new.txn = job.txn
                             /\ new.status = job.status
                             /\ new.comp = "completed" => ledger.refund = ledger.charge
                             /\ CopyAgrees(next, new) /\ StepJustified(next, new, ledger)
  PROVE  SettlementInv'
<1>1. CanWrite(c, new) => Frozen(job, new, ledger, ledger) /\ BooksAgree(new, ledger)
  BY Zenon DEF Frozen, BooksAgree, SettlementInv
<1>2. QED
  BY Zenon, <1>1, MutateSettles

(* Every step of CompensationService preserves the settlement invariant. *)
LEMMA CompensatorSettles ==
  ASSUME TypeOK, TypeOK', SettlementInv, NEW c \in Compensators,
         CompensatorStep(c) \/ CompensatorFault(c)
  PROVE  SettlementInv'
<1> DEFINE a == actor[c]
           copy == actor[c].snap
<1>w. c \in Actors
  BY Zenon DEF Actors
<1>s. a \in Locals /\ copy \in Jobs /\ a.arg \in Args /\ job \in Jobs /\ Idle \in Locals
  BY Zenon, <1>w, StoreTypes DEF TypeOK, Locals
<1>a. CopyAgrees(a, job) /\ StepJustified(a, job, ledger) /\ BooksAgree(job, ledger)
      /\ PaidBeforeAvailable
  BY <1>w DEF SettlementInv
<1>t. /\ "ack" \in Pcs \ SettlementPcs /\ "claimRefund" \in Pcs /\ "refund" \in Pcs
      /\ "complete" \in Pcs /\ "refundRetry" \in Pcs /\ "refundFailed" \in Pcs
  BY Zenon DEF Pcs, SettlementPcs
<1>k. ASSUME NEW new \in Jobs
      PROVE  /\ At("ack", a.arg, new) \in Locals
             /\ CopyAgrees(At("ack", a.arg, new), new)
             /\ StepJustified(At("ack", a.arg, new), new, ledger)
  BY Zenon, <1>s, <1>t, AtType, PlainAt
<1>1. CASE RunCompensation(c)
  <2>1. PICK row \in outbox.pending :
          \/ actor' = [actor EXCEPT ![c] = At("ack", row, job)]
          \/ /\ job.comp # "not_required" /\ job.txn
             /\ actor' = [actor EXCEPT ![c] = At("claimRefund", row, job)]
    BY Zenon, <1>1 DEF RunCompensation
  <2>2. row \in Args
    BY Zenon DEF TypeOK, Args
  <2>3. At("ack", row, job) \in Locals /\ At("claimRefund", row, job) \in Locals
    BY Zenon, <1>s, <1>t, <2>2, AtType
  <2>4. CASE actor' = [actor EXCEPT ![c] = At("ack", row, job)]
    BY ZenonT(60), <1>1, <1>w, <1>s, <1>t, <2>2, <2>3, <2>4, PlainAt, RefreshSettles DEF RunCompensation
  <2>5. CASE /\ job.comp # "not_required" /\ job.txn
             /\ actor' = [actor EXCEPT ![c] = At("claimRefund", row, job)]
    <3>1. CopyAgrees(At("claimRefund", row, job), job)
          /\ StepJustified(At("claimRefund", row, job), job, ledger)
      BY Zenon, <2>5 DEF At, CopyAgrees, StepJustified
    <3>2. QED
      BY ZenonT(60), <1>1, <1>w, <2>3, <2>5, <3>1, RefreshSettles DEF RunCompensation
  <2>6. QED
    BY Zenon, <2>1, <2>4, <2>5
<1>2. CASE ClaimCompensation(c)
  <2> DEFINE new == [job EXCEPT !.comp = "running", !.phase = "compensation"]
  <2>1. /\ new \in Jobs /\ new.quote = job.quote /\ new.txn = job.txn
        /\ new.comp = "running" /\ new.status = job.status
    BY Zenon, <1>s DEF Jobs, Phases, CompensationStatuses
  <2>2. CanWrite(c, new) => job.status \in {"failed", "cancelled"} /\ job.txn
    BY Zenon, <1>2, <1>a DEF ClaimCompensation, CanWrite, StepJustified, CopyAgrees, BooksAgree
  <2>3. At("refund", a.arg, new) \in Locals
    BY Zenon, <1>s, <1>t, <2>1, AtType
  <2>4. CanWrite(c, new) => /\ CopyAgrees(At("refund", a.arg, new), new)
                            /\ StepJustified(At("refund", a.arg, new), new, ledger)
    BY Zenon, <2>1, <2>2 DEF At, CopyAgrees, StepJustified
  <2>5. MutateJob(c, new, LeaseOf(c), At("refund", a.arg, new)) /\ UNCHANGED <<ledger, avail>>
    BY Zenon, <1>2 DEF ClaimCompensation
  <2>6. QED
    BY Zenon, <1>w, <2>1, <2>2, <2>3, <2>4, <2>5, CompensationWrite
<1>r. a.pc \in {"refund", "complete", "refundRetry", "refundFailed"}
        => job.status \in {"failed", "cancelled"} /\ job.txn
  BY Zenon, <1>a DEF StepJustified
<1>g. ASSUME NEW pc \in {"complete", "refundRetry", "refundFailed"}, a.pc = "refund",
             Goto(c, pc, a.arg), UNCHANGED <<job, avail>>,
             RefundApplied \/ (UNCHANGED ledger /\ pc # "complete")
      PROVE  SettlementInv'
  <2>1. /\ ledger'.charge = ledger.charge
        /\ ledger'.refund \in {ledger.refund, ledger.charge}
        /\ pc = "complete" => ledger'.refund = ledger'.charge
    BY <1>g DEF RefundApplied, TypeOK
  <2>2. ledger.refund \in {0, ledger.charge}
    BY Zenon, <1>a DEF BooksAgree
  <2>3. Frozen(job, job', ledger, ledger') /\ BooksAgree(job', ledger')
    BY ZenonT(60), <1>g, <1>a, <1>r, <2>1, <2>2 DEF Frozen, BooksAgree
  <2>4. PaidBeforeAvailable'
    BY Zenon, <1>g, <1>a, <2>3, PaidKept
  <2>5. /\ actor'[c] = [a EXCEPT !.pc = pc, !.arg = a.arg]
        /\ \A q \in Actors \ {c} : actor'[q] = actor[q]
    BY <1>g, <1>w, <1>s DEF Goto, TypeOK, Locals
  <2>6. actor'[c].pc = pc /\ actor'[c].snap = copy /\ actor'[c].fresh = a.fresh
    BY Zenon, <1>s, <2>5 DEF Locals
  <2>7. CopyAgrees(actor'[c], job')
    BY Zenon, <1>g, <1>a, <2>6 DEF CopyAgrees
  <2>8. StepJustified(actor'[c], job', ledger')
    BY Zenon, <1>g, <1>r, <2>1, <2>6 DEF StepJustified
  <2>9. QED
    BY Zenon, <1>g, <1>w, <2>3, <2>4, <2>5, <2>7, <2>8, StepSettles
<1>3. CASE Refund(c)
  BY Zenon, <1>3, <1>g DEF Refund
<1>4. CASE RefundLost(c)
  BY Zenon, <1>4, <1>g DEF RefundLost
<1>5. CASE RefundRejected(c)
  BY Zenon, <1>5, <1>g DEF RefundRejected
<1>6. CASE CompleteCompensation(c)
  <2> DEFINE new == [job EXCEPT !.comp = "completed"]
  <2>1. /\ new \in Jobs /\ new.quote = job.quote /\ new.txn = job.txn
        /\ new.status = job.status
    BY Zenon, <1>s DEF Jobs, CompensationStatuses
  <2>2. MutateJob(c, new, NoLease, At("ack", a.arg, new)) /\ UNCHANGED <<ledger, avail>>
        /\ a.pc = "complete"
    BY Zenon, <1>6 DEF CompleteCompensation
  <2>3. ledger.refund = ledger.charge
    BY Zenon, <1>a, <2>2 DEF StepJustified
  <2>4. QED
    BY Zenon, <1>w, <1>k, <1>r, <2>1, <2>2, <2>3, CompensationWrite
<1>7. CASE FailCompensation(c)
  <2> DEFINE new == [job EXCEPT !.comp = "pending", !.phase = "compensation", !.manual = TRUE]
  <2>1. /\ new \in Jobs /\ new.quote = job.quote /\ new.txn = job.txn
        /\ new.status = job.status /\ new.comp = "pending"
    BY Zenon, <1>s DEF Jobs, Phases, CompensationStatuses
  <2>2. MutateJob(c, new, NoLease, At("ack", a.arg, new)) /\ UNCHANGED <<ledger, avail>>
        /\ a.pc = "refundFailed"
    BY Zenon, <1>7 DEF FailCompensation
  <2>3. QED
    BY Zenon, <1>w, <1>k, <1>r, <2>1, <2>2, CompensationWrite
<1>8. CASE RetryCompensation(c)
  <2> DEFINE new == [job EXCEPT !.comp = "retry_wait", !.phase = "compensation",
                                !.retry = NextRetry(job), !.manual = FALSE]
  <2>1. /\ new \in Jobs /\ new.quote = job.quote /\ new.txn = job.txn
        /\ new.status = job.status /\ new.comp = "retry_wait"
    BY ZenonT(60), <1>s, NextRetryType DEF Jobs, Phases, CompensationStatuses
  <2>2. MutateJob(c, new, NoLease, At("ack", a.arg, new)) /\ UNCHANGED <<ledger, avail>>
        /\ a.pc = "refundRetry"
    BY Zenon, <1>8 DEF RetryCompensation
  <2>3. QED
    BY Zenon, <1>w, <1>k, <1>r, <2>1, <2>2, CompensationWrite
<1>9. CASE AckRow(c)
  BY Zenon, <1>9, <1>w, ReturnSettles DEF AckRow
<1>10. QED
  BY Zenon, <1>1, <1>2, <1>3, <1>4, <1>5, <1>6, <1>7, <1>8, <1>9
     DEF CompensatorStep, CompensatorFault

(* A write by the user or the operator leaves every copy stale. *)
LEMMA StaleSettles ==
  ASSUME TypeOK, TypeOK', SettlementInv, EveryCopyStale, UNCHANGED <<ledger, avail>>,
         Frozen(job, job', ledger, ledger), BooksAgree(job', ledger)
  PROVE  SettlementInv'
<1>1. PaidBeforeAvailable'
  BY Zenon, PaidKept DEF SettlementInv
<1>2. ASSUME NEW q \in Actors
      PROVE  CopyAgrees(actor'[q], job') /\ StepJustified(actor'[q], job', ledger')
  <2>1. actor'[q] = [actor[q] EXCEPT !.fresh = FALSE] /\ actor[q] \in Locals
        /\ actor'[q] \in Locals
    BY Zenon DEF EveryCopyStale, TypeOK
  <2>2. actor'[q].pc = actor[q].pc /\ actor'[q].snap = actor[q].snap /\ ~actor'[q].fresh
    BY Zenon, <2>1 DEF Locals
  <2>3. QED
    BY ZenonT(60), <2>1, <2>2, CopyKept DEF SettlementInv, TypeOK
<1>3. QED
  BY Zenon, <1>1, <1>2 DEF SettlementInv

(* The remaining steps of Next preserve the settlement invariant. *)
LEMMA EnvironmentSettles ==
  ASSUME TypeOK, TypeOK', SettlementInv,
         \/ Environment \/ LeaseExpires \/ LeaseLapses \/ DeadLetter
         \/ \E p \in Actors : Abandon(p)
         \/ \E w \in Workers : CancelLost(w)
  PROVE  SettlementInv'
<1>j. job \in Jobs /\ BooksAgree(job, ledger)
  BY Zenon DEF TypeOK, SettlementInv
<1>1. CASE CancelBatch
  <2>1. job'.quote = job.quote /\ job'.txn = job.txn /\ job'.comp = job.comp
    BY Zenon, <1>1, <1>j DEF CancelBatch, Jobs
  <2>2. Frozen(job, job', ledger, ledger) /\ BooksAgree(job', ledger)
    BY Zenon, <1>1, <1>j, <2>1
       DEF CancelBatch, Frozen, BooksAgree, IsTerminalJobStatus, TerminalStatuses
  <2>3. QED
    BY Zenon, <1>1, <2>2, StaleSettles DEF CancelBatch
<1>2. CASE ManualFinalize
  <2>1. /\ job'.quote = job.quote /\ job'.txn = job.txn /\ job'.comp = "manual_final"
        /\ job'.status = job.status /\ job.comp # "not_required"
    BY Zenon, <1>2, <1>j DEF ManualFinalize, Jobs
  <2>2. Frozen(job, job', ledger, ledger) /\ BooksAgree(job', ledger)
    BY Zenon, <1>j, <2>1 DEF Frozen, BooksAgree
  <2>3. QED
    BY Zenon, <1>2, <2>2, StaleSettles DEF ManualFinalize
<1>3. CASE EditStoryboard \/ ProviderProgress \/ LeaseExpires \/ LeaseLapses \/ DeadLetter
  <2>1. UNCHANGED <<job, actor, avail, ledger>>
    BY Zenon, <1>3 DEF EditStoryboard, ProviderProgress, LeaseExpires, LeaseLapses, DeadLetter
  <2>2. QED
    BY Zenon, <2>1 DEF SettlementInv, PaidBeforeAvailable
<1>4. ASSUME NEW p \in Actors, Abandon(p)
      PROVE  SettlementInv'
  BY Zenon, <1>4, ReturnSettles DEF Abandon
<1>5. ASSUME NEW w \in Workers, CancelLost(w)
      PROVE  SettlementInv'
  <2>1. "cancelRetry" \in Pcs \ SettlementPcs /\ "none" \in Args /\ w \in Actors
    BY Zenon DEF Pcs, SettlementPcs, Args, Actors
  <2>2. QED
    BY Zenon, <1>5, <2>1, PlainGoto DEF CancelLost
<1>6. QED
  BY Zenon, <1>1, <1>2, <1>3, <1>4, <1>5 DEF Environment

(* The settlement invariant holds of a new job. *)
LEMMA InitSettles ==
  ASSUME Init
  PROVE  TypeOK /\ SettlementInv
<1>1. TypeOK
  BY ZenonT(60), StoreTypes, StoreAssumption DEF Init, TypeOK, Points, Rows
<1>2. PaidBeforeAvailable /\ BooksAgree(job, ledger)
  BY DEF Init, PaidBeforeAvailable, BooksAgree, CreatedJob, NoQuote
<1>3. \A p \in Actors : CopyAgrees(actor[p], job) /\ StepJustified(actor[p], job, ledger)
  BY Zenon, IdleJustified DEF Init
<1>4. QED
  BY Zenon, <1>1, <1>2, <1>3 DEF SettlementInv

(* Every step of Next preserves it. *)
LEMMA NextSettles ==
  ASSUME TypeOK, SettlementInv, [Next]_vars
  PROVE  TypeOK' /\ SettlementInv'
<1>1. ASSUME NEW w \in Workers, WorkerStep(w)
      PROVE  TypeOK' /\ SettlementInv'
  BY Zenon, <1>1, WorkerTypes, WorkerSettles
<1>2. ASSUME NEW w \in Workers, Finalize(w) \/ FinalizeFault(w)
      PROVE  TypeOK' /\ SettlementInv'
  BY Zenon, <1>2, FinalizeTypes, FinalizeSettles
<1>3. ASSUME NEW c \in Compensators, CompensatorStep(c) \/ CompensatorFault(c)
      PROVE  TypeOK' /\ SettlementInv'
  BY Zenon, <1>3, CompensatorTypes, CompensatorSettles
<1>4. ASSUME \/ Environment \/ LeaseExpires \/ LeaseLapses \/ DeadLetter
             \/ \E p \in Actors : Abandon(p)
             \/ \E w \in Workers : CancelLost(w)
      PROVE  TypeOK' /\ SettlementInv'
  BY Zenon, <1>4, EnvironmentTypes, EnvironmentSettles
<1>5. CASE UNCHANGED vars
  BY Zenon, <1>5 DEF vars, TypeOK, SettlementInv, PaidBeforeAvailable
<1>6. QED
  BY Zenon, <1>1, <1>2, <1>3, <1>4, <1>5 DEF Next, Fault

(* Every variable of GenerationJob keeps its type, and the row, the ledger,     *)
(* the assets and the copies held by workers and dispatchers always agree on    *)
(* quote, charge and refund: the inductive invariant of the settlement.         *)
THEOREM Settlement == Spec => [](TypeOK /\ SettlementInv)
<1>1. Init => TypeOK /\ SettlementInv
  BY Zenon, InitSettles
<1>2. TypeOK /\ SettlementInv /\ [Next]_vars => TypeOK' /\ SettlementInv'
  BY Zenon, NextSettles
<1>3. QED
  BY <1>1, <1>2, PTL DEF Spec

(* Type correctness of GenerationJob. *)
THEOREM TypeCorrect == Spec => []TypeOK
BY Settlement, PTL

(* The user never has an asset that was not paid for: PaidBeforeAvailable. *)
THEOREM PaidDelivery == Spec => []PaidBeforeAvailable
<1>1. SettlementInv => PaidBeforeAvailable
  BY Zenon DEF SettlementInv
<1>2. QED
  BY <1>1, Settlement, PTL

(* One charge of the quoted points and one refund of exactly that charge:       *)
(* LedgerFollowsQuote.                                                          *)
THEOREM ExactLedger == Spec => []LedgerFollowsQuote
<1>1. SettlementInv => LedgerFollowsQuote
  BY Zenon DEF SettlementInv, BooksAgree, LedgerFollowsQuote
<1>2. QED
  BY <1>1, Settlement, PTL

(* Only a failed or cancelled job with a recorded charge is refunded, and a     *)
(* completed compensation has refunded everything: RefundsFollowFailure.        *)
THEOREM HonestRefunds == Spec => []RefundsFollowFailure
<1>1. SettlementInv => RefundsFollowFailure
  BY Zenon DEF SettlementInv, BooksAgree, RefundsFollowFailure
<1>2. QED
  BY <1>1, Settlement, PTL
-----------------------------------------------------------------------------
(* What MutateJob may do to the status of the row. *)
LEMMA MutateStatus ==
  ASSUME NEW p, NEW new, NEW newLease, NEW next, MutateJob(p, new, newLease, next)
  PROVE  IsTerminalJobStatus(job.status) => job'.status = job.status
<1>1. ASSUME CanWrite(p, new), IsTerminalJobStatus(job.status)
      PROVE  new.status = job.status
  BY Zenon, <1>1, TerminalStuck DEF CanWrite, IsTerminalJobStatus
<1>2. QED
  BY Zenon, <1>1 DEF MutateJob, Write

(* A terminal status is final, whoever writes the row last: TerminalIsFinal. *)
THEOREM FinalStatus == Spec => TerminalIsFinal
<1> DEFINE Kept == IsTerminalJobStatus(job.status) => job'.status = job.status
<1>1. ASSUME TypeOK, NEW w \in Workers, WorkerStep(w)
      PROVE  Kept
  BY Zenon, <1>1, MutateStatus
     DEF WorkerStep, Process, RecoverProviderReceipt, Submit, SubmitCall, Poll, PollCall,
         ApplyProviderResponse, HandleProviderError, ScheduleProviderRetry,
         ProcessCancellation, CancelCall, RetryCancellation, ClaimFinalization,
         FailProvider, CancelJob, SettleAs, HeartbeatLost, RenewJobLease
<1>2. ASSUME TypeOK, NEW w \in Workers, Finalize(w) \/ FinalizeFault(w)
      PROVE  Kept
  <2>j. job \in Jobs
    BY Zenon, <1>2 DEF TypeOK
  <2>1. CASE BeginFinalize(w)
    BY Zenon, <2>1 DEF BeginFinalize, Write
  <2>2. CASE FreezeSettlementQuote(w) \/ RecordCharge(w)
    BY Zenon, <2>j, <2>2 DEF FreezeSettlementQuote, RecordCharge, Write, Jobs
  <2>3. CASE Commit(w)
    <3>1. CASE CanWrite(w, Succeeded(job))
      <4>1. IsTerminalJobStatus(job.status) => Succeeded(job).status = job.status
        BY Zenon, <3>1, TerminalStuck DEF CanWrite, IsTerminalJobStatus
      <4>2. QED
        BY Zenon, <2>3, <3>1, <4>1 DEF Commit, Write
    <3>2. CASE ~CanWrite(w, Succeeded(job))
      BY Zenon, <2>3, <3>2 DEF Commit
    <3>3. QED
      BY Zenon, <3>1, <3>2
  <2>4. CASE \/ InspectCommit(w) \/ BeginCharge(w) \/ ScheduleRetry(w) \/ FailWithoutCharge(w)
             \/ CancelBeforeCommit(w) \/ FailPermanent(w) \/ FailAfterCharge(w)
    BY Zenon, <2>4, MutateStatus
       DEF InspectCommit, BeginCharge, ScheduleRetry, FailWithoutCharge, CancelBeforeCommit,
           FailPermanent, FailAfterCharge, SettleAs
  <2>5. CASE \/ CheckBinding(w) \/ Charge(w) \/ ChargeRejected(w) \/ RecheckBinding(w)
             \/ AfterCommitError(w) \/ DiscardResult(w) \/ FinalizeFault(w)
    BY Zenon, <2>5 DEF CheckBinding, Charge, ChargeRejected, RecheckBinding, AfterCommitError,
                DiscardResult, FinalizeFault, ChargeLost, CommitJobTxLost, StoreError
  <2>6. QED
    BY Zenon, <1>2, <2>1, <2>2, <2>3, <2>4, <2>5 DEF Finalize
<1>3. ASSUME TypeOK, NEW c \in Compensators, CompensatorStep(c) \/ CompensatorFault(c)
      PROVE  Kept
  BY Zenon, <1>3, MutateStatus
     DEF CompensatorStep, RunCompensation, ClaimCompensation, Refund, CompleteCompensation,
         FailCompensation, RetryCompensation, AckRow, CompensatorFault, RefundLost,
         RefundRejected
<1>4. ASSUME TypeOK, \/ Environment \/ LeaseExpires \/ LeaseLapses \/ DeadLetter
                     \/ \E p \in Actors : Abandon(p)
                     \/ \E w \in Workers : CancelLost(w)
      PROVE  Kept
  <2>1. job \in Jobs
    BY Zenon, <1>4 DEF TypeOK
  <2>2. QED
    BY Zenon, <1>4, <2>1 DEF Environment, CancelBatch, EditStoryboard, ProviderProgress,
                      ManualFinalize, LeaseExpires, LeaseLapses, DeadLetter, Abandon,
                      CancelLost, Jobs
<1>5. TypeOK /\ [Next]_vars => [Kept]_vars
  BY Zenon, <1>1, <1>2, <1>3, <1>4 DEF Next, Fault
<1>6. QED
  BY <1>5, TypeCorrect, PTL DEF Spec, TerminalIsFinal

(* The cancel request that is committed first wins over the domain commit:      *)
(* CancelledNeverBinds.                                                         *)
THEOREM CancelWins == Spec => CancelledNeverBinds
<1> DEFINE Guarded == ~bound /\ bound' => ~job.cancel
<1>1. ASSUME NEW w \in Workers, WorkerStep(w) \/ CancelLost(w)
      PROVE  Guarded
  BY ZenonT(60), <1>1
     DEF WorkerStep, Process, RecoverProviderReceipt, Submit, SubmitCall, Poll, PollCall,
         ApplyProviderResponse, HandleProviderError, ProcessCancellation, CancelCall,
         RetryCancellation, ClaimFinalization, FailProvider, CancelJob, SettleAs,
         HeartbeatLost, RenewJobLease, CancelLost
<1>2. ASSUME NEW w \in Workers, Finalize(w) \/ FinalizeFault(w)
      PROVE  Guarded
  <2>1. CASE Commit(w) \/ CommitJobTxLost(w)
    BY Zenon, <2>1 DEF Commit, CommitJobTxLost
  <2>2. CASE \/ BeginFinalize(w) \/ FreezeSettlementQuote(w) \/ InspectCommit(w)
             \/ CheckBinding(w) \/ BeginCharge(w) \/ Charge(w) \/ ChargeRejected(w)
             \/ RecordCharge(w) \/ RecheckBinding(w) \/ AfterCommitError(w)
             \/ ScheduleRetry(w) \/ DiscardResult(w) \/ FailWithoutCharge(w)
             \/ CancelBeforeCommit(w) \/ FailPermanent(w) \/ FailAfterCharge(w)
             \/ ChargeLost(w) \/ StoreError(w)
    BY Zenon, <2>2 DEF BeginFinalize, FreezeSettlementQuote, InspectCommit, CheckBinding, BeginCharge,
       Charge, ChargeRejected, RecordCharge, RecheckBinding, AfterCommitError, ScheduleRetry,
       DiscardResult, FailWithoutCharge, CancelBeforeCommit, FailPermanent, FailAfterCharge,
       SettleAs, ChargeLost, StoreError
  <2>3. QED
    BY Zenon, <1>2, <2>1, <2>2 DEF Finalize, FinalizeFault
<1>3. ASSUME NEW c \in Compensators, CompensatorStep(c) \/ CompensatorFault(c)
      PROVE  Guarded
  BY Zenon, <1>3
     DEF CompensatorStep, RunCompensation, ClaimCompensation, Refund, CompleteCompensation,
         FailCompensation, RetryCompensation, AckRow, CompensatorFault, RefundLost,
         RefundRejected
<1>4. ASSUME \/ Environment \/ LeaseExpires \/ LeaseLapses \/ DeadLetter
             \/ \E p \in Actors : Abandon(p)
      PROVE  Guarded
  BY Zenon, <1>4 DEF Environment, CancelBatch, EditStoryboard, ProviderProgress,
              ManualFinalize, LeaseExpires, LeaseLapses, DeadLetter, Abandon
<1>5. [Next]_vars => [Guarded]_vars
  BY Zenon, <1>1, <1>2, <1>3, <1>4 DEF Next, Fault
<1>6. QED
  BY <1>5, PTL DEF Spec, CancelledNeverBinds

-----------------------------------------------------------------------------
(* What a job owes its provider: a cancelled job leaves no task running. *)

(* The provider has no task to run, or its task has come to an end. *)
Stopped(p) == ~Async \/ p \in {"done", "failed", "cancelled"}

(* What the row, or an old copy of it, tells of the provider's task p: it is   *)
(* over when finalization has begun, and exists when its id is recorded.       *)
RowTells(j, p) ==
  /\ j.status = "finalizing" \/ j.phase \in {"artifact_finalize", "billing_charge"}
       => Stopped(p)
  /\ j.task => p # "none"

(* The row and the provider's task: no task without an attempt, and a job that *)
(* is cancelled was never attempted or has a task that is over.                *)
RowSound(j, p) ==
  /\ RowTells(j, p)
  /\ j.tried \/ p = "none"
  /\ j.status = "queued" => ~j.tried
  /\ j.status = "cancelled" => Stopped(p) \/ ~j.tried

(* What an actor at a program point has learned of the provider's task. *)
StepTells(a, j, p) ==
  /\ RowTells(a.snap, p)
  /\ a.snap.tried => j.tried
  /\ a.pc = "submitCall" => a.snap.tried
  /\ a.pc = "cancel" => a.snap.task \/ ~a.snap.tried
  /\ a.pc = "cancelCall" => a.snap.task
  /\ a.pc = "answer" /\ a.arg = "accepted" => p # "none"
  /\ a.pc = "answer" /\ a.arg \in {"completed", "cancelled"} => Stopped(p)
  /\ a.pc \in FinalizationPcs => Stopped(p)
  /\ a.pc \in {"discard", "settle"} /\ a.arg \in FinalizationGoals => Stopped(p)
  /\ a.pc \in {"discard", "settle"} /\ a.arg = "cancelJob" => Stopped(p) \/ ~a.snap.tried

(* An asset row that counts as a receipt of the provider's result. *)
Usable(status) == status \in {"pending_billing", "available"}

(* The inductive invariant behind NoOrphanedProviderWork. *)
ProviderInv ==
  /\ Async \/ provider = "none"
  /\ RowSound(job, provider)
  /\ \A o \in Outputs : Usable(avail[o]) => Stopped(provider)
  /\ \A p \in Actors : StepTells(actor[p], job, provider)

(* A task that exists stays, and one that is over stays over. *)
Forward(p, r) ==
  /\ Stopped(p) => Stopped(r)
  /\ p # "none" => r # "none"

(* What an actor has learned stays true while the others work. *)
LEMMA TellsKept ==
  ASSUME NEW a \in Locals, NEW b \in Locals, NEW j \in Jobs, NEW k \in Jobs, NEW p, NEW r,
         Forward(p, r), j.tried => k.tried, StepTells(a, j, p),
         b.pc = a.pc, b.arg = a.arg, b.snap = a.snap
  PROVE  StepTells(b, k, r)
<1>1. RowTells(b.snap, r)
  BY Zenon DEF StepTells, RowTells, Forward
<1>2. b.snap.tried => k.tried
  BY Zenon DEF StepTells
<1>3. QED
  BY Zenon, <1>1, <1>2 DEF StepTells, Forward

(* A step of p after which p's own state and the row are in order. *)
LEMMA StepTold ==
  ASSUME TypeOK, TypeOK', ProviderInv, NEW p \in Actors,
         Forward(provider, provider'), Async \/ provider' = "none",
         RowSound(job', provider'), job.tried => job'.tried,
         \A o \in Outputs : Usable(avail'[o]) => Stopped(provider'),
         StepTells(actor'[p], job', provider'),
         \A q \in Actors \ {p} : /\ actor'[q].pc = actor[q].pc
                                 /\ actor'[q].arg = actor[q].arg
                                 /\ actor'[q].snap = actor[q].snap
  PROVE  ProviderInv'
<1>1. ASSUME NEW q \in Actors
      PROVE  StepTells(actor'[q], job', provider')
  <2>1. CASE q = p
    BY Zenon, <2>1
  <2>2. CASE q # p
    <3>1. actor[q] \in Locals /\ actor'[q] \in Locals /\ job \in Jobs /\ job' \in Jobs
      BY Zenon DEF TypeOK
    <3>2. QED
      BY Zenon, <2>2, <3>1, TellsKept DEF ProviderInv
  <2>3. QED
    BY Zenon, <2>1, <2>2
<1>2. QED
  BY Zenon, <1>1 DEF ProviderInv

(* Nothing happened at the provider. *)
LEMMA ForwardSame == \A p : Forward(p, p)
BY Zenon DEF Forward

(* p moves its program counter; the provider may have worked for it. *)
LEMMA GotoTold ==
  ASSUME TypeOK, TypeOK', ProviderInv, NEW p \in Actors, NEW pc \in Pcs, NEW arg \in Args,
         Goto(p, pc, arg), UNCHANGED job,
         Forward(provider, provider'), Async \/ provider' = "none",
         RowSound(job, provider'),
         \A o \in Outputs : Usable(avail'[o]) => Stopped(provider'),
         StepTells([actor[p] EXCEPT !.pc = pc, !.arg = arg], job, provider')
  PROVE  ProviderInv'
<1>1. actor[p] \in Locals
  BY Zenon DEF TypeOK
<1>2. /\ actor'[p] = [actor[p] EXCEPT !.pc = pc, !.arg = arg]
      /\ \A q \in Actors \ {p} : actor'[q] = actor[q]
  BY <1>1 DEF Goto, TypeOK, Locals
<1>3. StepTells(actor'[p], job', provider') /\ RowSound(job', provider')
  BY Zenon, <1>2
<1>4. QED
  BY Zenon, <1>2, <1>3, StepTold

(* p moves its program counter and learns nothing of the provider. *)
LEMMA QuietGotoTold ==
  ASSUME TypeOK, TypeOK', ProviderInv, NEW p \in Actors, NEW pc \in Pcs, NEW arg \in Args,
         Goto(p, pc, arg), UNCHANGED <<job, provider>>,
         \A o \in Outputs : Usable(avail'[o]) => Usable(avail[o]) \/ Stopped(provider),
         pc \in FinalizationPcs => Stopped(provider),
         pc \in {"discard", "settle"} /\ arg \in FinalizationGoals => Stopped(provider),
         pc \in {"discard", "settle"} /\ arg = "cancelJob"
            => Stopped(provider) \/ ~actor[p].snap.tried,
         pc \notin {"submitCall", "cancelCall", "answer"},
         pc = "cancel" => actor[p].snap.task \/ ~actor[p].snap.tried
  PROVE  ProviderInv'
<1>1. actor[p] \in Locals /\ StepTells(actor[p], job, provider)
  BY Zenon DEF TypeOK, ProviderInv
<1> DEFINE b == [actor[p] EXCEPT !.pc = pc, !.arg = arg]
<1>2. b.pc = pc /\ b.arg = arg /\ b.snap = actor[p].snap
  BY Zenon, <1>1 DEF Locals
<1>3. StepTells(b, job, provider')
  <2> HIDE DEF b
  <2> QED
    BY Zenon, <1>1, <1>2 DEF StepTells
<1>4. QED
  BY Zenon, <1>3, GotoTold, ForwardSame DEF ProviderInv

(* An idle actor has learned nothing. *)
LEMMA IdleTells ==
  ASSUME NEW j, NEW p
  PROVE  StepTells(Idle, j, p)
BY Zenon DEF Idle, CreatedJob, StepTells, RowTells, FinalizationPcs

(* A fresh copy tells what the row tells. *)
LEMMA AtTells ==
  ASSUME NEW pc \in Pcs, NEW arg \in Args, NEW j \in Jobs, NEW p, RowTells(j, p),
         pc \in FinalizationPcs => Stopped(p),
         pc \in {"discard", "settle"} /\ arg \in FinalizationGoals => Stopped(p),
         pc \in {"discard", "settle"} => arg # "cancelJob",
         pc = "submitCall" => j.tried, pc = "cancelCall" => j.task,
         pc = "cancel" => j.task \/ ~j.tried, pc # "answer"
  PROVE  StepTells(At(pc, arg, j), j, p)
BY Zenon DEF At, StepTells

(* p returns. *)
LEMMA ReturnTold ==
  ASSUME TypeOK, TypeOK', ProviderInv, NEW p \in Actors, Return(p),
         UNCHANGED <<job, provider, avail>>
  PROVE  ProviderInv'
<1>1. actor'[p] = Idle /\ \A q \in Actors \ {p} : actor'[q] = actor[q]
  BY Zenon DEF Return, TypeOK
<1>2. StepTells(actor'[p], job', provider')
  BY Zenon, <1>1, IdleTells
<1>3. RowSound(job', provider')
  BY Zenon DEF ProviderInv
<1>4. QED
  BY Zenon, <1>1, <1>2, <1>3, StepTold, ForwardSame DEF ProviderInv

(* p takes a new copy of the row. *)
LEMMA RefreshTold ==
  ASSUME TypeOK, TypeOK', ProviderInv, NEW p \in Actors, NEW next \in Locals,
         actor' = [actor EXCEPT ![p] = next], UNCHANGED <<job, provider, avail>>,
         StepTells(next, job, provider)
  PROVE  ProviderInv'
<1>1. actor'[p] = next /\ \A q \in Actors \ {p} : actor'[q] = actor[q]
  BY Zenon DEF TypeOK
<1>2. StepTells(actor'[p], job', provider') /\ RowSound(job', provider')
  BY Zenon, <1>1 DEF ProviderInv
<1>3. QED
  BY Zenon, <1>1, <1>2, StepTold, ForwardSame DEF ProviderInv

(* p writes the row. *)
LEMMA WriteTold ==
  ASSUME TypeOK, TypeOK', ProviderInv, NEW p \in Actors, NEW new \in Jobs,
         NEW newLease, NEW next \in Locals, Write(p, new, newLease, next),
         UNCHANGED provider, RowSound(new, provider), job.tried => new.tried,
         \A o \in Outputs : Usable(avail'[o]) => Usable(avail[o]) \/ Stopped(provider),
         StepTells(next, new, provider)
  PROVE  ProviderInv'
<1>1. job' = new /\ actor'[p] = next
  BY Zenon DEF Write
<1>2. ASSUME NEW q \in Actors \ {p}
      PROVE  /\ actor'[q].pc = actor[q].pc /\ actor'[q].arg = actor[q].arg
             /\ actor'[q].snap = actor[q].snap
  <2>1. actor'[q] = [actor[q] EXCEPT !.fresh = FALSE] /\ actor[q] \in Locals
    BY Zenon DEF Write, TypeOK
  <2>2. QED
    BY Zenon, <2>1 DEF Locals
<1>3. StepTells(actor'[p], job', provider') /\ RowSound(job', provider')
  BY Zenon, <1>1
<1>4. QED
  BY Zenon, <1>1, <1>2, <1>3, StepTold, ForwardSame DEF ProviderInv

(* p tries to write the row. *)
LEMMA MutateTold ==
  ASSUME TypeOK, TypeOK', ProviderInv, NEW p \in Actors, NEW new \in Jobs,
         NEW newLease, NEW next \in Locals, MutateJob(p, new, newLease, next),
         UNCHANGED <<provider, avail>>,
         CanWrite(p, new) => /\ RowSound(new, provider)
                             /\ job.tried => new.tried
                             /\ StepTells(next, new, provider)
  PROVE  ProviderInv'
<1>1. CASE CanWrite(p, new)
  BY Zenon, <1>1, WriteTold DEF MutateJob
<1>2. CASE ~CanWrite(p, new)
  BY Zenon, <1>2, ReturnTold DEF MutateJob
<1>3. QED
  BY Zenon, <1>1, <1>2

(* The terminal write of an outcome. *)
LEMMA SettleAsTold ==
  ASSUME TypeOK, TypeOK', SettlementInv, ProviderInv, NEW w \in Workers,
         NEW goal \in FinalizationGoals \cup {"failProvider", "cancelJob"},
         NEW status \in {"failed", "cancelled"},
         goal = "failProvider" => status = "failed", SettleAs(w, goal, status)
  PROVE  ProviderInv'
<1> DEFINE new == [job EXCEPT !.status = status, !.comp = "not_required", !.manual = FALSE]
<1>w. w \in Actors /\ actor[w] \in Locals /\ job \in Jobs
  BY Zenon DEF TypeOK, Actors
<1>1. new \in Jobs /\ Idle \in Locals
  BY ZenonT(60), <1>w, StoreTypes DEF Jobs, Statuses, TerminalStatuses, CompensationStatuses
<1>2. /\ new.tried = job.tried /\ new.task = job.task /\ new.phase = job.phase
      /\ new.status = status
  BY Zenon, <1>w DEF Jobs
<1>3. CanWrite(w, new) /\ status = "cancelled" => Stopped(provider) \/ ~job.tried
  BY Zenon, <1>w DEF SettleAs, CanWrite, SettlementInv, CopyAgrees, ProviderInv, StepTells
<1>4. CanWrite(w, new) => RowSound(new, provider)
  <2> HIDE DEF new
  <2> QED
    BY Zenon, <1>2, <1>3 DEF ProviderInv, RowSound, RowTells
<1>5. StepTells(Idle, new, provider)
  BY Zenon, IdleTells
<1>6. QED
  <2>1. MutateJob(w, new, NoLease, Idle) /\ UNCHANGED <<provider, avail>>
    BY Zenon DEF SettleAs
  <2> HIDE DEF new
  <2>2. QED
    BY Zenon, <1>w, <1>1, <1>2, <1>4, <1>5, <2>1, MutateTold

(* Every step of LifecycleWorker, and a lost cancel call. *)
LEMMA WorkerTold ==
  ASSUME TypeOK, TypeOK', SettlementInv, ProviderInv, NEW w \in Workers,
         WorkerStep(w) \/ CancelLost(w)
  PROVE  ProviderInv'
<1>w. w \in Actors
  BY Zenon DEF Actors
<1>s. /\ actor[w] \in Locals /\ actor[w].snap \in Jobs /\ actor[w].arg \in Args
      /\ job \in Jobs /\ Idle \in Locals
  BY Zenon, <1>w, StoreTypes DEF TypeOK, Locals
<1>t. /\ StepTells(actor[w], job, provider) /\ RowTells(actor[w].snap, provider)
      /\ RowSound(job, provider) /\ RowTells(job, provider)
  BY Zenon, <1>w DEF ProviderInv, StepTells, RowSound
<1>r. ASSUME NEW j \in Jobs, RowTells(j, provider)
      PROVE  /\ Route(j) \in {"claim", "submit", "cancel", "poll"}
             /\ Route(j) = "claim" => Stopped(provider)
             /\ Route(j) = "cancel" => j.task \/ ~j.tried
  BY Zenon, <1>r DEF Route, RowTells
<1>p. {"claim", "submit", "cancel", "poll", "recover", "providerError", "finalize",
       "submitCall", "pollCall", "cancelCall", "discard", "answer", "cancelRetry"} \subseteq Pcs
      /\ {"none", "process", "failProvider", "cancelJob", "accepted", "completed",
          "retryable", "permanent", "failed", "cancelled"} \subseteq Args
  BY Zenon DEF Pcs, Args
<1>1. CASE Process(w)
  <2> DEFINE pc == IF job.tried THEN "recover" ELSE Route(job)
             next == At(pc, "process", job)
  <2>1. pc \in Pcs /\ "process" \in Args
    BY Zenon, <1>s, <1>t, <1>r, <1>p
  <2>2. next \in Locals
    BY Zenon, <1>s, <2>1, AtType
  <2>3. StepTells(next, job, provider)
    BY Zenon, <1>s, <1>t, <1>r, <2>1, AtTells DEF FinalizationPcs
  <2>4. QED
    BY ZenonT(60), <1>1, <1>w, <2>2, <2>3, RefreshTold DEF Process
<1>2. CASE RecoverProviderReceipt(w)
  <2> DEFINE complete == [job EXCEPT !.status = "finalizing", !.phase = "artifact_finalize",
                                     !.assets = Outputs, !.usage = UsageOr(job, "estimated")]
             partial == [job EXCEPT !.assets = Receipt]
  <2>1. complete \in Jobs /\ partial \in Jobs
    BY ZenonT(60), <1>s DEF Jobs, UsageOr, Receipt, Statuses, Phases
  <2>2. /\ complete.tried = job.tried /\ complete.task = job.task
        /\ complete.status = "finalizing"
        /\ partial.tried = job.tried /\ partial.task = job.task
        /\ partial.status = job.status /\ partial.phase = job.phase
    BY Zenon, <1>s DEF Jobs
  <2> HIDE DEF complete, partial
  <2>3. CASE /\ Receipt = Outputs
             /\ MutateJob(w, complete, LeaseOf(w), At("finalize", "none", complete))
    <3>1. Stopped(provider)
      BY Zenon, <2>3, StoreAssumption DEF Receipt, ProviderInv, Usable
    <3>2. RowTells(complete, provider)
      BY Zenon, <1>t, <2>2, <3>1 DEF RowTells
    <3>3. RowSound(complete, provider)
      BY Zenon, <1>t, <2>2, <3>1 DEF RowTells, RowSound
    <3>4. At("finalize", "none", complete) \in Locals
      BY Zenon, <1>p, <2>1, AtType
    <3>5. StepTells(At("finalize", "none", complete), complete, provider)
      BY Zenon, <1>p, <2>1, <3>1, <3>2, AtTells
    <3>6. QED
      BY Zenon, <1>2, <1>w, <2>1, <2>2, <2>3, <3>3, <3>4, <3>5, MutateTold DEF RecoverProviderReceipt
  <2>4. CASE MutateJob(w, partial, lease,
                       At(AfterRecovery(w, partial), actor[w].arg, partial))
    <3> DEFINE pc == AfterRecovery(w, partial)
               next == At(pc, actor[w].arg, partial)
    <3>1. RowTells(partial, provider) /\ RowSound(partial, provider)
      BY Zenon, <1>t, <2>2 DEF RowTells, RowSound
    <3>2. /\ pc \in {"claim", "submit", "cancel", "poll", "providerError"}
          /\ pc = "claim" => Stopped(provider)
          /\ pc = "cancel" => partial.task \/ ~partial.tried
      BY Zenon, <1>r, <2>1, <3>1 DEF AfterRecovery
    <3>3. pc \in Pcs
      BY Zenon, <1>p, <3>2
    <3>4. next \in Locals
      BY Zenon, <1>s, <2>1, <3>3, AtType
    <3>5. StepTells(next, partial, provider)
      BY Zenon, <1>s, <2>1, <3>1, <3>2, <3>3, AtTells DEF FinalizationPcs
    <3>6. QED
      BY Zenon, <1>2, <1>w, <2>1, <2>2, <2>4, <3>1, <3>4, <3>5, MutateTold DEF RecoverProviderReceipt
  <2>5. CASE /\ Goto(w, AfterRecovery(w, actor[w].snap), actor[w].arg)
             /\ UNCHANGED <<job, lease>>
    <3> DEFINE pc == AfterRecovery(w, actor[w].snap)
    <3>1. /\ pc \in {"claim", "submit", "cancel", "poll", "providerError"}
          /\ pc = "claim" => Stopped(provider)
          /\ pc = "cancel" => actor[w].snap.task \/ ~actor[w].snap.tried
      BY Zenon, <1>r, <1>s, <1>t DEF AfterRecovery
    <3>2. pc \in Pcs
      BY Zenon, <1>p, <3>1
    <3> HIDE DEF pc
    <3>3. Goto(w, pc, actor[w].arg) /\ UNCHANGED <<job, provider, avail>>
      BY Zenon, <1>2, <2>5 DEF RecoverProviderReceipt, pc
    <3>4. QED
      BY Zenon, <1>w, <1>s, <3>1, <3>2, <3>3, QuietGotoTold DEF FinalizationPcs
  <2>6. QED
    BY Zenon, <1>2, <2>3, <2>4, <2>5 DEF RecoverProviderReceipt, complete, partial
<1>3. CASE Submit(w)
  <2> DEFINE new == [job EXCEPT !.status = "running", !.phase = "provider_submit",
                                !.tried = TRUE]
  <2>1. new \in Jobs
    BY ZenonT(60), <1>s DEF Jobs, Statuses, Phases
  <2>2. new.tried /\ new.task = job.task /\ new.status = "running" /\ new.phase = "provider_submit"
    BY Zenon, <1>s DEF Jobs
  <2>3. MutateJob(w, new, LeaseOf(w), At("submitCall", "none", new)) /\ UNCHANGED <<provider, avail>>
    BY Zenon, <1>3 DEF Submit
  <2> HIDE DEF new
  <2>4. RowTells(new, provider) /\ RowSound(new, provider)
    BY Zenon, <1>t, <2>2 DEF RowTells, RowSound
  <2>5. At("submitCall", "none", new) \in Locals
    BY Zenon, <1>p, <2>1, AtType
  <2>6. StepTells(At("submitCall", "none", new), new, provider)
    BY Zenon, <1>p, <2>1, <2>2, <2>4, AtTells DEF FinalizationPcs
  <2>7. QED
    BY Zenon, <1>w, <2>1, <2>2, <2>3, <2>4, <2>5, <2>6, MutateTold
<1>4. CASE SubmitCall(w)
  <2>1. actor[w].snap.tried /\ job.tried
    BY Zenon, <1>4, <1>t DEF SubmitCall, StepTells
  <2>2. /\ Forward(provider, provider') /\ (Async \/ provider' = "none")
        /\ RowSound(job, provider')
    BY Zenon, <1>4, <1>t, <2>1 DEF SubmitCall, Forward, Stopped, ProviderInv, RowSound, RowTells
  <2>3. \A o \in Outputs : Usable(avail'[o]) => Stopped(provider')
    BY Zenon, <1>4 DEF SubmitCall, SavePending, Stopped, ProviderInv, Usable
  <2>4. PICK pc \in {"answer", "recover"},
             arg \in {"completed", "retryable", "permanent", "accepted"} :
          /\ Goto(w, pc, arg)
          /\ pc = "answer" => \/ arg = "completed" /\ ~Async
                              \/ arg = "accepted" /\ provider' # "none"
    BY Zenon, <1>4 DEF SubmitCall
  <2>5. pc \in Pcs /\ arg \in Args
    BY Zenon, <1>p, <2>4
  <2> DEFINE b == [actor[w] EXCEPT !.pc = pc, !.arg = arg]
  <2>6. b.pc = pc /\ b.arg = arg /\ b.snap = actor[w].snap
    BY Zenon, <1>s DEF Locals
  <2>7. StepTells(b, job, provider')
    <3>1. RowTells(actor[w].snap, provider')
      BY Zenon, <1>t, <2>2 DEF RowTells, Forward
    <3> HIDE DEF b
    <3>2. QED
      BY Zenon, <1>t, <2>4, <2>6, <3>1 DEF StepTells, Stopped, FinalizationPcs
  <2>8. QED
    BY ZenonT(60), <1>4, <1>w, <2>2, <2>3, <2>4, <2>5, <2>7, GotoTold DEF SubmitCall
<1>5. CASE Poll(w)
  <2> DEFINE new == [job EXCEPT !.status = "running", !.phase = "provider_poll",
                                !.tried = TRUE, !.polls = actor[w].snap.polls + 1]
  <2>1. CASE actor[w].snap.polls >= MaxPolls
    BY Zenon, <1>5, <1>w, <1>p, <2>1, QuietGotoTold DEF Poll, FinalizationPcs, FinalizationGoals
  <2>2. CASE ~(actor[w].snap.polls >= MaxPolls)
    <3>1. actor[w].snap.polls + 1 \in 0..MaxPolls
      BY <1>s, <2>2, StoreAssumption DEF Jobs
    <3>2. new \in Jobs
      BY ZenonT(60), <1>s, <3>1 DEF Jobs, Statuses, Phases
    <3>3. new.tried /\ new.task = job.task /\ new.status = "running" /\ new.phase = "provider_poll"
      BY Zenon, <1>s DEF Jobs
    <3>4. MutateJob(w, new, LeaseOf(w), At("pollCall", "none", new)) /\ UNCHANGED <<provider, avail>>
      BY Zenon, <1>5, <2>2 DEF Poll
    <3> HIDE DEF new
    <3>5. RowTells(new, provider) /\ RowSound(new, provider)
      BY Zenon, <1>t, <3>3 DEF RowTells, RowSound
    <3>6. At("pollCall", "none", new) \in Locals
      BY Zenon, <1>p, <3>2, AtType
    <3>7. StepTells(At("pollCall", "none", new), new, provider)
      BY Zenon, <1>p, <3>2, <3>5, AtTells DEF FinalizationPcs
    <3>8. QED
      BY Zenon, <1>w, <3>2, <3>3, <3>4, <3>5, <3>6, <3>7, MutateTold
  <2>3. QED
    BY Zenon, <2>1, <2>2
<1>6. CASE PollCall(w)
  <2>1. PICK pc \in {"answer", "recover"},
             arg \in {"completed", "retryable", "permanent", "accepted", "failed", "cancelled"} :
          /\ Goto(w, pc, arg)
          /\ pc = "answer" => \/ arg = "accepted" /\ provider = "running"
                              \/ arg # "accepted" /\ Stopped(provider)
    BY Zenon, <1>6 DEF PollCall, Stopped
  <2>2. \A o \in Outputs : Usable(avail'[o]) => Stopped(provider)
    BY Zenon, <1>6 DEF PollCall, SavePending, Stopped, ProviderInv, Usable
  <2>3. pc \in Pcs /\ arg \in Args
    BY Zenon, <1>p, <2>1
  <2> DEFINE b == [actor[w] EXCEPT !.pc = pc, !.arg = arg]
  <2>4. b.pc = pc /\ b.arg = arg /\ b.snap = actor[w].snap
    BY Zenon, <1>s DEF Locals
  <2>5. StepTells(b, job, provider)
    <3> HIDE DEF b
    <3>1. QED
      BY Zenon, <1>t, <2>1, <2>4 DEF StepTells, FinalizationPcs
  <2>6. UNCHANGED <<job, provider>>
    BY Zenon, <1>6 DEF PollCall
  <2>7. QED
    BY ZenonT(60), <1>w, <1>t, <2>1, <2>2, <2>3, <2>5, <2>6, GotoTold, ForwardSame DEF ProviderInv
<1>7. CASE ApplyProviderResponse(w)
  <2> DEFINE waiting == [job EXCEPT !.status = "waiting_provider",
                                    !.phase = "provider_poll", !.task = TRUE]
             finished(usage) ==
               [job EXCEPT !.status = "finalizing", !.phase = "artifact_finalize",
                           !.assets = Outputs, !.usage = UsageOr(job, usage)]
             next == IF actor[w].snap.phase = "provider_submit" /\ actor[w].snap.cancel
                       THEN At("cancel", "none", waiting) ELSE Idle
  <2>1. CASE actor[w].arg = "accepted" /\ MutateJob(w, waiting, NoLease, next)
    <3>1. waiting \in Jobs
      BY ZenonT(60), <1>s DEF Jobs, Statuses, Phases
    <3>2. /\ waiting.tried = job.tried /\ waiting.task /\ waiting.status = "waiting_provider"
          /\ waiting.phase = "provider_poll"
      BY Zenon, <1>s DEF Jobs
    <3> HIDE DEF waiting
    <3>3. provider # "none"
      BY Zenon, <1>7, <1>t, <2>1 DEF ApplyProviderResponse, StepTells
    <3>4. RowTells(waiting, provider) /\ RowSound(waiting, provider)
      BY Zenon, <1>t, <3>2, <3>3 DEF RowTells, RowSound
    <3>5. next \in Locals
      BY Zenon, <1>p, <1>s, <3>1, AtType
    <3>6. StepTells(next, waiting, provider)
      <4>1. StepTells(At("cancel", "none", waiting), waiting, provider)
        BY Zenon, <1>p, <3>1, <3>2, <3>4, AtTells DEF FinalizationPcs
      <4>2. QED
        BY Zenon, <4>1, IdleTells
    <3> HIDE DEF next
    <3>7. QED
      BY Zenon, <1>7, <1>w, <2>1, <3>1, <3>2, <3>4, <3>5, <3>6, MutateTold DEF ApplyProviderResponse
  <2>2. ASSUME NEW usage \in {"reported", "estimated"}, actor[w].arg = "completed",
               MutateJob(w, finished(usage), LeaseOf(w),
                         At("finalize", "none", finished(usage)))
        PROVE  ProviderInv'
    <3> DEFINE new == finished(usage)
    <3>1. new \in Jobs
      BY ZenonT(60), <1>s DEF Jobs, Statuses, Phases, UsageOr
    <3>2. new.tried = job.tried /\ new.task = job.task /\ new.status = "finalizing"
      BY Zenon, <1>s DEF Jobs
    <3>3. MutateJob(w, new, LeaseOf(w), At("finalize", "none", new)) /\ UNCHANGED <<provider, avail>>
      BY Zenon, <1>7, <2>2 DEF ApplyProviderResponse
    <3> HIDE DEF new
    <3>4. Stopped(provider)
      BY Zenon, <1>7, <1>t, <2>2 DEF ApplyProviderResponse, StepTells
    <3>5. RowTells(new, provider) /\ RowSound(new, provider)
      BY Zenon, <1>t, <3>2, <3>4 DEF RowTells, RowSound
    <3>6. At("finalize", "none", new) \in Locals
      BY Zenon, <1>p, <3>1, AtType
    <3>7. StepTells(At("finalize", "none", new), new, provider)
      BY Zenon, <1>p, <3>1, <3>4, <3>5, AtTells
    <3>8. QED
      BY Zenon, <1>w, <3>1, <3>2, <3>3, <3>5, <3>6, <3>7, MutateTold
  <2>3. CASE /\ actor[w].arg = "cancelled"
             /\ Goto(w, "discard", "cancelJob") /\ UNCHANGED <<job, lease>>
    <3>1. Stopped(provider)
      BY Zenon, <1>7, <1>t, <2>3 DEF ApplyProviderResponse, StepTells
    <3>2. QED
      BY Zenon, <1>7, <1>w, <1>p, <2>3, <3>1, QuietGotoTold
         DEF ApplyProviderResponse, FinalizationPcs, FinalizationGoals
  <2>4. CASE Goto(w, "discard", "failProvider") /\ UNCHANGED <<job, lease>>
    BY Zenon, <1>7, <1>w, <1>p, <2>4, QuietGotoTold
       DEF ApplyProviderResponse, FinalizationPcs, FinalizationGoals
  <2>5. QED
    BY Zenon, <1>7, <2>1, <2>2, <2>3, <2>4 DEF ApplyProviderResponse
<1>8. ASSUME ScheduleProviderRetry(w), UNCHANGED <<avail, provider>>
      PROVE  ProviderInv'
  <2> DEFINE new == [job EXCEPT !.status = "retry_wait", !.retry = NextRetry(job),
                                !.manual = FALSE]
  <2>1. new \in Jobs
    BY ZenonT(60), <1>s, NextRetryType DEF Jobs, Statuses
  <2>2. new.tried = job.tried /\ new.task = job.task /\ new.phase = job.phase /\ new.status = "retry_wait"
    BY Zenon, <1>s DEF Jobs
  <2>3. MutateJob(w, new, NoLease, Idle)
    BY Zenon, <1>8 DEF ScheduleProviderRetry
  <2> HIDE DEF new
  <2>4. RowSound(new, provider)
    BY Zenon, <1>t, <2>2 DEF RowTells, RowSound
  <2>5. QED
    BY Zenon, <1>8, <1>w, <1>s, <2>1, <2>2, <2>3, <2>4, IdleTells, MutateTold
<1>9. CASE HandleProviderError(w)
  <2>1. CASE ScheduleProviderRetry(w)
    BY Zenon, <1>8, <1>9, <2>1 DEF HandleProviderError
  <2>2. CASE Goto(w, "discard", "failProvider") /\ UNCHANGED <<job, lease>>
    BY Zenon, <1>9, <1>w, <1>p, <2>2, QuietGotoTold
       DEF HandleProviderError, FinalizationPcs, FinalizationGoals
  <2>3. QED
    BY Zenon, <1>9, <2>1, <2>2 DEF HandleProviderError
<1>10. CASE ProcessCancellation(w)
  <2> DEFINE new == [job EXCEPT !.status = "running", !.phase = "provider_poll"]
  <2>1. CASE /\ actor[w].snap.task
             /\ MutateJob(w, new, LeaseOf(w), At("cancelCall", "none", new))
    <3>1. new \in Jobs
      BY Zenon, <1>s DEF Jobs, Statuses, Phases
    <3>2. /\ new.tried = job.tried /\ new.task = job.task /\ new.status = "running"
          /\ new.phase = "provider_poll"
      BY Zenon, <1>s DEF Jobs
    <3> HIDE DEF new
    <3>3. RowTells(new, provider) /\ RowSound(new, provider)
      BY Zenon, <1>t, <3>2 DEF RowTells, RowSound
    <3>4. At("cancelCall", "none", new) \in Locals
      BY Zenon, <1>p, <3>1, AtType
    <3>5. CanWrite(w, new) => new.task
      BY Zenon, <1>w, <2>1, <3>2 DEF CanWrite, SettlementInv, CopyAgrees
    <3>6. CanWrite(w, new) => StepTells(At("cancelCall", "none", new), new, provider)
      BY Zenon, <1>p, <3>1, <3>3, <3>5, AtTells DEF FinalizationPcs
    <3>7. QED
      BY Zenon, <1>10, <1>w, <2>1, <3>1, <3>2, <3>3, <3>4, <3>6, MutateTold DEF ProcessCancellation
  <2>2. CASE /\ ~actor[w].snap.task
             /\ Goto(w, "discard", "cancelJob") /\ UNCHANGED <<job, lease>>
    <3>1. ~actor[w].snap.tried
      BY Zenon, <1>10, <1>t, <2>2 DEF ProcessCancellation, StepTells
    <3>2. QED
      BY Zenon, <1>10, <1>w, <1>p, <2>2, <3>1, QuietGotoTold
         DEF ProcessCancellation, FinalizationPcs, FinalizationGoals
  <2>3. QED
    BY Zenon, <1>10, <2>1, <2>2 DEF ProcessCancellation
<1>11. CASE CancelCall(w) \/ CancelLost(w)
  <2>1. provider # "none"
    <3>1. actor[w].pc = "cancelCall"
      BY ZenonT(60), <1>11 DEF CancelCall, CancelLost
    <3> QED BY Zenon, <1>t, <3>1 DEF StepTells, RowTells
  <2>2. provider' = provider \/ TaskCancelled
    BY Zenon, <1>11 DEF CancelCall, CancelLost
  <2>3. Async /\ provider' # "none" /\ (TaskCancelled => Stopped(provider'))
    BY Zenon, <2>1, <2>2 DEF TaskCancelled, ProviderInv, Stopped, TypeOK
  <2>4. /\ Forward(provider, provider') /\ (Async \/ provider' = "none")
        /\ RowSound(job, provider')
    BY Zenon, <1>t, <2>1, <2>2, <2>3 DEF TaskCancelled, Forward, Stopped, ProviderInv, RowSound, RowTells
  <2>5. PICK pc \in {"discard", "poll", "cancelRetry"}, arg \in {"cancelJob", "none"} :
          Goto(w, pc, arg) /\ (pc = "discard" => TaskCancelled)
    BY Zenon, <1>11 DEF CancelCall, CancelLost
  <2>6. pc \in Pcs /\ arg \in Args
    BY Zenon, <1>p, <2>5
  <2> DEFINE b == [actor[w] EXCEPT !.pc = pc, !.arg = arg]
  <2>7. b.pc = pc /\ b.arg = arg /\ b.snap = actor[w].snap
    BY Zenon, <1>s DEF Locals
  <2>8. StepTells(b, job, provider')
    <3>1. RowTells(actor[w].snap, provider')
      BY Zenon, <1>t, <2>4 DEF RowTells, Forward
    <3> HIDE DEF b
    <3>2. QED
      BY Zenon, <1>t, <2>3, <2>5, <2>7, <3>1 DEF StepTells, FinalizationPcs
  <2>9. \A o \in Outputs : Usable(avail'[o]) => Stopped(provider')
    BY Zenon, <1>11, <2>4 DEF CancelCall, CancelLost, ProviderInv, Forward
  <2>10. QED
    BY ZenonT(60), <1>11, <1>w, <2>4, <2>5, <2>6, <2>8, <2>9, GotoTold DEF CancelCall, CancelLost
<1>12. CASE RetryCancellation(w)
  BY Zenon, <1>8, <1>12 DEF RetryCancellation
<1>13. CASE ClaimFinalization(w)
  <2> DEFINE new == [job EXCEPT !.status = "finalizing"]
  <2>1. new \in Jobs
    BY Zenon, <1>s DEF Jobs, Statuses
  <2>2. new.tried = job.tried /\ new.task = job.task /\ new.status = "finalizing"
    BY Zenon, <1>s DEF Jobs
  <2>3. MutateJob(w, new, LeaseOf(w), At("finalize", "none", new)) /\ UNCHANGED <<provider, avail>>
    BY Zenon, <1>13 DEF ClaimFinalization
  <2> HIDE DEF new
  <2>4. Stopped(provider)
    BY Zenon, <1>13, <1>t DEF ClaimFinalization, StepTells, FinalizationPcs
  <2>5. RowTells(new, provider) /\ RowSound(new, provider)
    BY Zenon, <1>t, <2>2, <2>4 DEF RowTells, RowSound
  <2>6. At("finalize", "none", new) \in Locals
    BY Zenon, <1>p, <2>1, AtType
  <2>7. StepTells(At("finalize", "none", new), new, provider)
    BY Zenon, <1>p, <2>1, <2>4, <2>5, AtTells
  <2>8. QED
    BY Zenon, <1>w, <2>1, <2>2, <2>3, <2>5, <2>6, <2>7, MutateTold
<1>14. CASE FailProvider(w) \/ CancelJob(w)
  BY Zenon, <1>14, SettleAsTold DEF FailProvider, CancelJob
<1>15. CASE HeartbeatLost(w)
  BY Zenon, <1>15, <1>w, ReturnTold DEF HeartbeatLost
<1>16. CASE RenewJobLease(w)
  BY Zenon, <1>16 DEF RenewJobLease, ProviderInv
<1>17. QED
  BY Zenon, <1>1, <1>2, <1>3, <1>4, <1>5, <1>6, <1>7, <1>9, <1>10, <1>11, <1>12, <1>13,
     <1>14, <1>15, <1>16 DEF WorkerStep

(* Once the provider has stopped, a write that keeps attempt and task id is in *)
(* order, and so is the copy taken with it.                                    *)
LEMMA StoppedWrite ==
  ASSUME TypeOK, ProviderInv, Stopped(provider), NEW new \in Jobs,
         new.tried = job.tried, new.task = job.task,
         new.status = job.status \/ new.status # "queued"
  PROVE  /\ RowSound(new, provider)
         /\ \A pc \in Pcs, arg \in Args :
              pc \notin {"discard", "settle", "submitCall", "cancelCall", "cancel", "answer"}
                => StepTells(At(pc, arg, new), new, provider)
<1>1. RowSound(new, provider) /\ RowTells(new, provider)
  BY Zenon DEF ProviderInv, RowSound, RowTells
<1>2. QED
  BY Zenon, <1>1, AtTells

(* Every step of FinalizationEngine. *)
LEMMA FinalizeTold ==
  ASSUME TypeOK, TypeOK', SettlementInv, ProviderInv, NEW w \in Workers,
         Finalize(w) \/ FinalizeFault(w)
  PROVE  ProviderInv'
<1>w. w \in Actors
  BY Zenon DEF Actors
<1>s. /\ actor[w] \in Locals /\ actor[w].snap \in Jobs /\ actor[w].arg \in Args
      /\ job \in Jobs /\ Idle \in Locals
  BY Zenon, <1>w, StoreTypes DEF TypeOK, Locals
<1>t. /\ StepTells(actor[w], job, provider) /\ RowSound(job, provider)
      /\ RowTells(job, provider)
      /\ actor[w].pc \in FinalizationPcs => Stopped(provider)
  BY Zenon, <1>w DEF ProviderInv, StepTells, RowSound
<1>p. {"quote", "inspect", "check", "reserve", "charge", "record", "recheck", "commit",
       "reload", "retry", "discard", "settle"} \subseteq Pcs
      /\ {"none", "binding", "billing", "retryable", "permanent"} \subseteq Args
      /\ FinalizationGoals \subseteq Args
  BY Zenon DEF Pcs, Args, FinalizationGoals
<1>g. ASSUME NEW pc \in Pcs, NEW arg \in Args, Stopped(provider), Goto(w, pc, arg),
             UNCHANGED <<job, provider>>,
             pc \notin {"submitCall", "cancelCall", "answer", "cancel"}
      PROVE  ProviderInv'
  BY Zenon, <1>g, <1>w, QuietGotoTold
<1>1. CASE BeginFinalize(w)
  <2> DEFINE new == [job EXCEPT !.status = "finalizing", !.phase = "artifact_finalize"]
  <2>1. new \in Jobs
    BY ZenonT(60), <1>s DEF Jobs, Statuses, Phases
  <2>2. new.tried = job.tried /\ new.task = job.task /\ new.status = "finalizing"
    BY Zenon, <1>s DEF Jobs
  <2>3. Stopped(provider) /\ UNCHANGED <<provider, avail>>
    BY Zenon, <1>1, <1>t DEF BeginFinalize, FinalizationPcs
  <2>4. At("quote", "none", new) \in Locals
    BY Zenon, <1>p, <2>1, AtType
  <2>5. CASE Write(w, new, lease, At("quote", "none", new))
    <3> HIDE DEF new
    <3> QED
      BY ZenonT(60), <1>w, <1>p, <2>1, <2>2, <2>3, <2>4, <2>5, StoppedWrite, WriteTold
  <2>6. CASE Return(w) /\ UNCHANGED <<job, lease>>
    BY Zenon, <1>w, <2>3, <2>6, ReturnTold
  <2>7. QED
    BY Zenon, <1>1, <2>5, <2>6 DEF BeginFinalize
<1>2. CASE FreezeSettlementQuote(w)
  <2> DEFINE new == [job EXCEPT !.quote = Price(actor[w].snap.usage)]
  <2>1. new \in Jobs
    BY Zenon, <1>s DEF Jobs, Price
  <2>2. new.tried = job.tried /\ new.task = job.task /\ new.status = job.status
    BY Zenon, <1>s DEF Jobs
  <2>3. Stopped(provider) /\ UNCHANGED <<provider, avail>>
    BY Zenon, <1>2, <1>t DEF FreezeSettlementQuote, FinalizationPcs
  <2>4. At("inspect", "none", new) \in Locals /\ At("inspect", "none", job) \in Locals
    BY Zenon, <1>p, <1>s, <2>1, AtType
  <2>5. CASE Write(w, new, lease, At("inspect", "none", new))
    <3> HIDE DEF new
    <3> QED
      BY Zenon, <1>w, <1>p, <2>1, <2>2, <2>3, <2>4, <2>5, StoppedWrite, WriteTold
  <2>6. CASE /\ actor' = [actor EXCEPT ![w] = At("inspect", "none", job)]
             /\ UNCHANGED <<job, lease>>
    BY Zenon, <1>w, <1>s, <1>p, <2>3, <2>4, <2>6, StoppedWrite, RefreshTold
  <2>7. QED
    BY Zenon, <1>2, <2>5, <2>6 DEF FreezeSettlementQuote
<1>3. /\ Succeeded(job) \in Jobs /\ Succeeded(job).tried = job.tried
      /\ Succeeded(job).task = job.task /\ Succeeded(job).status = "succeeded"
  BY ZenonT(60), <1>s, SucceededRow DEF Succeeded, Jobs
<1>4. CASE InspectCommit(w)
  <2>1. Stopped(provider) /\ UNCHANGED <<provider, avail>>
    BY ZenonT(60), <1>4, <1>t DEF InspectCommit, FinalizationPcs
  <2>2. CASE MutateJob(w, Succeeded(job), NoLease, Idle)
    BY ZenonT(60), <1>w, <1>s, <1>3, <2>1, <2>2, StoppedWrite, IdleTells, MutateTold
  <2>3. CASE /\ Goto(w, "discard", CancelGoal(actor[w].snap)) \/ Goto(w, "check", "none")
             /\ UNCHANGED <<job, lease>>
    BY Zenon, <1>p, <1>g, <2>1, <2>3 DEF CancelGoal, FinalizationGoals
  <2>4. QED
    BY ZenonT(60), <1>4, <2>2, <2>3 DEF InspectCommit
<1>5. CASE CheckBinding(w) \/ RecheckBinding(w) \/ ChargeRejected(w) \/ StoreError(w)
  <2>1. /\ Stopped(provider) /\ UNCHANGED <<job, provider, avail>>
    BY Zenon, <1>5, <1>t DEF CheckBinding, RecheckBinding, ChargeRejected, StoreError, FinalizationPcs
  <2>2. PICK pc \in {"discard", "reserve", "recheck", "commit", "retry", "reload"},
             arg \in {"failAfterCharge", "failWithoutCharge", "failPermanent", "none",
                      "binding", "retryable"} : Goto(w, pc, arg)
    BY Zenon, <1>5 DEF CheckBinding, RecheckBinding, ChargeRejected, StoreError
  <2>3. pc \in Pcs /\ arg \in Args
    BY Zenon, <1>p, <2>2 DEF FinalizationGoals
  <2>4. QED
    BY Zenon, <1>g, <2>1, <2>2, <2>3
<1>6. CASE BeginCharge(w)
  <2> DEFINE new == [job EXCEPT !.phase = "billing_charge"]
  <2>1. new \in Jobs
    BY Zenon, <1>s DEF Jobs, Phases
  <2>2. new.tried = job.tried /\ new.task = job.task /\ new.status = job.status
    BY Zenon, <1>s DEF Jobs
  <2>3. /\ Stopped(provider) /\ UNCHANGED <<provider, avail>>
        /\ MutateJob(w, new, lease, At("charge", "none", new))
    BY Zenon, <1>6, <1>t DEF BeginCharge, FinalizationPcs
  <2>4. At("charge", "none", new) \in Locals
    BY Zenon, <1>p, <2>1, AtType
  <2> HIDE DEF new
  <2>5. QED
    BY Zenon, <1>w, <1>p, <2>1, <2>2, <2>3, <2>4, StoppedWrite, MutateTold
<1>7. CASE Charge(w) \/ ChargeLost(w)
  <2>1. /\ Stopped(provider) /\ UNCHANGED <<job, provider, avail>>
    BY ZenonT(60), <1>7, <1>t DEF Charge, ChargeLost, FinalizationPcs
  <2>2. PICK pc \in {"record", "retry"}, arg \in {"none", "billing"} : Goto(w, pc, arg)
    BY Zenon, <1>7 DEF Charge, ChargeLost
  <2>3. QED
    BY Zenon, <1>p, <1>g, <2>1, <2>2
<1>8. CASE RecordCharge(w)
  <2> DEFINE new == [job EXCEPT !.txn = TRUE]
  <2>1. new \in Jobs
    BY Zenon, <1>s DEF Jobs
  <2>2. new.tried = job.tried /\ new.task = job.task /\ new.status = job.status
    BY Zenon, <1>s DEF Jobs
  <2>3. Stopped(provider) /\ UNCHANGED <<provider, avail>>
    BY Zenon, <1>8, <1>t DEF RecordCharge, FinalizationPcs
  <2>4. At("recheck", "none", new) \in Locals /\ At("recheck", "none", job) \in Locals
    BY Zenon, <1>p, <1>s, <2>1, AtType
  <2>5. CASE Write(w, new, lease, At("recheck", "none", new))
    <3> HIDE DEF new
    <3> QED
      BY Zenon, <1>w, <1>p, <2>1, <2>2, <2>3, <2>4, <2>5, StoppedWrite, WriteTold
  <2>6. CASE /\ actor' = [actor EXCEPT ![w] = At("recheck", "none", job)]
             /\ UNCHANGED <<job, lease>>
    BY ZenonT(60), <1>w, <1>s, <1>p, <2>3, <2>4, <2>6, StoppedWrite, RefreshTold
  <2>7. QED
    BY Zenon, <1>8, <2>5, <2>6 DEF RecordCharge
<1>9. CASE Commit(w) \/ CommitJobTxLost(w)
  <2>1. Stopped(provider) /\ UNCHANGED provider
    BY Zenon, <1>9, <1>t DEF Commit, CommitJobTxLost, FinalizationPcs
  <2>2. ASSUME NEW arg \in {"retryable", "permanent"},
               Goto(w, "reload", arg) /\ UNCHANGED <<job, lease>>
        PROVE  ProviderInv'
    BY Zenon, <1>p, <1>g, <2>1, <2>2
  <2>3. CASE Write(w, Succeeded(job), NoLease, Idle)
    BY ZenonT(60), <1>w, <1>s, <1>3, <2>1, <2>3, StoppedWrite, IdleTells, WriteTold
  <2>4. QED
    BY Zenon, <1>9, <2>2, <2>3 DEF Commit, CommitJobTxLost
<1>10. CASE AfterCommitError(w)
  <2>1. Stopped(provider) /\ UNCHANGED <<job, provider, avail>>
    BY Zenon, <1>10, <1>t DEF AfterCommitError, FinalizationPcs
  <2>2. PICK pc \in {"discard", "retry"},
             arg \in {"failAfterCharge", "cancelBeforeCommit", "failPermanent", "binding"} :
          actor' = [actor EXCEPT ![w] = At(pc, arg, job)]
    BY ZenonT(60), <1>10 DEF AfterCommitError, CancelGoal
  <2>3. pc \in Pcs /\ arg \in Args
    BY Zenon, <1>p, <2>2 DEF FinalizationGoals
  <2>4. At(pc, arg, job) \in Locals
    BY Zenon, <1>s, <2>3, AtType
  <2>5. StepTells(At(pc, arg, job), job, provider)
    BY ZenonT(60), <1>s, <1>t, <2>1, <2>2, <2>3, AtTells
  <2>6. QED
    BY ZenonT(60), <1>w, <2>1, <2>2, <2>4, <2>5, RefreshTold
<1>11. CASE ScheduleRetry(w)
  <2> DEFINE new == [job EXCEPT !.status = "retry_wait", !.retry = NextRetry(job),
                                !.manual = FALSE]
  <2>1. Stopped(provider) /\ UNCHANGED <<provider, avail>>
    BY Zenon, <1>11, <1>t DEF ScheduleRetry, FinalizationPcs
  <2>2. new \in Jobs
    BY ZenonT(60), <1>s, NextRetryType DEF Jobs, Statuses
  <2>3. new.tried = job.tried /\ new.task = job.task /\ new.status = "retry_wait"
    BY Zenon, <1>s DEF Jobs
  <2>4. CASE MutateJob(w, new, NoLease, Idle)
    <3> HIDE DEF new
    <3> QED
      BY ZenonT(60), <1>w, <1>s, <2>1, <2>2, <2>3, <2>4, StoppedWrite, IdleTells, MutateTold
  <2>5. ASSUME NEW goal \in {"failAfterCharge", "failPermanent"},
               Goto(w, "discard", goal) /\ UNCHANGED <<job, lease>>
        PROVE  ProviderInv'
    BY Zenon, <1>p, <1>g, <2>1, <2>5 DEF FinalizationGoals
  <2>6. QED
    BY Zenon, <1>11, <2>4, <2>5 DEF ScheduleRetry
<1>12. CASE DiscardResult(w)
  <2>1. \A o \in Outputs : Usable(avail'[o]) => Usable(avail[o])
    BY Zenon, <1>12 DEF DiscardResult, Usable
  <2>2. /\ Goto(w, "settle", actor[w].arg) /\ UNCHANGED <<job, provider>>
        /\ actor[w].pc = "discard"
    BY Zenon, <1>12 DEF DiscardResult
  <2>3. QED
    BY SMTT(30), <1>w, <1>s, <1>t, <1>p, <2>1, <2>2, QuietGotoTold DEF StepTells, FinalizationPcs
<1>13. CASE FailWithoutCharge(w) \/ CancelBeforeCommit(w) \/ FailPermanent(w)
  BY Zenon, <1>13, SettleAsTold DEF FailWithoutCharge, CancelBeforeCommit, FailPermanent, FinalizationGoals
<1>14. CASE FailAfterCharge(w)
  <2> DEFINE new == [job EXCEPT !.status = IF job.cancel THEN "cancelled" ELSE "failed",
                                !.comp = "pending", !.manual = FALSE]
  <2>1. new \in Jobs
    BY ZenonT(60), <1>s DEF Jobs, Statuses, TerminalStatuses, CompensationStatuses
  <2>2. new.tried = job.tried /\ new.task = job.task /\ new.status # "queued"
    BY Zenon, <1>s DEF Jobs
  <2>3. Stopped(provider) /\ UNCHANGED <<provider, avail>> /\ MutateJob(w, new, NoLease, Idle)
    BY Zenon, <1>14, <1>t DEF FailAfterCharge, StepTells, FinalizationGoals
  <2> HIDE DEF new
  <2>4. QED
    BY ZenonT(60), <1>w, <1>s, <2>1, <2>2, <2>3, StoppedWrite, IdleTells, MutateTold
<1>15. QED
  BY Zenon, <1>1, <1>2, <1>4, <1>5, <1>6, <1>7, <1>8, <1>9, <1>10, <1>11, <1>12, <1>13, <1>14
     DEF Finalize, FinalizeFault

(* Every step of CompensationService: it never touches attempt or task. *)
LEMMA CompensatorTold ==
  ASSUME TypeOK, TypeOK', SettlementInv, ProviderInv, NEW c \in Compensators,
         CompensatorStep(c) \/ CompensatorFault(c)
  PROVE  ProviderInv'
<1>c. c \in Actors
  BY Zenon DEF Actors
<1>s. actor[c] \in Locals /\ actor[c].arg \in Args /\ job \in Jobs
  BY Zenon, <1>c DEF TypeOK, Locals
<1>u. UNCHANGED <<provider, avail>>
  BY Zenon DEF CompensatorStep, RunCompensation, ClaimCompensation, Refund, CompleteCompensation,
         FailCompensation, RetryCompensation, AckRow, CompensatorFault, RefundLost,
         RefundRejected
<1>p. {"ack", "claimRefund", "refund", "complete", "refundRetry", "refundFailed"} \subseteq Pcs
  BY Zenon DEF Pcs
<1>m. ASSUME NEW new \in Jobs, NEW newLease, NEW pc \in {"refund", "ack"},
             new.tried = job.tried, new.task = job.task, new.status = job.status,
             new.phase \in {job.phase, "compensation"},
             MutateJob(c, new, newLease, At(pc, actor[c].arg, new))
      PROVE  ProviderInv'
  <2>1. At(pc, actor[c].arg, new) \in Locals /\ pc \in Pcs
    BY Zenon, <1>m, <1>p, <1>s, AtType
  <2>2. RowSound(new, provider) /\ RowTells(new, provider)
    BY Zenon, <1>m DEF ProviderInv, RowSound, RowTells
  <2>3. StepTells(At(pc, actor[c].arg, new), new, provider)
    BY Zenon, <1>m, <1>s, <2>1, <2>2, AtTells DEF FinalizationPcs
  <2>4. QED
    BY ZenonT(60), <1>m, <1>c, <1>u, <2>1, <2>2, <2>3, MutateTold
<1>1. CASE RunCompensation(c)
  <2>1. PICK row \in outbox.pending, pc \in {"ack", "claimRefund"} :
          actor' = [actor EXCEPT ![c] = At(pc, row, job)]
    BY ZenonT(60), <1>1 DEF RunCompensation
  <2>2. row \in Args /\ pc \in Pcs
    BY Zenon, <1>p, <2>1 DEF Args, TypeOK
  <2>3. At(pc, row, job) \in Locals
    BY Zenon, <1>s, <2>2, AtType
  <2>4. StepTells(At(pc, row, job), job, provider)
    BY Zenon, <1>s, <2>1, <2>2, AtTells DEF FinalizationPcs, ProviderInv, RowSound
  <2>5. QED
    BY Zenon, <1>1, <1>c, <1>u, <2>1, <2>3, <2>4, RefreshTold DEF RunCompensation
<1>2. CASE ClaimCompensation(c)
  <2> DEFINE new == [job EXCEPT !.comp = "running", !.phase = "compensation"]
  <2>1. new \in Jobs
    BY Zenon, <1>s DEF Jobs, CompensationStatuses, Phases
  <2>2. /\ new.tried = job.tried /\ new.task = job.task /\ new.status = job.status
        /\ new.phase = "compensation"
    BY Zenon, <1>s DEF Jobs
  <2>3. QED
    BY Zenon, <1>2, <1>m, <2>1, <2>2 DEF ClaimCompensation
<1>3. CASE Refund(c) \/ RefundLost(c) \/ RefundRejected(c)
  <2>1. PICK pc \in {"complete", "refundRetry", "refundFailed"} : Goto(c, pc, actor[c].arg)
    BY Zenon, <1>3 DEF Refund, RefundLost, RefundRejected
  <2>2. UNCHANGED job
    BY Zenon, <1>3 DEF Refund, RefundLost, RefundRejected
  <2>3. QED
    BY ZenonT(60), <1>c, <1>s, <1>u, <1>p, <2>1, <2>2, QuietGotoTold DEF FinalizationPcs
<1>4. CASE CompleteCompensation(c)
  <2> DEFINE new == [job EXCEPT !.comp = "completed"]
  <2>1. new \in Jobs
    BY Zenon, <1>s DEF Jobs, CompensationStatuses
  <2>2. /\ new.tried = job.tried /\ new.task = job.task /\ new.status = job.status
        /\ new.phase = job.phase
    BY Zenon, <1>s DEF Jobs
  <2>3. QED
    BY Zenon, <1>4, <1>m, <2>1, <2>2 DEF CompleteCompensation
<1>5. CASE FailCompensation(c)
  <2> DEFINE new == [job EXCEPT !.comp = "pending", !.phase = "compensation",
                                !.manual = TRUE]
  <2>1. new \in Jobs
    BY Zenon, <1>s DEF Jobs, CompensationStatuses, Phases
  <2>2. /\ new.tried = job.tried /\ new.task = job.task /\ new.status = job.status
        /\ new.phase = "compensation"
    BY Zenon, <1>s DEF Jobs
  <2>3. QED
    BY Zenon, <1>5, <1>m, <2>1, <2>2 DEF FailCompensation
<1>6. CASE RetryCompensation(c)
  <2> DEFINE new == [job EXCEPT !.comp = "retry_wait", !.phase = "compensation",
                                !.retry = NextRetry(job), !.manual = FALSE]
  <2>1. new \in Jobs
    BY ZenonT(60), <1>s, NextRetryType DEF Jobs, CompensationStatuses, Phases
  <2>2. /\ new.tried = job.tried /\ new.task = job.task /\ new.status = job.status
        /\ new.phase = "compensation"
    BY Zenon, <1>s DEF Jobs
  <2>3. QED
    BY Zenon, <1>6, <1>m, <2>1, <2>2 DEF RetryCompensation
<1>7. CASE AckRow(c)
  BY Zenon, <1>7, <1>c, <1>u, ReturnTold DEF AckRow
<1>8. QED
  BY Zenon, <1>1, <1>2, <1>3, <1>4, <1>5, <1>6, <1>7 DEF CompensatorStep, CompensatorFault

(* A write by somebody who is not an actor: the user or the operator. *)
LEMMA StaleTold ==
  ASSUME TypeOK, ProviderInv, job' \in Jobs, EveryCopyStale, UNCHANGED <<provider, avail>>,
         job'.tried = job.tried, RowSound(job', provider)
  PROVE  ProviderInv'
<1>1. ASSUME NEW q \in Actors
      PROVE  StepTells(actor'[q], job', provider')
  <2>1. actor[q] \in Locals /\ actor'[q] = [actor[q] EXCEPT !.fresh = FALSE]
    BY Zenon DEF EveryCopyStale, TypeOK
  <2>2. /\ actor'[q] \in Locals /\ actor'[q].pc = actor[q].pc /\ actor'[q].arg = actor[q].arg
        /\ actor'[q].snap = actor[q].snap
    BY Zenon, <2>1 DEF Locals
  <2>3. QED
    BY ZenonT(60), <2>1, <2>2, TellsKept, ForwardSame DEF ProviderInv, TypeOK
<1>2. RowSound(job', provider')
  BY Zenon
<1>3. QED
  BY Zenon, <1>1, <1>2 DEF ProviderInv

(* The environment's steps. *)
LEMMA EnvironmentTold ==
  ASSUME TypeOK, TypeOK', ProviderInv,
         \/ Environment \/ LeaseExpires \/ LeaseLapses \/ DeadLetter
         \/ \E p \in Actors : Abandon(p)
  PROVE  ProviderInv'
<1>s. job \in Jobs /\ job' \in Jobs
  BY Zenon DEF TypeOK
<1>1. CASE CancelBatch
  <2>1. job'.tried = job.tried /\ job'.task = job.task /\ job'.phase = job.phase
    BY Zenon, <1>1, <1>s DEF CancelBatch, Jobs
  <2>2. /\ job'.status \in {job.status, "cancelled"}
        /\ job'.status # job.status => ~job.tried
    BY Zenon, <1>1, <1>s DEF CancelBatch, Jobs, ProviderInv, RowSound
  <2>3. RowSound(job', provider)
    BY Zenon, <2>1, <2>2 DEF ProviderInv, RowSound, RowTells
  <2>4. QED
    BY Zenon, <1>1, <1>s, <2>1, <2>3, StaleTold DEF CancelBatch
<1>2. CASE ManualFinalize
  <2>1. /\ job'.tried = job.tried /\ job'.task = job.task /\ job'.phase = job.phase
        /\ job'.status = job.status
    BY Zenon, <1>2, <1>s DEF ManualFinalize, Jobs
  <2>2. RowSound(job', provider)
    BY Zenon, <2>1 DEF ProviderInv, RowSound, RowTells
  <2>3. QED
    BY Zenon, <1>2, <1>s, <2>1, <2>2, StaleTold DEF ManualFinalize
<1>3. CASE EditStoryboard \/ LeaseExpires \/ LeaseLapses \/ DeadLetter
  BY Zenon, <1>3 DEF EditStoryboard, LeaseExpires, LeaseLapses, DeadLetter, ProviderInv
<1>4. CASE ProviderProgress
  <2>1. Forward(provider, provider') /\ Stopped(provider') /\ UNCHANGED <<job, actor, avail>>
    BY Zenon, <1>4 DEF ProviderProgress, Forward, Stopped
  <2>2. RowSound(job', provider') /\ (Async \/ provider' = "none")
    BY Zenon, <1>4, <2>1 DEF ProviderProgress, ProviderInv, RowSound, RowTells
  <2>3. \A q \in Actors : StepTells(actor'[q], job', provider')
    BY Zenon, <1>s, <2>1, TellsKept DEF ProviderInv, TypeOK
  <2>4. QED
    BY Zenon, <2>1, <2>2, <2>3 DEF ProviderInv
<1>5. ASSUME NEW p \in Actors, Abandon(p)
      PROVE  ProviderInv'
  BY Zenon, <1>5, ReturnTold DEF Abandon
<1>6. QED
  BY Zenon, <1>1, <1>2, <1>3, <1>4, <1>5 DEF Environment

(* Row, receipts and workers agree on the state of the provider's task, at any *)
(* moment and under every fault: the inductive invariant ProviderInv.          *)
THEOREM ProviderIsTracked == Spec => []ProviderInv
<1>1. Init => ProviderInv
  BY IdleTells DEF Init, ProviderInv, RowSound, RowTells, CreatedJob, Usable
<1>2. TypeOK /\ TypeOK' /\ SettlementInv /\ ProviderInv /\ [Next]_vars => ProviderInv'
  <2> SUFFICES ASSUME TypeOK, TypeOK', SettlementInv, ProviderInv, [Next]_vars
               PROVE  ProviderInv'
    BY Zenon
  <2>1. CASE UNCHANGED vars
    BY Zenon, <2>1 DEF vars, ProviderInv
  <2>2. CASE Next
    BY Zenon, <2>2, WorkerTold, FinalizeTold, CompensatorTold, EnvironmentTold DEF Next, Fault
  <2>3. QED
    BY Zenon, <2>1, <2>2
<1>3. QED
  BY <1>1, <1>2, Settlement, PTL DEF Spec

(* "cancelling locally at this point would orphan provider work and cost":      *)
(* however cancellation races submission, polling, crashes and lapsing leases,  *)
(* a cancelled job leaves no provider task running (NoOrphanedProviderWork).    *)
THEOREM NothingOrphaned == Spec => []NoOrphanedProviderWork
<1>1. ProviderInv => NoOrphanedProviderWork
  BY Zenon DEF ProviderInv, RowSound, Stopped, NoOrphanedProviderWork
<1>2. QED
  BY <1>1, ProviderIsTracked, PTL

-----------------------------------------------------------------------------
(* What a job promises to its batch: the fields the BatchBarrier reads change *)
(* as JobContract says.                                                       *)

(* The statuses the contract does not tell apart. *)
Active == {"running", "waiting_provider", "finalizing", "retry_wait"}

(* The compensation statuses the contract does not tell apart. *)
Open == {"pending", "running", "retry_wait"}

(* A step of the row from j to k that the contract allows. *)
Allowed(j, k) ==
  \/ ViewOf(k) = ViewOf(j)
  \/ /\ ~ViewOf(j).cancel /\ ViewOf(j).status \notin Contract!Ended
     /\ ViewOf(k) = Contract!CancelRequested(ViewOf(j))
  \/ ViewOf(k) \in Contract!Started(ViewOf(j)) \cup Contract!Charged(ViewOf(j))
                     \cup Contract!Finished(ViewOf(j))
  \/ ViewOf(k) \in Contract!Settled(ViewOf(j)) \cup Contract!EndedAgain(ViewOf(j))

(* The view of a row, field by field. *)
ViewStatus(s) == IF s \in {"queued"} \cup TerminalStatuses THEN s ELSE "active"

ViewComp(c) == CASE c = "not_required" -> "none"
                 [] c \in {"pending", "running", "retry_wait"} -> "open"
                 [] c \in {"completed", "manual_final"} -> "settled"

(* The fields of the view of a row *)
LEMMA ViewParts ==
  ASSUME NEW j
  PROVE  ViewOf(j) = [status |-> ViewStatus(j.status), cancel |-> j.cancel, txn |-> j.txn,
                      comp |-> ViewComp(j.comp)]
BY Zenon DEF ViewOf, ViewStatus, ViewComp

(* What the classes are. *)
LEMMA ViewClasses ==
  /\ \A s \in Active : ViewStatus(s) = "active"
  /\ \A s \in {"queued"} \cup TerminalStatuses : ViewStatus(s) = s
  /\ ViewComp("not_required") = "none"
  /\ \A c \in Open : ViewComp(c) = "open"
  /\ \A c \in {"completed", "manual_final"} : ViewComp(c) = "settled"
BY Zenon DEF Active, Open, ViewStatus, ViewComp, TerminalStatuses

(* A view is a view of the contract, and is given by its four fields. *)
LEMMA ViewType ==
  ASSUME NEW j \in Jobs
  PROVE  /\ ViewOf(j) \in Contract!Views
         /\ ViewOf(j).status = ViewStatus(j.status) /\ ViewOf(j).cancel = j.cancel
         /\ ViewOf(j).txn = j.txn /\ ViewOf(j).comp = ViewComp(j.comp)
<1>1. /\ ViewStatus(j.status) \in {"queued", "active"} \cup Contract!Ended
      /\ ViewComp(j.comp) \in {"none", "open", "settled"}
      /\ j.cancel \in BOOLEAN /\ j.txn \in BOOLEAN
  <2>1. j.status \in Active \cup {"queued"} \cup TerminalStatuses
        /\ j.comp \in {"not_required"} \cup Open \cup {"completed", "manual_final"}
        /\ j.cancel \in BOOLEAN /\ j.txn \in BOOLEAN
    BY Zenon DEF Jobs, Statuses, CompensationStatuses, Active, Open
  <2>2. QED
    BY Zenon, <2>1, ViewClasses DEF TerminalStatuses, Contract!Ended
<1>2. QED
  BY Zenon, <1>1, ViewParts DEF Contract!Views

(* Rows with the same fields have the same view. *)
LEMMA SameView ==
  ASSUME NEW u \in Contract!Views, NEW v \in Contract!Views,
         u.status = v.status, u.cancel = v.cancel, u.txn = v.txn, u.comp = v.comp
  PROVE  u = v
BY DEF Contract!Views

(* What a request to cancel does to a view. *)
LEMMA CancelRequestedParts ==
  ASSUME NEW v \in Contract!Views
  PROVE  /\ Contract!CancelRequested(v) \in Contract!Views
         /\ Contract!CancelRequested(v).cancel = TRUE
         /\ Contract!CancelRequested(v).status
              = IF v.status = "queued" THEN "cancelled" ELSE v.status
         /\ Contract!CancelRequested(v).txn = v.txn
         /\ Contract!CancelRequested(v).comp = v.comp
<1>1. Contract!CancelRequested(v) \in Contract!Views
  BY Zenon DEF Contract!CancelRequested, Contract!Views, Contract!Ended
<1>2. Contract!CancelRequested(v).cancel = TRUE
  BY Zenon DEF Contract!CancelRequested, Contract!Views, Contract!Ended
<1>3. Contract!CancelRequested(v).status = IF v.status = "queued" THEN "cancelled" ELSE v.status
  BY Zenon DEF Contract!CancelRequested, Contract!Views, Contract!Ended
<1>4. /\ Contract!CancelRequested(v).txn = v.txn
      /\ Contract!CancelRequested(v).comp = v.comp
  BY Zenon DEF Contract!CancelRequested, Contract!Views, Contract!Ended
<1>5. QED
  BY Zenon, <1>1, <1>2, <1>3, <1>4

(* The two ways of ending without delivery. *)
LEMMA FinishedHas ==
  ASSUME NEW v, v.status = "active", NEW s \in {"failed", "cancelled"}, NEW d \in {"none", "open"}
  PROVE  [v EXCEPT !.status = s, !.comp = d] \in Contract!Finished(v)
BY Zenon DEF Contract!Finished

(* A write within a class of statuses and compensation statuses is not seen. *)
LEMMA QuietRow ==
  ASSUME NEW j \in Jobs, NEW k \in Jobs,
         k.status = j.status \/ (j.status \in Active /\ k.status \in Active),
         k.cancel = j.cancel, k.txn = j.txn,
         k.comp = j.comp \/ (j.comp \in Open /\ k.comp \in Open)
  PROVE  Allowed(j, k)
<1>1. ViewStatus(k.status) = ViewStatus(j.status) /\ ViewComp(k.comp) = ViewComp(j.comp)
  BY Zenon, ViewClasses
<1>2. QED
  BY Zenon, <1>1, ViewParts DEF Allowed

(* A queued job is claimed. *)
LEMMA StartedRow ==
  ASSUME NEW j \in Jobs, NEW k \in Jobs, j.status = "queued", k.status \in Active,
         k.cancel = j.cancel, k.txn = j.txn, k.comp = j.comp
  PROVE  Allowed(j, k)
<1>1. ViewOf(k) = [ViewOf(j) EXCEPT !.status = "active"] /\ ViewOf(j).status = "queued"
  BY ViewParts, ViewClasses
<1>2. QED
  BY Zenon, <1>1 DEF Allowed, Contract!Started

(* A charge is recorded. *)
LEMMA ChargedRow ==
  ASSUME NEW j \in Jobs, NEW k \in Jobs, k.status = j.status, k.cancel = j.cancel,
         k.txn, k.comp = j.comp,
         j.status \in Active \/ (LateWrites /\ j.status \in TerminalStatuses)
  PROVE  Allowed(j, k)
<1>1. /\ ViewOf(k) = [ViewOf(j) EXCEPT !.txn = TRUE]
      /\ ViewOf(j).status = "active" \/ (LateWrites /\ ViewOf(j).status \in Contract!Ended)
  <2>1. k.txn = TRUE
    BY Zenon DEF Jobs
  <2>2. QED
    BY <2>1, ViewParts, ViewClasses DEF TerminalStatuses, Contract!Ended
<1>2. QED
  BY Zenon, <1>1 DEF Allowed, Contract!Charged

(* The job ends, or is ended once more by a late worker. *)
LEMMA FailedRow ==
  ASSUME NEW j \in Jobs, NEW k \in Jobs, k.status \in {"failed", "cancelled"},
         k.cancel = j.cancel, k.txn = j.txn, k.comp \in {"not_required", "pending"},
         j.status \in Active \/ (LateWrites /\ j.status = k.status)
  PROVE  Allowed(j, k)
<1> DEFINE c == IF k.comp = "pending" THEN "open" ELSE "none"
<1>1. c \in {"none", "open"}
  BY Zenon
<1>2. CASE j.status \in Active
  <2>1. /\ ViewOf(k) = [ViewOf(j) EXCEPT !.status = k.status, !.comp = c]
        /\ ViewOf(j).status = "active"
    <3>1. ViewStatus(k.status) = k.status /\ ViewComp(k.comp) = c
          /\ ViewStatus(j.status) = "active"
      BY Zenon, <1>2, ViewClasses DEF TerminalStatuses, Open
    <3> HIDE DEF c
    <3> DEFINE u == [ViewOf(j) EXCEPT !.status = k.status, !.comp = c]
    <3>2. /\ u \in Contract!Views /\ u.status = k.status /\ u.comp = c
          /\ u.cancel = ViewOf(j).cancel /\ u.txn = ViewOf(j).txn
      BY Zenon, <1>1, ViewType DEF Contract!Views, Contract!Ended
    <3> HIDE DEF u
    <3>3. ViewOf(k) = u
      BY <3>1, <3>2, ViewType, SameView
    <3>4. QED
      BY Zenon, <3>1, <3>3, ViewType DEF u
  <2> HIDE DEF c
  <2>3. ViewOf(k) \in Contract!Finished(ViewOf(j))
    <3>1. [ViewOf(j) EXCEPT !.status = k.status, !.comp = c] \in Contract!Finished(ViewOf(j))
      BY Zenon, <1>1, <2>1, FinishedHas, Zenon
    <3>2. QED
      BY Zenon, <2>1, <3>1, Zenon
  <2>4. QED
    BY Zenon, <2>3 DEF Allowed
<1>3. CASE LateWrites /\ j.status = k.status
  <2>1. /\ ViewOf(k) = [ViewOf(j) EXCEPT !.comp = c]
        /\ ViewOf(j).status \in {"failed", "cancelled"}
    BY <1>3, ViewParts, ViewClasses DEF TerminalStatuses, Open
  <2>2. QED
    BY Zenon, <1>1, <1>3, <2>1 DEF Allowed, Contract!EndedAgain
<1>4. QED
  BY Zenon, <1>2, <1>3

(* The job is delivered. *)
LEMMA SucceededIsAllowed ==
  ASSUME NEW j \in Jobs, NEW k \in Jobs, k.status = "succeeded",
         k.cancel = j.cancel, k.txn = j.txn, k.comp = "not_required",
         j.status \in Active \cup {"succeeded"}, j.comp = "not_required"
  PROVE  Allowed(j, k)
<1>1. CASE j.status \in Active
  <2>1. /\ ViewOf(k) = [ViewOf(j) EXCEPT !.status = "succeeded"]
        /\ ViewOf(j).status = "active"
    BY <1>1, ViewParts, ViewClasses DEF TerminalStatuses
  <2>2. QED
    BY Zenon, <2>1 DEF Allowed, Contract!Finished
<1>2. CASE j.status = "succeeded"
  BY Zenon, <1>2, QuietRow
<1>3. QED
  BY Zenon, <1>1, <1>2

(* A compensation is settled. *)
LEMMA SettledRow ==
  ASSUME NEW j \in Jobs, NEW k \in Jobs, k.status = j.status, k.cancel = j.cancel,
         j.txn, k.txn, j.comp \in Open, k.comp \in {"completed", "manual_final"}
  PROVE  Allowed(j, k)
<1>1. /\ ViewOf(k) = [ViewOf(j) EXCEPT !.comp = "settled"]
      /\ ViewOf(j).comp = "open" /\ ViewOf(j).txn
  <2>1. k.txn = j.txn
    BY Zenon DEF Jobs
  <2>2. ViewComp(k.comp) = "settled" /\ ViewComp(j.comp) = "open"
    BY Zenon, ViewClasses
  <2> DEFINE u == [ViewOf(j) EXCEPT !.comp = "settled"]
  <2>3. /\ u \in Contract!Views /\ u.status = ViewOf(j).status /\ u.comp = "settled"
        /\ u.cancel = ViewOf(j).cancel /\ u.txn = ViewOf(j).txn
    BY ViewType DEF Contract!Views
  <2> HIDE DEF u
  <2>4. /\ ViewOf(k) \in Contract!Views /\ ViewOf(k).status = u.status
        /\ ViewOf(k).comp = u.comp
    BY Zenon, <2>2, <2>3, ViewType
  <2>5. ViewOf(k).cancel = u.cancel /\ ViewOf(k).txn = u.txn
    BY Zenon, <2>1, <2>3, ViewType, Zenon
  <2>6. ViewOf(k) = u
    BY Zenon, <2>3, <2>4, <2>5, SameView, Zenon
  <2>7. ViewOf(j).comp = "open" /\ ViewOf(j).txn
    BY Zenon, <2>2, ViewType, Zenon
  <2>8. QED
    BY Zenon, <2>6, <2>7 DEF u
<1>2. QED
  BY Zenon, <1>1 DEF Allowed, Contract!Settled

(* The user cancels. *)
LEMMA CancelledRow ==
  ASSUME NEW j \in Jobs, NEW k \in Jobs, ~j.cancel, k.cancel,
         j.status \notin TerminalStatuses,
         k.status = IF j.status = "queued" THEN "cancelled" ELSE j.status,
         k.txn = j.txn, k.comp = j.comp
  PROVE  Allowed(j, k)
<1>1. /\ ViewOf(k) = Contract!CancelRequested(ViewOf(j))
      /\ ~ViewOf(j).cancel /\ ViewOf(j).status \notin Contract!Ended
  <2>1. k.cancel = TRUE /\ (j.status = "queued" \/ j.status \in Active)
    BY Zenon DEF Jobs, Statuses, Active
  <2>2. ViewStatus(k.status) = IF ViewStatus(j.status) = "queued" THEN "cancelled"
                               ELSE ViewStatus(j.status)
    BY Zenon, <2>1, ViewClasses DEF TerminalStatuses
  <2>3. ViewOf(j).status = ViewStatus(j.status) /\ ViewStatus(j.status) \in {"queued", "active"}
    BY Zenon, <2>1, ViewParts, ViewClasses
  <2> DEFINE u == Contract!CancelRequested(ViewOf(j))
  <2>4. u \in Contract!Views /\ u.txn = ViewOf(j).txn /\ u.comp = ViewOf(j).comp
    BY Zenon, ViewType, CancelRequestedParts, Zenon
  <2>5. /\ u.cancel = TRUE
        /\ u.status = IF ViewStatus(j.status) = "queued" THEN "cancelled" ELSE ViewStatus(j.status)
    BY ZenonT(60), <2>3, ViewType, CancelRequestedParts, Zenon
  <2> HIDE DEF u
  <2>6. ViewOf(k).status = u.status /\ ViewOf(k).comp = u.comp
    BY Zenon, <2>2, <2>4, <2>5, ViewType
  <2>7. ViewOf(k).cancel = u.cancel /\ ViewOf(k).txn = u.txn /\ ~ViewOf(j).cancel
    BY Zenon, <2>1, <2>4, <2>5, ViewType, Zenon
  <2>8. ViewOf(k) \in Contract!Views
    BY Zenon, ViewType
  <2>9. ViewOf(k) = u
    BY ZenonT(60), <2>4, <2>6, <2>7, <2>8, SameView, Zenon
  <2>10. ViewOf(j).status \notin Contract!Ended
    BY Zenon, <2>3 DEF Contract!Ended
  <2>11. QED
    BY Zenon, <2>7, <2>9, <2>10 DEF u
<1>2. QED
  BY Zenon, <1>1 DEF Allowed

(* The steps the contract allows are the steps of AbstractJob. *)
LEMMA AllowedStep ==
  ASSUME Allowed(job, job')
  PROVE  [Contract!Next]_(ViewOf(job))
BY Zenon DEF Allowed, Contract!Next, Contract!RequestCancel, Contract!Work, Contract!Compensate
-----------------------------------------------------------------------------
(* The program points a worker reaches only by a write that makes it the owner  *)
(* of the lease, and leaves by giving the lease back.                           *)
ClaimedPcs == {"submitCall", "pollCall", "answer", "providerError", "cancelCall", "cancelRetry"}
                \cup (FinalizationPcs \ {"claim"})

ClaimedAt(pc, arg) ==
  \/ pc \in ClaimedPcs
  \/ pc = "recover" /\ arg # "process"
  \/ pc \in {"discard", "settle"} /\ arg \in FinalizationGoals

Claimed(w) == ClaimedAt(actor[w].pc, actor[w].arg)

(* What the lease is for: a worker that has claimed the job is the only one     *)
(* that can write the row, and no worker's copy of an ended job is fresh.       *)
LeaseInv ==
  /\ \A w \in Workers : Claimed(w) => /\ lease = LeaseOf(w)
                                      /\ job.status \in {"running", "finalizing"}
                                      /\ \A q \in Workers \ {w} : ~actor[q].fresh
  /\ \A w \in Workers : actor[w].fresh => job.status \notin TerminalStatuses

(* A dispatcher refunds only what it found, or made, open. *)
RefundJustified(a) ==
  /\ a.pc = "claimRefund" => a.snap.comp \in Open
  /\ a.pc \in {"refund", "complete", "refundRetry", "refundFailed"} => a.snap.comp = "running"

(* What the steps of the contract rest on: a queued row is the created one and  *)
(* nobody does more than submit it; only a recorded charge waits for the        *)
(* operator.                                                                    *)
ContractInv ==
  /\ job.status = "queued" => job = CreatedJob /\ \A w \in Workers : actor[w].pc \in {"idle", "submit"}
  /\ job.comp = "pending" /\ job.manual => job.txn
  /\ \A c \in Compensators : RefundJustified(actor[c])

(* What is shown of every step: it keeps both invariants and the contract.  The *)
(* contract without late writes holds because of the lease.                     *)
Kept ==
  /\ ContractInv'
  /\ LeaseInv => LeaseInv'
  /\ LateWrites \/ LeaseInv => Allowed(job, job')

(* A row that is not written is allowed. *)
LEMMA SameRow ==
  ASSUME UNCHANGED job
  PROVE  Allowed(job, job')
BY Zenon DEF Allowed

(* There is one lease. *)
LEMMA OneOwner ==
  ASSUME NEW v, NEW w, LeaseOf(v) = LeaseOf(w)
  PROVE  v = w
BY Zenon DEF LeaseOf

(* The row and the others' copies stay: worker w alone moves. *)
LEMMA MoveKept ==
  ASSUME TypeOK, TypeOK', ContractInv, NEW w \in Workers, UNCHANGED <<job, lease>>,
         \A q \in Actors \ {w} : actor'[q] = actor[q],
         job.status = "queued" => actor'[w].pc \in {"idle", "submit"},
         ClaimedAt(actor'[w].pc, actor'[w].arg) => Claimed(w),
         \/ actor'[w].fresh => actor[w].fresh
         \/ Runnable
         \/ Claimed(w)
  PROVE  Kept
<1>1. ContractInv'
  <2>1. \A c \in Compensators : actor'[c] = actor[c]
    BY Zenon, StoreAssumption DEF Actors
  <2>2. \A q \in Workers \ {w} : actor'[q] = actor[q]
    BY Zenon DEF Actors
  <2>3. QED
    BY Zenon, <2>1, <2>2 DEF ContractInv
<1>2. ASSUME LeaseInv
      PROVE  LeaseInv'
  <2>1. ASSUME NEW v \in Workers, Claimed(v)'
        PROVE  /\ lease' = LeaseOf(v) /\ job'.status \in {"running", "finalizing"}
               /\ \A q \in Workers \ {v} : ~actor'[q].fresh
    <3>1. Claimed(v)
      BY Zenon, <2>1 DEF Claimed, Actors
    <3>2. lease = LeaseOf(v) /\ job.status \in {"running", "finalizing"}
          /\ \A q \in Workers \ {v} : ~actor[q].fresh
      BY Zenon, <1>2, <3>1 DEF LeaseInv
    <3>3. ~Runnable
      BY Zenon, <3>2 DEF Runnable, LeaseOf
    <3>4. w # v => ~Claimed(w)
      BY Zenon, <1>2, <3>2, OneOwner DEF LeaseInv
    <3>5. \A q \in Workers \ {v} : ~actor'[q].fresh
      BY Zenon, <3>2, <3>3, <3>4 DEF Actors
    <3>6. QED
      BY Zenon, <3>2, <3>5
  <2>2. ASSUME NEW v \in Workers, actor'[v].fresh
        PROVE  job'.status \notin TerminalStatuses
    <3>1. CASE actor[v].fresh
      BY Zenon, <1>2, <3>1 DEF LeaseInv
    <3>2. CASE ~actor[v].fresh
      <4>1. v = w /\ (Runnable \/ Claimed(w))
        BY Zenon, <2>2, <3>2 DEF Actors
      <4>2. QED
        BY Zenon, <1>2, <4>1 DEF LeaseInv, Runnable, IsTerminalJobStatus, TerminalStatuses
    <3>3. QED
      BY Zenon, <3>1, <3>2
  <2>3. QED
    BY Zenon, <2>1, <2>2 DEF LeaseInv
<1>3. QED
  BY Zenon, <1>1, <1>2, SameRow DEF Kept

(* A worker moves its program counter. *)
LEMMA GotoKept ==
  ASSUME TypeOK, TypeOK', ContractInv, NEW w \in Workers, NEW pc \in Pcs, NEW arg \in Args,
         Goto(w, pc, arg), UNCHANGED <<job, lease>>,
         actor[w].pc \notin {"idle", "submit"}, ClaimedAt(pc, arg) => Claimed(w)
  PROVE  Kept
<1>1. w \in Actors /\ actor[w] \in Locals
  BY Zenon DEF TypeOK, Actors
<1>2. /\ actor'[w].pc = pc /\ actor'[w].arg = arg /\ actor'[w].fresh = actor[w].fresh
      /\ \A q \in Actors \ {w} : actor'[q] = actor[q]
  BY <1>1 DEF Goto, TypeOK, Locals
<1>3. job.status # "queued"
  BY Zenon DEF ContractInv
<1>4. actor'[w].fresh => actor[w].fresh
  BY ZenonT(60), <1>2, Zenon
<1>5. QED
  BY Zenon, <1>2, <1>3, <1>4, MoveKept

(* A worker returns. *)
LEMMA ReturnKept ==
  ASSUME TypeOK, TypeOK', ContractInv, NEW w \in Workers, Return(w), UNCHANGED <<job, lease>>
  PROVE  Kept
<1>1. /\ actor'[w].pc = "idle" /\ actor'[w].arg = "none" /\ ~actor'[w].fresh
      /\ \A q \in Actors \ {w} : actor'[q] = actor[q]
  BY Zenon DEF Return, TypeOK, Actors, Idle
<1>2. ~ClaimedAt("idle", "none")
  BY Zenon DEF ClaimedAt, ClaimedPcs, FinalizationPcs
<1>3. QED
  BY Zenon, <1>1, <1>2, MoveKept

(* A worker takes a new copy of the row: of a job it may run, or has claimed. *)
LEMMA RefreshKept ==
  ASSUME TypeOK, TypeOK', ContractInv, NEW w \in Workers, NEW pc, NEW arg,
         actor' = [actor EXCEPT ![w] = At(pc, arg, job)], UNCHANGED <<job, lease>>,
         job.status = "queued" => pc = "submit", ClaimedAt(pc, arg) => Claimed(w),
         Runnable \/ Claimed(w)
  PROVE  Kept
<1>1. /\ actor'[w].pc = pc /\ actor'[w].arg = arg
      /\ \A q \in Actors \ {w} : actor'[q] = actor[q]
  BY Zenon DEF TypeOK, Actors, At
<1>2. QED
  BY Zenon, <1>1, MoveKept

(* A worker writes the row. *)
LEMMA WriteKept ==
  ASSUME TypeOK, TypeOK', ContractInv, NEW w \in Workers, NEW new \in Jobs, NEW newLease,
         NEW next \in Locals, Write(w, new, newLease, next), actor[w].fresh \/ Claimed(w),
         new.status # "queued", new.comp = "pending" /\ new.manual => new.txn,
         ClaimedAt(next.pc, next.arg) /\ LeaseInv
           => newLease = LeaseOf(w) /\ new.status \in {"running", "finalizing"},
         next.fresh /\ LeaseInv => new.status \notin TerminalStatuses,
         LateWrites \/ LeaseInv => Allowed(job, new)
  PROVE  Kept
<1>w. w \in Actors
  BY Zenon DEF Actors
<1>1. /\ job' = new /\ lease' = newLease /\ actor'[w] = next
      /\ \A q \in Actors \ {w} : actor'[q] = [actor[q] EXCEPT !.fresh = FALSE]
  BY Zenon, <1>w DEF Write
<1>2. \A q \in Actors \ {w} : /\ actor'[q].pc = actor[q].pc /\ actor'[q].arg = actor[q].arg
                              /\ actor'[q].snap = actor[q].snap /\ ~actor'[q].fresh
  BY <1>1 DEF TypeOK, Locals
<1>3. ContractInv'
  <2>1. \A c \in Compensators : c \in Actors \ {w}
    BY Zenon, StoreAssumption DEF Actors
  <2>2. \A c \in Compensators : RefundJustified(actor[c])'
    BY ZenonT(60), <1>2, <2>1 DEF ContractInv, RefundJustified
  <2>3. QED
    BY Zenon, <1>1, <2>2 DEF ContractInv
<1>4. ASSUME LeaseInv
      PROVE  LeaseInv'
  <2>1. ASSUME NEW v \in Workers \ {w}
        PROVE  ~Claimed(v)
    BY Zenon, <1>4, OneOwner DEF LeaseInv
  <2>2. ASSUME NEW v \in Workers \ {w}
        PROVE  ~Claimed(v)' /\ ~actor'[v].fresh
    BY Zenon, <1>2, <2>1 DEF Claimed, Actors
  <2>3. Claimed(w)' => lease' = LeaseOf(w) /\ job'.status \in {"running", "finalizing"}
    BY Zenon, <1>1, <1>4 DEF Claimed
  <2>4. actor'[w].fresh => job'.status \notin TerminalStatuses
    BY Zenon, <1>1, <1>4
  <2>5. QED
    BY ZenonT(60), <2>2, <2>3, <2>4 DEF LeaseInv
<1>5. QED
  BY Zenon, <1>1, <1>3, <1>4 DEF Kept

(* A worker tries to write the row. *)
LEMMA MutateKept ==
  ASSUME TypeOK, TypeOK', ContractInv, NEW w \in Workers, NEW new \in Jobs, NEW newLease,
         NEW next \in Locals, MutateJob(w, new, newLease, next),
         new.status # "queued", new.comp = "pending" /\ new.manual => new.txn,
         ClaimedAt(next.pc, next.arg) /\ LeaseInv
           => newLease = LeaseOf(w) /\ new.status \in {"running", "finalizing"},
         next.fresh /\ LeaseInv => new.status \notin TerminalStatuses,
         CanWrite(w, new) /\ (LateWrites \/ LeaseInv) => Allowed(job, new)
  PROVE  Kept
<1>1. CASE CanWrite(w, new)
  <2>1. Write(w, new, newLease, next) /\ actor[w].fresh
    BY Zenon, <1>1 DEF MutateJob, CanWrite
  <2>2. QED
    BY Zenon, <1>1, <2>1, WriteKept
<1>2. CASE ~CanWrite(w, new)
  BY Zenon, <1>2, ReturnKept DEF MutateJob
<1>3. QED
  BY Zenon, <1>1, <1>2

(* The status a worker may write from: not a terminal one, unless it stays. *)
LEMMA WritesFrom ==
  ASSUME TypeOK, NEW w, NEW new, CanWrite(w, new)
  PROVE  job.status \in {"queued", new.status} \cup Active
<1>1. job.status \in {"queued"} \cup Active \cup TerminalStatuses
  BY Zenon DEF TypeOK, Jobs, Statuses, Active
<1>2. QED
  BY Zenon, <1>1, TerminalStuck DEF CanWrite

(* The common case: a write of a status in progress that leaves cancel flag,   *)
(* charge and compensation alone.                                              *)
LEMMA ProgressKept ==
  ASSUME TypeOK, TypeOK', ContractInv, NEW w \in Workers, NEW new \in Jobs, NEW newLease,
         NEW next \in Locals, MutateJob(w, new, newLease, next),
         new.status \in Active, new.cancel = job.cancel, new.txn = job.txn,
         new.comp = job.comp, new.manual => job.manual,
         ClaimedAt(next.pc, next.arg) /\ LeaseInv
           => newLease = LeaseOf(w) /\ new.status \in {"running", "finalizing"}
  PROVE  Kept
<1>1. ASSUME CanWrite(w, new)
      PROVE  Allowed(job, new)
  <2>1. job.status \in {"queued"} \cup Active /\ job \in Jobs
    BY Zenon, <1>1, WritesFrom DEF TypeOK
  <2>2. QED
    BY Zenon, <2>1, StartedRow, QuietRow
<1>2. new.status # "queued" /\ new.status \notin TerminalStatuses
  BY Zenon DEF Active, TerminalStatuses
<1>3. new.comp = "pending" /\ new.manual => new.txn
  BY Zenon DEF ContractInv
<1>4. QED
  BY Zenon, <1>1, <1>2, <1>3, MutateKept

(* A worker ends the job without delivering it. *)
LEMMA EndedKept ==
  ASSUME TypeOK, TypeOK', ContractInv, NEW w \in Workers, NEW new \in Jobs,
         MutateJob(w, new, NoLease, Idle), actor[w].pc = "settle",
         new.status \in {"failed", "cancelled"}, new.cancel = job.cancel, new.txn = job.txn,
         new.comp \in {"not_required", "pending"}, ~new.manual
  PROVE  Kept
<1>1. ASSUME CanWrite(w, new), LateWrites \/ LeaseInv
      PROVE  Allowed(job, new)
  <2>1. job.status # "queued"
    BY Zenon DEF ContractInv
  <2>2. job.status \in Active \/ job.status = new.status
    BY Zenon, <1>1, <2>1, WritesFrom
  <2>3. LeaseInv => job.status \notin TerminalStatuses
    BY Zenon, <1>1 DEF LeaseInv, CanWrite
  <2>4. job.status \in Active \/ (LateWrites /\ job.status = new.status)
    BY Zenon, <1>1, <2>2, <2>3 DEF TerminalStatuses
  <2>5. job \in Jobs
    BY Zenon DEF TypeOK
  <2>6. QED
    BY Zenon, <2>4, <2>5, FailedRow
<1>2. Idle \in Locals /\ ~Idle.fresh /\ ~ClaimedAt(Idle.pc, Idle.arg)
  BY Zenon, StoreTypes DEF Idle, ClaimedAt, ClaimedPcs, FinalizationPcs
<1>3. QED
  BY ZenonT(60), <1>1, <1>2, MutateKept

(* Settling keeps the contract. *)
LEMMA SettleAsKept ==
  ASSUME TypeOK, TypeOK', ContractInv, NEW w \in Workers, NEW goal,
         NEW status \in {"failed", "cancelled"}, SettleAs(w, goal, status)
  PROVE  Kept
<1> DEFINE new == [job EXCEPT !.status = status, !.comp = "not_required", !.manual = FALSE]
<1>s. job \in Jobs
  BY DEF TypeOK
<1>1. new \in Jobs
  BY ZenonT(60), <1>s DEF Jobs, Statuses, TerminalStatuses, CompensationStatuses
<1>2. /\ new.status = status /\ new.cancel = job.cancel /\ new.txn = job.txn
      /\ new.comp = "not_required" /\ ~new.manual
  BY Zenon, <1>s DEF Jobs
<1>3. actor[w].pc = "settle" /\ MutateJob(w, new, NoLease, Idle)
  BY Zenon DEF SettleAs
<1> HIDE DEF new
<1>4. QED
  BY Zenon, <1>1, <1>2, <1>3, EndedKept

(* Every step of LifecycleWorker, and a lost cancel call. *)
LEMMA WorkerKept ==
  ASSUME TypeOK, TypeOK', ContractInv, NEW w \in Workers,
         WorkerStep(w) \/ CancelLost(w)
  PROVE  Kept
<1>s. /\ w \in Actors /\ actor[w] \in Locals /\ actor[w].snap \in Jobs /\ actor[w].arg \in Args
      /\ job \in Jobs /\ Idle \in Locals
  BY Zenon, StoreTypes DEF Actors, TypeOK, Locals
<1>p. {"claim", "submit", "cancel", "poll", "recover", "providerError", "finalize",
       "submitCall", "pollCall", "cancelCall", "discard", "answer", "cancelRetry"} \subseteq Pcs
      /\ {"none", "process", "failProvider", "cancelJob", "accepted", "completed",
          "retryable", "permanent", "failed", "cancelled"} \subseteq Args
  BY Zenon DEF Pcs, Args
<1>u. /\ \A arg : /\ ~ClaimedAt("claim", arg) /\ ~ClaimedAt("submit", arg)
                  /\ ~ClaimedAt("cancel", arg) /\ ~ClaimedAt("poll", arg)
                  /\ ClaimedAt("providerError", arg)
      /\ ~ClaimedAt(Idle.pc, Idle.arg) /\ ~ClaimedAt("recover", "process")
      /\ ~ClaimedAt("discard", "failProvider") /\ ~ClaimedAt("discard", "cancelJob")
  BY Zenon DEF ClaimedAt, ClaimedPcs, FinalizationPcs, FinalizationGoals, Idle
<1>g. ASSUME NEW pc \in Pcs, NEW arg \in Args, Goto(w, pc, arg), UNCHANGED <<job, lease>>,
             actor[w].pc \notin {"idle", "submit"},
             ClaimedAt(pc, arg) => Claimed(w)
      PROVE  Kept
  BY ZenonT(60), <1>g, GotoKept
<1>a. ASSUME NEW pc \in Pcs, NEW new \in Jobs, new.status \in {"running", "finalizing"},
             new.cancel = job.cancel, new.txn = job.txn, new.comp = job.comp,
             new.manual = job.manual, MutateJob(w, new, LeaseOf(w), At(pc, "none", new))
      PROVE  Kept
  <2>1. At(pc, "none", new) \in Locals
    BY Zenon, <1>a, <1>p, AtType
  <2>2. new.manual => job.manual
    BY Zenon, <1>a
  <2>3. new.status \in Active
    BY Zenon, <1>a DEF Active
  <2>4. QED
    BY ZenonT(60), <1>a, <2>1, <2>2, <2>3, ProgressKept
<1>1. CASE Process(w)
  <2> DEFINE pc == IF job.tried THEN "recover" ELSE Route(job)
  <2>1. pc \in {"recover", "claim", "submit", "cancel", "poll"}
    BY Zenon DEF Route
  <2>2. job.status = "queued" => pc = "submit"
    BY DEF ContractInv, CreatedJob, Route
  <2> HIDE DEF pc
  <2>3. ~ClaimedAt(pc, "process")
    BY Zenon, <1>u, <2>1
  <2>4. QED
    BY ZenonT(60), <1>1, <2>2, <2>3, RefreshKept DEF Process, pc
<1>2. CASE RecoverProviderReceipt(w)
  <2> DEFINE complete == [job EXCEPT !.status = "finalizing", !.phase = "artifact_finalize",
                                     !.assets = Outputs, !.usage = UsageOr(job, "estimated")]
             partial == [job EXCEPT !.assets = Receipt]
  <2>1. complete \in Jobs /\ partial \in Jobs
    BY ZenonT(60), <1>s DEF Jobs, UsageOr, Receipt, Statuses, Phases
  <2>2. /\ complete.status = "finalizing" /\ complete.cancel = job.cancel
        /\ complete.txn = job.txn /\ complete.comp = job.comp /\ complete.manual = job.manual
        /\ partial.status = job.status /\ partial.cancel = job.cancel
        /\ partial.txn = job.txn /\ partial.comp = job.comp /\ partial.manual = job.manual
    BY Zenon, <1>s DEF Jobs
  <2> HIDE DEF complete, partial
  <2>3. CASE MutateJob(w, complete, LeaseOf(w), At("finalize", "none", complete))
    BY Zenon, <1>a, <1>p, <2>1, <2>2, <2>3
  <2>r. /\ actor[w].pc = "recover"
        /\ actor[w].arg # "process" => Claimed(w)
        /\ \A j : /\ AfterRecovery(w, j) \in {"claim", "submit", "cancel", "poll", "providerError"}
                  /\ ClaimedAt(AfterRecovery(w, j), actor[w].arg) => Claimed(w)
    <3>1. /\ actor[w].pc = "recover"
          /\ actor[w].arg # "process" => Claimed(w)
      BY Zenon, <1>2 DEF RecoverProviderReceipt, Claimed, ClaimedAt
    <3>2. ASSUME NEW j
          PROVE  /\ AfterRecovery(w, j) \in {"claim", "submit", "cancel", "poll", "providerError"}
                 /\ ClaimedAt(AfterRecovery(w, j), actor[w].arg) => Claimed(w)
      <4>1. Route(j) \in {"claim", "submit", "cancel", "poll"}
        BY Zenon DEF Route
      <4>2. QED
        BY Zenon, <1>u, <3>1, <4>1 DEF AfterRecovery
    <3>3. QED
      BY Zenon, <3>1, <3>2
  <2>4. CASE MutateJob(w, partial, lease,
                       At(AfterRecovery(w, partial), actor[w].arg, partial))
    <3> DEFINE pc == AfterRecovery(w, partial)
               next == At(pc, actor[w].arg, partial)
    <3>1. job.status # "queued"
      BY Zenon, <2>r DEF ContractInv
    <3>2. pc \in Pcs /\ (ClaimedAt(pc, actor[w].arg) => Claimed(w))
      BY Zenon, <1>p, <2>r
    <3>3. next \in Locals /\ next.pc = pc /\ next.arg = actor[w].arg
      BY ZenonT(60), <1>s, <2>1, <3>2, AtType DEF At
    <3>4. ClaimedAt(next.pc, next.arg) /\ LeaseInv
            => lease = LeaseOf(w) /\ partial.status \in {"running", "finalizing"}
      BY ZenonT(60), <2>2, <3>2, <3>3 DEF LeaseInv
    <3>5. Allowed(job, partial)
      BY Zenon, <1>s, <2>1, <2>2, QuietRow
    <3>6. partial.comp = "pending" /\ partial.manual => partial.txn
      BY ZenonT(60), <2>2, Zenon DEF ContractInv
    <3>7. CASE CanWrite(w, partial)
      <4>1. LeaseInv => partial.status \notin TerminalStatuses
        BY Zenon, <2>2, <3>7 DEF LeaseInv, CanWrite
      <4> HIDE DEF next
      <4>2. MutateJob(w, partial, lease, next)
        BY Zenon, <2>4 DEF next
      <4>3. QED
        BY ZenonT(60), <2>1, <2>2, <3>1, <3>3, <3>4, <3>5, <3>6, <4>1, <4>2, MutateKept
    <3>8. CASE ~CanWrite(w, partial)
      BY Zenon, <2>4, <3>8, ReturnKept DEF MutateJob
    <3>9. QED
      BY Zenon, <3>7, <3>8
  <2>5. CASE /\ Goto(w, AfterRecovery(w, actor[w].snap), actor[w].arg)
             /\ UNCHANGED <<job, lease>>
    <3> DEFINE pc == AfterRecovery(w, actor[w].snap)
    <3>1. pc \in Pcs /\ (ClaimedAt(pc, actor[w].arg) => Claimed(w))
      BY Zenon, <1>p, <2>r
    <3> HIDE DEF pc
    <3>2. Goto(w, pc, actor[w].arg)
      BY Zenon, <2>5 DEF pc
    <3>3. QED
      BY Zenon, <1>s, <1>g, <2>5, <2>r, <3>1, <3>2
  <2>6. QED
    BY Zenon, <1>2, <2>3, <2>4, <2>5 DEF RecoverProviderReceipt, complete, partial
<1>3. CASE Submit(w)
  <2> DEFINE new == [job EXCEPT !.status = "running", !.phase = "provider_submit",
                                !.tried = TRUE]
  <2>1. new \in Jobs
    BY Zenon, <1>s DEF Jobs, Statuses, Phases
  <2>2. /\ new.status = "running" /\ new.cancel = job.cancel /\ new.txn = job.txn
        /\ new.comp = job.comp /\ new.manual = job.manual
    BY Zenon, <1>s DEF Jobs
  <2>3. MutateJob(w, new, LeaseOf(w), At("submitCall", "none", new))
    BY Zenon, <1>3 DEF Submit
  <2> HIDE DEF new
  <2>4. QED
    BY Zenon, <1>a, <1>p, <2>1, <2>2, <2>3
<1>4. CASE SubmitCall(w)
  <2>1. PICK pc \in {"answer", "recover"},
             arg \in {"completed", "retryable", "permanent", "accepted"} : Goto(w, pc, arg)
    BY Zenon, <1>4 DEF SubmitCall
  <2>2. Claimed(w) /\ actor[w].pc \notin {"idle", "submit"} /\ UNCHANGED <<job, lease>>
    BY Zenon, <1>4 DEF SubmitCall, Claimed, ClaimedAt, ClaimedPcs
  <2>3. QED
    BY Zenon, <1>g, <1>p, <2>1, <2>2
<1>5. CASE Poll(w)
  <2> DEFINE new == [job EXCEPT !.status = "running", !.phase = "provider_poll",
                                !.tried = TRUE, !.polls = actor[w].snap.polls + 1]
  <2>1. CASE actor[w].snap.polls >= MaxPolls
    BY Zenon, <1>5, <1>g, <1>p, <1>u, <2>1 DEF Poll
  <2>2. CASE ~(actor[w].snap.polls >= MaxPolls)
    <3>1. actor[w].snap.polls + 1 \in 0..MaxPolls
      BY <1>s, <2>2, StoreAssumption DEF Jobs
    <3>2. new \in Jobs
      BY ZenonT(60), <1>s, <3>1 DEF Jobs, Statuses, Phases
    <3>3. /\ new.status = "running" /\ new.cancel = job.cancel /\ new.txn = job.txn
          /\ new.comp = job.comp /\ new.manual = job.manual
      BY Zenon, <1>s DEF Jobs
    <3>4. MutateJob(w, new, LeaseOf(w), At("pollCall", "none", new))
      BY Zenon, <1>5, <2>2 DEF Poll
    <3> HIDE DEF new
    <3>5. QED
      BY Zenon, <1>a, <1>p, <3>2, <3>3, <3>4
  <2>3. QED
    BY Zenon, <2>1, <2>2
<1>6. CASE PollCall(w)
  <2>1. PICK pc \in {"answer", "recover"},
             arg \in {"completed", "retryable", "permanent", "accepted", "failed", "cancelled"} :
          Goto(w, pc, arg)
    BY Zenon, <1>6 DEF PollCall
  <2>2. Claimed(w) /\ actor[w].pc \notin {"idle", "submit"} /\ UNCHANGED <<job, lease>>
    BY Zenon, <1>6 DEF PollCall, Claimed, ClaimedAt, ClaimedPcs
  <2>3. QED
    BY Zenon, <1>g, <1>p, <2>1, <2>2
<1>7. CASE ApplyProviderResponse(w)
  <2> DEFINE waiting == [job EXCEPT !.status = "waiting_provider",
                                    !.phase = "provider_poll", !.task = TRUE]
             finished(usage) ==
               [job EXCEPT !.status = "finalizing", !.phase = "artifact_finalize",
                           !.assets = Outputs, !.usage = UsageOr(job, usage)]
             next == IF actor[w].snap.phase = "provider_submit" /\ actor[w].snap.cancel
                       THEN At("cancel", "none", waiting) ELSE Idle
  <2>1. CASE MutateJob(w, waiting, NoLease, next)
    <3>1. waiting \in Jobs
      BY ZenonT(60), <1>s DEF Jobs, Statuses, Phases
    <3>2. /\ waiting.status = "waiting_provider" /\ waiting.cancel = job.cancel
          /\ waiting.txn = job.txn /\ waiting.comp = job.comp /\ waiting.manual = job.manual
      BY Zenon, <1>s DEF Jobs
    <3> HIDE DEF waiting
    <3>3. next \in Locals
      BY Zenon, <1>p, <1>s, <3>1, AtType
    <3>4. ~ClaimedAt(next.pc, next.arg)
      BY Zenon, <1>u DEF At
    <3>5. waiting.manual => job.manual
      BY ZenonT(60), <3>2, Zenon
    <3> HIDE DEF next
    <3>6. QED
      BY ZenonT(60), <2>1, <3>1, <3>2, <3>3, <3>4, <3>5, ProgressKept DEF Active
  <2>2. ASSUME NEW usage \in {"reported", "estimated"},
               MutateJob(w, finished(usage), LeaseOf(w),
                         At("finalize", "none", finished(usage)))
        PROVE  Kept
    <3> DEFINE new == finished(usage)
    <3>1. new \in Jobs
      BY ZenonT(60), <1>s DEF Jobs, Statuses, Phases, UsageOr
    <3>2. /\ new.status = "finalizing" /\ new.cancel = job.cancel /\ new.txn = job.txn
          /\ new.comp = job.comp /\ new.manual = job.manual
      BY Zenon, <1>s DEF Jobs
    <3>3. MutateJob(w, new, LeaseOf(w), At("finalize", "none", new))
      BY Zenon, <2>2
    <3> HIDE DEF new
    <3>4. QED
      BY Zenon, <1>a, <1>p, <3>1, <3>2, <3>3
  <2>3. ASSUME NEW goal \in {"cancelJob", "failProvider"},
               Goto(w, "discard", goal) /\ UNCHANGED <<job, lease>>
        PROVE  Kept
    BY Zenon, <1>7, <1>g, <1>p, <1>u, <2>3 DEF ApplyProviderResponse
  <2>4. QED
    BY Zenon, <1>7, <2>1, <2>2, <2>3 DEF ApplyProviderResponse
<1>8. ASSUME ScheduleProviderRetry(w)
      PROVE  Kept
  <2> DEFINE new == [job EXCEPT !.status = "retry_wait", !.retry = NextRetry(job),
                                !.manual = FALSE]
  <2>1. new \in Jobs
    BY ZenonT(60), <1>s, NextRetryType DEF Jobs, Statuses
  <2>2. /\ new.status = "retry_wait" /\ new.cancel = job.cancel /\ new.txn = job.txn
        /\ new.comp = job.comp /\ ~new.manual
    BY Zenon, <1>s DEF Jobs
  <2>3. MutateJob(w, new, NoLease, Idle)
    BY Zenon, <1>8 DEF ScheduleProviderRetry
  <2> HIDE DEF new
  <2>4. QED
    BY Zenon, <1>s, <1>u, <2>1, <2>2, <2>3, ProgressKept DEF Active
<1>9. CASE HandleProviderError(w)
  <2>1. CASE ScheduleProviderRetry(w)
    BY Zenon, <1>8, <2>1
  <2>2. CASE Goto(w, "discard", "failProvider") /\ UNCHANGED <<job, lease>>
    BY Zenon, <1>9, <1>g, <1>p, <1>u, <2>2 DEF HandleProviderError
  <2>3. QED
    BY Zenon, <1>9, <2>1, <2>2 DEF HandleProviderError
<1>10. CASE ProcessCancellation(w)
  <2> DEFINE new == [job EXCEPT !.status = "running", !.phase = "provider_poll"]
  <2>1. CASE MutateJob(w, new, LeaseOf(w), At("cancelCall", "none", new))
    <3>1. new \in Jobs
      BY ZenonT(60), <1>s DEF Jobs, Statuses, Phases
    <3>2. /\ new.status = "running" /\ new.cancel = job.cancel /\ new.txn = job.txn
          /\ new.comp = job.comp /\ new.manual = job.manual
      BY Zenon, <1>s DEF Jobs
    <3> HIDE DEF new
    <3>3. QED
      BY Zenon, <1>a, <1>p, <2>1, <3>1, <3>2
  <2>2. CASE Goto(w, "discard", "cancelJob") /\ UNCHANGED <<job, lease>>
    BY Zenon, <1>10, <1>g, <1>p, <1>u, <2>2 DEF ProcessCancellation
  <2>3. QED
    BY Zenon, <1>10, <2>1, <2>2 DEF ProcessCancellation
<1>11. CASE CancelCall(w) \/ CancelLost(w)
  <2>1. PICK pc \in {"discard", "poll", "cancelRetry"}, arg \in {"cancelJob", "none"} :
          Goto(w, pc, arg)
    BY Zenon, <1>11 DEF CancelCall, CancelLost
  <2>2. Claimed(w) /\ actor[w].pc \notin {"idle", "submit"} /\ UNCHANGED <<job, lease>>
    BY Zenon, <1>11 DEF CancelCall, CancelLost, Claimed, ClaimedAt, ClaimedPcs
  <2>3. QED
    BY Zenon, <1>g, <1>p, <2>1, <2>2
<1>12. CASE RetryCancellation(w)
  BY Zenon, <1>8, <1>12 DEF RetryCancellation
<1>13. CASE ClaimFinalization(w)
  <2> DEFINE new == [job EXCEPT !.status = "finalizing"]
  <2>1. new \in Jobs
    BY Zenon, <1>s DEF Jobs, Statuses
  <2>2. /\ new.status = "finalizing" /\ new.cancel = job.cancel /\ new.txn = job.txn
        /\ new.comp = job.comp /\ new.manual = job.manual
    BY Zenon, <1>s DEF Jobs
  <2>3. MutateJob(w, new, LeaseOf(w), At("finalize", "none", new))
    BY Zenon, <1>13 DEF ClaimFinalization
  <2> HIDE DEF new
  <2>4. QED
    BY ZenonT(60), <1>a, <1>p, <2>1, <2>2, <2>3
<1>14. CASE FailProvider(w) \/ CancelJob(w)
  BY Zenon, <1>14, SettleAsKept DEF FailProvider, CancelJob
<1>15. CASE HeartbeatLost(w)
  BY Zenon, <1>15, ReturnKept DEF HeartbeatLost
<1>16. CASE RenewJobLease(w)
  <2>1. ContractInv' /\ Allowed(job, job')
    BY Zenon, <1>16, SameRow DEF RenewJobLease, ContractInv
  <2>2. ASSUME LeaseInv
        PROVE  LeaseInv'
    <3>1. \A v \in Workers : ~Claimed(v)
      BY <1>16, <2>2 DEF RenewJobLease, LeaseInv, LeaseOf
    <3>2. QED
      BY Zenon, <1>16, <2>2, <3>1 DEF RenewJobLease, LeaseInv, Claimed
  <2>3. QED
    BY Zenon, <2>1, <2>2 DEF Kept
<1>17. QED
  BY <1>1, <1>2, <1>3, <1>4, <1>5, <1>6, <1>7, <1>9, <1>10, <1>11, <1>12, <1>13,
     <1>14, <1>15, <1>16 DEF WorkerStep

(* Every step of FinalizationEngine. *)
LEMMA FinalizeKept ==
  ASSUME TypeOK, TypeOK', SettlementInv, ContractInv, NEW w \in Workers,
         Finalize(w) \/ FinalizeFault(w)
  PROVE  Kept
<1>s. /\ w \in Actors /\ actor[w] \in Locals /\ actor[w].snap \in Jobs /\ actor[w].arg \in Args
      /\ job \in Jobs /\ Idle \in Locals
  BY Zenon, StoreTypes DEF Actors, TypeOK, Locals
<1>p. {"quote", "inspect", "check", "reserve", "charge", "record", "recheck", "commit",
       "reload", "retry", "discard", "settle"} \subseteq Pcs
      /\ {"none", "binding", "billing", "retryable", "permanent"} \subseteq Args
      /\ FinalizationGoals \subseteq Args
  BY DEF Pcs, Args, FinalizationGoals
<1>i. ~Idle.fresh /\ ~ClaimedAt(Idle.pc, Idle.arg)
  BY Zenon DEF Idle, ClaimedAt, ClaimedPcs, FinalizationPcs
<1>c. actor[w].pc \in FinalizationPcs \ {"claim"} => Claimed(w)
  BY Zenon DEF Claimed, ClaimedAt, ClaimedPcs
<1>n. actor[w].pc \in FinalizationPcs \cup {"discard", "settle"} => job.status # "queued"
  BY Zenon DEF ContractInv, FinalizationPcs
<1>l. Claimed(w) /\ LeaseInv => /\ lease = LeaseOf(w)
                                /\ job.status \in {"running", "finalizing"}
                                /\ job.status \notin TerminalStatuses
  BY Zenon DEF LeaseInv, TerminalStatuses
<1>g. ASSUME NEW pc \in Pcs, NEW arg \in Args, Goto(w, pc, arg), UNCHANGED <<job, lease>>,
             actor[w].pc \in FinalizationPcs \ {"claim"}
      PROVE  Kept
  BY Zenon, <1>g, <1>c, GotoKept DEF FinalizationPcs
<1>r. ASSUME NEW pc, NEW arg, actor' = [actor EXCEPT ![w] = At(pc, arg, job)],
             UNCHANGED <<job, lease>>, actor[w].pc \in FinalizationPcs \ {"claim"}
      PROVE  Kept
  BY ZenonT(60), <1>r, <1>c, <1>n, RefreshKept
<1>w. ASSUME NEW pc \in Pcs, NEW new \in Jobs, Write(w, new, lease, At(pc, "none", new)),
             actor[w].pc \in FinalizationPcs \ {"claim"},
             new.cancel = job.cancel, new.comp = job.comp, new.manual = job.manual,
             \/ new.status = job.status /\ (new.txn = job.txn \/ new.txn)
             \/ new.status = "finalizing" /\ job.status \in Active /\ new.txn = job.txn
      PROVE  Kept
  <2> DEFINE next == At(pc, "none", new)
  <2>1. next \in Locals
    BY ZenonT(60), <1>w, <1>p, AtType
  <2>2. new.status # "queued"
    BY Zenon, <1>w, <1>n
  <2>3. new.comp = "pending" /\ new.manual => new.txn
    BY ZenonT(60), <1>w, Zenon DEF ContractInv
  <2>4. LeaseInv => lease = LeaseOf(w) /\ new.status \in {"running", "finalizing"}
    BY ZenonT(60), <1>w, <1>c, <1>l
  <2>5. LeaseInv => new.status \notin TerminalStatuses
    BY Zenon, <2>4 DEF TerminalStatuses
  <2>6. ASSUME LateWrites \/ LeaseInv
        PROVE  Allowed(job, new)
    <3>1. CASE new.txn = job.txn
      BY ZenonT(60), <1>s, <1>w, <3>1, QuietRow DEF Active
    <3>2. CASE new.txn /\ new.status = job.status
      <4>1. job.status \in Active \/ (LateWrites /\ job.status \in TerminalStatuses)
        <5>1. job.status \in Active \cup TerminalStatuses
          BY Zenon, <1>s, <2>2, <3>2 DEF Jobs, Statuses, Active
        <5>2. QED
          BY Zenon, <2>5, <2>6, <3>2, <5>1
      <4>2. QED
        BY ZenonT(60), <1>s, <1>w, <3>2, <4>1, ChargedRow
    <3>3. QED
      BY ZenonT(60), <1>w, <3>1, <3>2
  <2>7. QED
    BY ZenonT(60), <1>w, <1>c, <2>1, <2>2, <2>3, <2>4, <2>5, <2>6, WriteKept
<1>1. CASE BeginFinalize(w)
  <2> DEFINE new == [job EXCEPT !.status = "finalizing", !.phase = "artifact_finalize"]
  <2>1. new \in Jobs
    BY ZenonT(60), <1>s DEF Jobs, Statuses, Phases
  <2>2. /\ new.status = "finalizing" /\ new.cancel = job.cancel /\ new.txn = job.txn
        /\ new.comp = job.comp /\ new.manual = job.manual
    BY Zenon, <1>s DEF Jobs
  <2>3. actor[w].pc \in FinalizationPcs \ {"claim"}
    BY Zenon, <1>1 DEF BeginFinalize, FinalizationPcs
  <2>4. CASE ~IsTerminalJobStatus(job.status) /\ Write(w, new, lease, At("quote", "none", new))
    <3>1. job.status \in Active
      BY Zenon, <1>s, <1>n, <2>3, <2>4 DEF Jobs, Statuses, Active, IsTerminalJobStatus
    <3> HIDE DEF new
    <3>2. QED
      BY ZenonT(60), <1>p, <1>w, <2>1, <2>2, <2>3, <2>4, <3>1
  <2>5. CASE Return(w) /\ UNCHANGED <<job, lease>>
    BY Zenon, <2>5, ReturnKept
  <2>6. QED
    BY Zenon, <1>1, <2>4, <2>5 DEF BeginFinalize
<1>2. CASE FreezeSettlementQuote(w)
  <2> DEFINE new == [job EXCEPT !.quote = Price(actor[w].snap.usage)]
  <2>1. new \in Jobs
    BY Zenon, <1>s DEF Jobs, Price
  <2>2. /\ new.status = job.status /\ new.cancel = job.cancel /\ new.txn = job.txn
        /\ new.comp = job.comp /\ new.manual = job.manual
    BY Zenon, <1>s DEF Jobs
  <2>3. actor[w].pc \in FinalizationPcs \ {"claim"}
    BY Zenon, <1>2 DEF FreezeSettlementQuote, FinalizationPcs
  <2>4. CASE Write(w, new, lease, At("inspect", "none", new))
    <3> HIDE DEF new
    <3> QED
      BY ZenonT(60), <1>p, <1>w, <2>1, <2>2, <2>3, <2>4
  <2>5. CASE /\ actor' = [actor EXCEPT ![w] = At("inspect", "none", job)]
             /\ UNCHANGED <<job, lease>>
    BY ZenonT(60), <1>r, <2>3, <2>5
  <2>6. QED
    BY Zenon, <1>2, <2>4, <2>5 DEF FreezeSettlementQuote
<1>3. ASSUME Write(w, Succeeded(job), NoLease, Idle), CanWrite(w, Succeeded(job)),
             actor[w].pc \in FinalizationPcs \ {"claim"}
      PROVE  Kept
  <2> DEFINE new == Succeeded(job)
  <2>1. new \in Jobs
    BY Zenon, <1>s, SucceededRow
  <2>2. /\ new.status = "succeeded" /\ new.cancel = job.cancel /\ new.txn = job.txn
        /\ new.comp = "not_required"
    BY Zenon, <1>s DEF Succeeded, Jobs
  <2>3. CanWrite(w, new) /\ Write(w, new, NoLease, Idle)
    BY Zenon, <1>3
  <2> HIDE DEF new
  <2>4. job.status \in Active \cup {"succeeded"}
    BY Zenon, <1>3, <1>n, <2>2, <2>3, WritesFrom
  <2>5. job.comp = "not_required"
    BY Zenon, <2>4 DEF SettlementInv, BooksAgree, Active
  <2>6. Allowed(job, new)
    BY Zenon, <1>s, <2>1, <2>2, <2>4, <2>5, SucceededIsAllowed
  <2>7. QED
    BY ZenonT(60), <1>3, <1>s, <1>i, <1>c, <2>1, <2>2, <2>3, <2>6, WriteKept
<1>4. CASE InspectCommit(w)
  <2>1. actor[w].pc \in FinalizationPcs \ {"claim"}
    BY ZenonT(60), <1>4 DEF InspectCommit, FinalizationPcs
  <2>2. CASE MutateJob(w, Succeeded(job), NoLease, Idle)
    BY Zenon, <1>3, <2>1, <2>2, ReturnKept DEF MutateJob
  <2>3. CASE /\ Goto(w, "discard", CancelGoal(actor[w].snap)) \/ Goto(w, "check", "none")
             /\ UNCHANGED <<job, lease>>
    BY Zenon, <1>p, <1>g, <2>1, <2>3 DEF CancelGoal, FinalizationGoals
  <2>4. QED
    BY ZenonT(60), <1>4, <2>2, <2>3 DEF InspectCommit
<1>5. CASE \/ CheckBinding(w) \/ RecheckBinding(w) \/ ChargeRejected(w) \/ StoreError(w)
           \/ Charge(w) \/ ChargeLost(w) \/ CommitJobTxLost(w)
  <2>1. UNCHANGED <<job, lease>> /\ actor[w].pc \in FinalizationPcs \ {"claim"}
    BY Zenon, <1>5 DEF CheckBinding, RecheckBinding, ChargeRejected, StoreError, Charge, ChargeLost,
                CommitJobTxLost, FinalizationPcs
  <2>2. PICK pc \in {"discard", "reserve", "record", "recheck", "commit", "retry", "reload"},
             arg \in {"failAfterCharge", "failWithoutCharge", "failPermanent", "none",
                      "binding", "billing", "retryable"} : Goto(w, pc, arg)
    BY Zenon, <1>5 DEF CheckBinding, RecheckBinding, ChargeRejected, StoreError, Charge, ChargeLost,
                CommitJobTxLost
  <2>3. pc \in Pcs /\ arg \in Args
    BY Zenon, <1>p, <2>2 DEF FinalizationGoals
  <2>4. QED
    BY Zenon, <1>g, <2>1, <2>2, <2>3
<1>6. CASE BeginCharge(w)
  <2> DEFINE new == [job EXCEPT !.phase = "billing_charge"]
  <2>1. new \in Jobs
    BY Zenon, <1>s DEF Jobs, Phases
  <2>2. /\ new.status = job.status /\ new.cancel = job.cancel /\ new.txn = job.txn
        /\ new.comp = job.comp /\ new.manual = job.manual
    BY Zenon, <1>s DEF Jobs
  <2>3. /\ MutateJob(w, new, lease, At("charge", "none", new))
        /\ actor[w].pc \in FinalizationPcs \ {"claim"}
    BY Zenon, <1>6 DEF BeginCharge, FinalizationPcs
  <2> HIDE DEF new
  <2>4. CASE Write(w, new, lease, At("charge", "none", new))
    BY <1>p, <1>w, <2>1, <2>2, <2>3, <2>4
  <2>5. CASE Return(w) /\ UNCHANGED <<job, lease>>
    BY <2>5, ReturnKept
  <2>6. QED
    BY Zenon, <2>3, <2>4, <2>5 DEF MutateJob
<1>8. CASE RecordCharge(w)
  <2> DEFINE new == [job EXCEPT !.txn = TRUE]
  <2>1. new \in Jobs
    BY ZenonT(60), <1>s DEF Jobs
  <2>2. /\ new.status = job.status /\ new.cancel = job.cancel /\ new.txn
        /\ new.comp = job.comp /\ new.manual = job.manual
    BY Zenon, <1>s DEF Jobs
  <2>3. actor[w].pc \in FinalizationPcs \ {"claim"}
    BY Zenon, <1>8 DEF RecordCharge, FinalizationPcs
  <2>4. CASE Write(w, new, lease, At("recheck", "none", new))
    <3> HIDE DEF new
    <3> QED
      BY ZenonT(60), <1>p, <1>w, <2>1, <2>2, <2>3, <2>4
  <2>5. CASE /\ actor' = [actor EXCEPT ![w] = At("recheck", "none", job)]
             /\ UNCHANGED <<job, lease>>
    BY Zenon, <1>r, <2>3, <2>5
  <2>6. QED
    BY Zenon, <1>8, <2>4, <2>5 DEF RecordCharge
<1>9. CASE Commit(w)
  <2>1. actor[w].pc \in FinalizationPcs \ {"claim"}
    BY Zenon, <1>9 DEF Commit, FinalizationPcs
  <2>2. ASSUME NEW arg \in {"retryable", "permanent"},
               Goto(w, "reload", arg) /\ UNCHANGED <<job, lease>>
        PROVE  Kept
    BY Zenon, <1>p, <1>g, <2>1, <2>2
  <2>3. QED
    BY Zenon, <1>9, <1>3, <2>1, <2>2 DEF Commit
<1>10. CASE AfterCommitError(w)
  <2>1. UNCHANGED <<job, lease>> /\ actor[w].pc \in FinalizationPcs \ {"claim"}
    BY Zenon, <1>10 DEF AfterCommitError, FinalizationPcs
  <2>2. PICK pc \in {"discard", "retry"},
             arg \in {"failAfterCharge", "cancelBeforeCommit", "failPermanent", "binding"} :
          actor' = [actor EXCEPT ![w] = At(pc, arg, job)]
    BY ZenonT(60), <1>10 DEF AfterCommitError, CancelGoal
  <2>3. QED
    BY Zenon, <1>r, <2>1, <2>2
<1>11. CASE ScheduleRetry(w)
  <2> DEFINE new == [job EXCEPT !.status = "retry_wait", !.retry = NextRetry(job),
                                !.manual = FALSE]
  <2>1. new \in Jobs
    BY ZenonT(60), <1>s, NextRetryType DEF Jobs, Statuses
  <2>2. /\ new.status = "retry_wait" /\ new.cancel = job.cancel /\ new.txn = job.txn
        /\ new.comp = job.comp /\ ~new.manual
    BY Zenon, <1>s DEF Jobs
  <2>3. CASE MutateJob(w, new, NoLease, Idle)
    <3> HIDE DEF new
    <3> QED
      BY ZenonT(60), <1>s, <1>i, <2>1, <2>2, <2>3, ProgressKept DEF Active
  <2>4. ASSUME NEW goal \in {"failAfterCharge", "failPermanent"},
               Goto(w, "discard", goal) /\ UNCHANGED <<job, lease>>
        PROVE  Kept
    BY Zenon, <1>11, <1>p, <1>g, <2>4 DEF ScheduleRetry, FinalizationGoals, FinalizationPcs
  <2>5. QED
    BY Zenon, <1>11, <2>3, <2>4 DEF ScheduleRetry
<1>12. CASE DiscardResult(w)
  <2>1. /\ Goto(w, "settle", actor[w].arg) /\ UNCHANGED <<job, lease>>
        /\ actor[w].pc = "discard"
    BY ZenonT(60), <1>12 DEF DiscardResult
  <2>2. ClaimedAt("settle", actor[w].arg) => Claimed(w)
    BY Zenon, <2>1 DEF Claimed, ClaimedAt, ClaimedPcs, FinalizationPcs
  <2>3. QED
    BY Zenon, <1>s, <1>p, <2>1, <2>2, GotoKept
<1>13. CASE FailWithoutCharge(w) \/ CancelBeforeCommit(w) \/ FailPermanent(w)
  BY Zenon, <1>13, SettleAsKept DEF FailWithoutCharge, CancelBeforeCommit, FailPermanent
<1>14. CASE FailAfterCharge(w)
  <2> DEFINE new == [job EXCEPT !.status = IF job.cancel THEN "cancelled" ELSE "failed",
                                !.comp = "pending", !.manual = FALSE]
  <2>1. new \in Jobs
    BY ZenonT(60), <1>s DEF Jobs, Statuses, TerminalStatuses, CompensationStatuses
  <2>2. /\ new.status \in {"failed", "cancelled"} /\ new.cancel = job.cancel
        /\ new.txn = job.txn /\ new.comp = "pending" /\ ~new.manual
    BY Zenon, <1>s DEF Jobs
  <2>3. MutateJob(w, new, NoLease, Idle) /\ actor[w].pc = "settle"
    BY Zenon, <1>14 DEF FailAfterCharge
  <2> HIDE DEF new
  <2>4. QED
    BY Zenon, <2>1, <2>2, <2>3, EndedKept
<1>15. QED
  BY SMTT(30), <1>1, <1>2, <1>4, <1>5, <1>6, <1>8, <1>9, <1>10, <1>11, <1>12, <1>13, <1>14
     DEF Finalize, FinalizeFault

(* A dispatcher moves, without touching the row. *)
LEMMA CompensatorMoveKept ==
  ASSUME TypeOK, ContractInv, NEW c \in Compensators, UNCHANGED <<job, lease>>,
         \A q \in Actors \ {c} : actor'[q] = actor[q], RefundJustified(actor[c])'
  PROVE  Kept
<1>1. \A w \in Workers : actor'[w] = actor[w]
  BY Zenon, StoreAssumption DEF Actors
<1>2. \A d \in Compensators : RefundJustified(actor[d])'
  BY Zenon DEF ContractInv, Actors, RefundJustified
<1>3. ContractInv' /\ (LeaseInv => LeaseInv')
  BY Zenon, <1>1, <1>2 DEF ContractInv, LeaseInv, Claimed
<1>4. QED
  BY Zenon, <1>3, SameRow DEF Kept

(* A dispatcher tries to write the row: of a job that has ended, so that no     *)
(* worker has it claimed.                                                       *)
LEMMA CompensatorWriteKept ==
  ASSUME TypeOK, TypeOK', ContractInv, NEW c \in Compensators, NEW new \in Jobs, NEW newLease,
         NEW pc \in {"refund", "ack"}, NEW arg,
         MutateJob(c, new, newLease, At(pc, arg, new)),
         CanWrite(c, new) =>
           /\ job.status \in {"failed", "cancelled"} /\ job.comp \in Open /\ job.txn
           /\ new.status = job.status /\ new.cancel = job.cancel /\ new.txn = job.txn
           /\ new.comp \in Open \/ new.comp = "completed",
         pc = "refund" => new.comp = "running"
  PROVE  Kept
<1>c. c \in Actors /\ job \in Jobs
  BY Zenon DEF Actors, TypeOK
<1>1. CASE CanWrite(c, new)
  <2>1. Write(c, new, newLease, At(pc, arg, new))
    BY Zenon, <1>1 DEF MutateJob
  <2>2. /\ job' = new /\ actor'[c].pc = pc /\ actor'[c].snap = new
        /\ \A q \in Actors \ {c} : actor'[q] = [actor[q] EXCEPT !.fresh = FALSE]
    BY Zenon, <1>c, <2>1 DEF Write, At
  <2>3. \A q \in Actors \ {c} : /\ actor'[q].pc = actor[q].pc /\ actor'[q].arg = actor[q].arg
                                /\ actor'[q].snap = actor[q].snap /\ ~actor'[q].fresh
    BY SMTT(30), <2>2 DEF TypeOK, Locals
  <2>4. \A w \in Workers : w \in Actors \ {c}
    BY Zenon, StoreAssumption DEF Actors
  <2>5. \A d \in Compensators : RefundJustified(actor[d])'
    <3>1. RefundJustified(actor[c])'
      BY Zenon, <2>2 DEF RefundJustified
    <3>2. \A d \in Compensators \ {c} : RefundJustified(actor[d])'
      BY <2>3 DEF ContractInv, Actors, RefundJustified
    <3>3. QED
      BY Zenon, <3>1, <3>2
  <2>6. new.txn /\ new.status # "queued"
    BY Zenon, <1>1
  <2>7. ContractInv'
    BY Zenon, <2>2, <2>5, <2>6 DEF ContractInv
  <2>8. LeaseInv => LeaseInv'
    <3>1. LeaseInv => \A w \in Workers : ~Claimed(w)
      BY ZenonT(60), <1>1 DEF LeaseInv
    <3>2. \A w \in Workers : ~actor'[w].fresh /\ (Claimed(w)' => Claimed(w))
      BY Zenon, <2>3, <2>4 DEF Claimed
    <3>3. QED
      BY Zenon, <3>1, <3>2 DEF LeaseInv
  <2>9. Allowed(job, new)
    <3>1. CASE new.comp \in Open
      BY Zenon, <1>1, <1>c, <3>1, QuietRow
    <3>2. CASE new.comp = "completed"
      BY Zenon, <1>1, <1>c, <2>6, <3>2, SettledRow
    <3>3. QED
      BY Zenon, <1>1, <3>1, <3>2
  <2>10. QED
    BY Zenon, <2>2, <2>7, <2>8, <2>9 DEF Kept
<1>2. CASE ~CanWrite(c, new)
  <2>1. /\ UNCHANGED <<job, lease>> /\ actor'[c] = Idle
        /\ \A q \in Actors \ {c} : actor'[q] = actor[q]
    BY ZenonT(60), <1>2, <1>c DEF MutateJob, Return, TypeOK
  <2>2. actor'[c].pc = "idle"
    BY SMTT(30), <2>1 DEF Idle
  <2>4. RefundJustified(actor[c])'
    BY Zenon, <2>2 DEF RefundJustified
  <2>3. QED
    BY Zenon, <2>1, <2>4, CompensatorMoveKept
<1>3. QED
  BY Zenon, <1>1, <1>2

(* Every step of CompensationService. *)
LEMMA CompensatorKept ==
  ASSUME TypeOK, TypeOK', SettlementInv, ContractInv, NEW c \in Compensators,
         CompensatorStep(c) \/ CompensatorFault(c)
  PROVE  Kept
<1>s. c \in Actors /\ actor[c] \in Locals /\ actor[c].arg \in Args /\ job \in Jobs
  BY Zenon DEF Actors, TypeOK, Locals
<1>r. RefundJustified(actor[c]) /\ StepJustified(actor[c], job, ledger)
      /\ CopyAgrees(actor[c], job)
  BY ZenonT(60), <1>s DEF ContractInv, SettlementInv
<1>m. ASSUME NEW new \in Jobs, NEW newLease, NEW pc \in {"refund", "ack"},
             actor[c].pc \in {"claimRefund", "complete", "refundRetry", "refundFailed"},
             new.cancel = job.cancel, new.txn = job.txn, new.status = job.status,
             new.comp \in Open \/ new.comp = "completed", pc = "refund" => new.comp = "running",
             MutateJob(c, new, newLease, At(pc, actor[c].arg, new))
      PROVE  Kept
  <2>1. CanWrite(c, new) => job.comp \in Open
    BY ZenonT(60), <1>m, <1>r DEF CanWrite, CopyAgrees, RefundJustified, Open
  <2>2. CanWrite(c, new) => job.status \in {"failed", "cancelled"}
    BY Zenon, <2>1 DEF SettlementInv, BooksAgree, Open
  <2>3. CanWrite(c, new) => job.txn
    BY ZenonT(60), <1>m, <1>r DEF CanWrite, CopyAgrees, StepJustified
  <2>4. QED
    BY ZenonT(60), <1>m, <2>1, <2>2, <2>3, CompensatorWriteKept
<1>1. CASE RunCompensation(c)
  <2>1. PICK row \in outbox.pending, pc \in {"ack", "claimRefund"} :
          /\ actor' = [actor EXCEPT ![c] = At(pc, row, job)]
          /\ pc = "claimRefund" => job.comp \in Open
    BY ZenonT(60), <1>1 DEF RunCompensation, Open
  <2>2. /\ actor'[c].pc = pc /\ actor'[c].snap = job
        /\ \A q \in Actors \ {c} : actor'[q] = actor[q]
    BY Zenon, <1>s, <2>1 DEF TypeOK, At
  <2>3. RefundJustified(actor[c])' /\ UNCHANGED <<job, lease>>
    BY ZenonT(60), <1>1, <2>1, <2>2 DEF RefundJustified, RunCompensation
  <2>4. QED
    BY Zenon, <2>2, <2>3, CompensatorMoveKept
<1>2. CASE ClaimCompensation(c)
  <2> DEFINE new == [job EXCEPT !.comp = "running", !.phase = "compensation"]
  <2>1. new \in Jobs
    BY ZenonT(60), <1>s DEF Jobs, CompensationStatuses, Phases
  <2>2. /\ new.status = job.status /\ new.cancel = job.cancel /\ new.txn = job.txn
        /\ new.comp = "running"
    BY Zenon, <1>s DEF Jobs
  <2>3. MutateJob(c, new, LeaseOf(c), At("refund", actor[c].arg, new)) /\ actor[c].pc = "claimRefund"
    BY Zenon, <1>2 DEF ClaimCompensation
  <2> HIDE DEF new
  <2>4. QED
    BY Zenon, <1>m, <2>1, <2>2, <2>3 DEF Open
<1>3. CASE Refund(c) \/ RefundLost(c) \/ RefundRejected(c)
  <2>1. PICK pc \in {"complete", "refundRetry", "refundFailed"} : Goto(c, pc, actor[c].arg)
    BY Zenon, <1>3 DEF Refund, RefundLost, RefundRejected
  <2>2. UNCHANGED <<job, lease>> /\ actor[c].pc = "refund"
    BY Zenon, <1>3 DEF Refund, RefundLost, RefundRejected
  <2>3. /\ actor'[c].pc = pc /\ actor'[c].snap = actor[c].snap
        /\ \A q \in Actors \ {c} : actor'[q] = actor[q]
    BY SMTT(30), <1>s, <2>1 DEF Goto, TypeOK, Locals
  <2>4. RefundJustified(actor[c])'
    BY Zenon, <1>r, <2>2, <2>3 DEF RefundJustified
  <2>5. QED
    BY Zenon, <2>2, <2>3, <2>4, CompensatorMoveKept
<1>4. CASE CompleteCompensation(c)
  <2> DEFINE new == [job EXCEPT !.comp = "completed"]
  <2>1. new \in Jobs
    BY Zenon, <1>s DEF Jobs, CompensationStatuses
  <2>2. /\ new.status = job.status /\ new.cancel = job.cancel /\ new.txn = job.txn
        /\ new.comp = "completed"
    BY Zenon, <1>s DEF Jobs
  <2>3. MutateJob(c, new, NoLease, At("ack", actor[c].arg, new)) /\ actor[c].pc = "complete"
    BY Zenon, <1>4 DEF CompleteCompensation
  <2> HIDE DEF new
  <2>4. QED
    BY Zenon, <1>m, <2>1, <2>2, <2>3
<1>5. CASE FailCompensation(c)
  <2> DEFINE new == [job EXCEPT !.comp = "pending", !.phase = "compensation",
                                !.manual = TRUE]
  <2>1. new \in Jobs
    BY Zenon, <1>s DEF Jobs, CompensationStatuses, Phases
  <2>2. /\ new.status = job.status /\ new.cancel = job.cancel /\ new.txn = job.txn
        /\ new.comp = "pending"
    BY Zenon, <1>s DEF Jobs
  <2>3. MutateJob(c, new, NoLease, At("ack", actor[c].arg, new)) /\ actor[c].pc = "refundFailed"
    BY Zenon, <1>5 DEF FailCompensation
  <2> HIDE DEF new
  <2>4. QED
    BY Zenon, <1>m, <2>1, <2>2, <2>3 DEF Open
<1>6. CASE RetryCompensation(c)
  <2> DEFINE new == [job EXCEPT !.comp = "retry_wait", !.phase = "compensation",
                                !.retry = NextRetry(job), !.manual = FALSE]
  <2>1. new \in Jobs
    BY ZenonT(60), <1>s, NextRetryType DEF Jobs, CompensationStatuses, Phases
  <2>2. /\ new.status = job.status /\ new.cancel = job.cancel /\ new.txn = job.txn
        /\ new.comp = "retry_wait"
    BY Zenon, <1>s DEF Jobs
  <2>3. MutateJob(c, new, NoLease, At("ack", actor[c].arg, new)) /\ actor[c].pc = "refundRetry"
    BY Zenon, <1>6 DEF RetryCompensation
  <2> HIDE DEF new
  <2>4. QED
    BY Zenon, <1>m, <2>1, <2>2, <2>3 DEF Open
<1>7. CASE AckRow(c)
  <2>1. /\ UNCHANGED <<job, lease>> /\ actor'[c] = Idle
        /\ \A q \in Actors \ {c} : actor'[q] = actor[q]
    BY Zenon, <1>7, <1>s DEF AckRow, Return, TypeOK
  <2>2. RefundJustified(actor[c])'
    BY <2>1 DEF RefundJustified, Idle
  <2>3. QED
    BY Zenon, <2>1, <2>2, CompensatorMoveKept
<1>8. QED
  BY ZenonT(60), <1>1, <1>2, <1>3, <1>4, <1>5, <1>6, <1>7 DEF CompensatorStep, CompensatorFault

(* The environment's steps, as long as no lease lapses under its owner. *)
LEMMA EnvironmentKept ==
  ASSUME TypeOK, TypeOK', SettlementInv, ContractInv,
         \/ Environment \/ LeaseExpires \/ DeadLetter \/ \E p \in Actors : Abandon(p)
  PROVE  Kept
<1>s. job \in Jobs /\ job' \in Jobs
  BY Zenon DEF TypeOK
<1>t. ASSUME EveryCopyStale
      PROVE  \A q \in Actors : /\ actor'[q].pc = actor[q].pc /\ actor'[q].arg = actor[q].arg
                               /\ actor'[q].snap = actor[q].snap /\ ~actor'[q].fresh
  BY <1>t DEF EveryCopyStale, TypeOK, Locals
<1>e. ASSUME EveryCopyStale, UNCHANGED lease, job'.status # "queued",
             job'.comp = "pending" /\ job'.manual => job'.txn,
             job.status \in {"running", "finalizing"} => job'.status = job.status,
             Allowed(job, job')
      PROVE  Kept
  <2>1. \A c \in Compensators : RefundJustified(actor[c])'
    BY <1>e, <1>t DEF ContractInv, RefundJustified, Actors
  <2>2. ContractInv'
    BY Zenon, <1>e, <2>1 DEF ContractInv
  <2>3. \A w \in Workers : ~actor'[w].fresh /\ (Claimed(w)' => Claimed(w))
    BY Zenon, <1>e, <1>t DEF Claimed, Actors
  <2>4. LeaseInv => LeaseInv'
    BY Zenon, <1>e, <2>3 DEF LeaseInv
  <2>5. QED
    BY Zenon, <1>e, <2>2, <2>4 DEF Kept
<1>1. CASE CancelBatch
  <2>1. /\ job.status = "queued" => ~job.task
        /\ ~job.cancel /\ job.status \notin TerminalStatuses
    BY <1>1 DEF CancelBatch, ContractInv, CreatedJob, IsTerminalJobStatus
  <2>2. /\ job'.cancel
        /\ job'.status = IF job.status = "queued" THEN "cancelled" ELSE job.status
        /\ job'.txn = job.txn /\ job'.comp = job.comp /\ job'.manual = job.manual
    BY Zenon, <1>1, <1>s, <2>1 DEF CancelBatch, Jobs
  <2>3. Allowed(job, job')
    BY Zenon, <1>s, <2>1, <2>2, CancelledRow
  <2>4. job'.comp = "pending" /\ job'.manual => job'.txn
    BY Zenon, <2>2, Zenon DEF ContractInv
  <2>5. QED
    BY <1>1, <1>e, <2>2, <2>3, <2>4 DEF CancelBatch
<1>2. CASE ManualFinalize
  <2>1. /\ job'.status = job.status /\ job'.cancel = job.cancel /\ job'.txn = job.txn
        /\ job'.comp = "manual_final" /\ job.comp = "pending"
    BY Zenon, <1>2, <1>s DEF ManualFinalize, Jobs
  <2>2. job.txn /\ job.status # "queued"
    BY Zenon, <1>2 DEF ManualFinalize, ContractInv, SettlementInv, BooksAgree
  <2>3. job'.txn
    BY Zenon, <2>1, <2>2, Zenon
  <2>4. Allowed(job, job')
    BY Zenon, <1>s, <2>1, <2>2, <2>3, SettledRow DEF Open
  <2>5. QED
    BY ZenonT(60), <1>2, <1>e, <2>1, <2>2, <2>4 DEF ManualFinalize
<1>3. CASE EditStoryboard \/ ProviderProgress \/ DeadLetter
  <2>1. UNCHANGED <<job, lease, actor>>
    BY Zenon, <1>3 DEF EditStoryboard, ProviderProgress, DeadLetter
  <2>2. QED
    BY Zenon, <2>1, SameRow DEF Kept, ContractInv, LeaseInv, Claimed, RefundJustified
<1>4. CASE LeaseExpires
  <2>1. UNCHANGED <<job, actor>>
    BY Zenon, <1>4 DEF LeaseExpires
  <2>2. ASSUME LeaseInv
        PROVE  LeaseInv'
    <3>1. \A w \in Workers : ~Claimed(w)
      BY <1>4, <2>2 DEF LeaseExpires, LeaseInv, LeaseOf, Claimed, ClaimedAt, ClaimedPcs,
                        FinalizationPcs
    <3>2. QED
      BY Zenon, <2>1, <2>2, <3>1 DEF LeaseInv, Claimed
  <2>3. QED
    BY ZenonT(60), <2>1, <2>2, SameRow DEF Kept, ContractInv, RefundJustified
<1>5. ASSUME NEW p \in Actors, Abandon(p)
      PROVE  Kept
  <2>1. CASE p \in Workers
    BY Zenon, <1>5, <2>1, ReturnKept DEF Abandon
  <2>2. CASE p \in Compensators
    <3>1. /\ UNCHANGED <<job, lease>> /\ actor'[p] = Idle
          /\ \A q \in Actors \ {p} : actor'[q] = actor[q]
      BY Zenon, <1>5 DEF Abandon, Return, TypeOK
    <3>2. RefundJustified(actor[p])'
      BY <3>1 DEF RefundJustified, Idle
    <3>3. QED
      BY ZenonT(60), <2>2, <3>1, <3>2, CompensatorMoveKept
  <2>3. QED
    BY Zenon, <2>1, <2>2 DEF Actors
<1>6. QED
  BY Zenon, <1>1, <1>2, <1>3, <1>4, <1>5 DEF Environment

(* A lease that lapses under its owner leaves the row as it is. *)
LEMMA LapseKept ==
  ASSUME ContractInv, LeaseLapses
  PROVE  ContractInv' /\ Allowed(job, job') /\ "lease" \in Faults
BY Zenon, SameRow DEF LeaseLapses, ContractInv, RefundJustified

(* Every step of the job. *)
LEMMA NextKept ==
  ASSUME TypeOK, TypeOK', SettlementInv, ContractInv, [Next]_vars
  PROVE  /\ ContractInv'
         /\ LateWrites \/ LeaseInv => Allowed(job, job')
         /\ "lease" \notin Faults /\ LeaseInv => LeaseInv'
<1>1. CASE UNCHANGED vars
  BY Zenon, <1>1, SameRow DEF vars, ContractInv, LeaseInv, Claimed, RefundJustified
<1>2. CASE LeaseLapses
  BY Zenon, <1>2, LapseKept
<1>3. CASE Next /\ ~LeaseLapses
  <2>1. Kept
    BY Zenon, <1>3, WorkerKept, FinalizeKept, CompensatorKept, EnvironmentKept DEF Next, Fault
  <2>2. QED
    BY Zenon, <2>1 DEF Kept
<1>4. QED
  BY Zenon, <1>1, <1>2, <1>3

(* The invariants hold of a job that has just been created. *)
LEMMA InitKept ==
  ASSUME Init
  PROVE  ContractInv /\ LeaseInv
<1>1. \A p \in Actors : /\ actor[p].pc = "idle" /\ actor[p].arg = "none" /\ ~actor[p].fresh
  BY Zenon DEF Init, Idle
<1>2. \A w \in Workers : ~Claimed(w) /\ ~actor[w].fresh /\ actor[w].pc = "idle"
  BY Zenon, <1>1 DEF Actors, Claimed, ClaimedAt, ClaimedPcs, FinalizationPcs
<1>3. \A c \in Compensators : RefundJustified(actor[c])
  BY Zenon, <1>1 DEF Actors, RefundJustified
<1>4. job = CreatedJob /\ job.comp = "not_required"
  BY Zenon DEF Init, CreatedJob
<1>5. QED
  BY Zenon, <1>2, <1>3, <1>4 DEF ContractInv, LeaseInv

(* As long as leases are renewed in time, the worker that claimed the job is     *)
(* the only one whose copy of the row can be written, and no worker writes the   *)
(* row of a job that has ended (ClaimFinalization, RenewJobLease and the lease   *)
(* test of Process): LeaseInv.                                                   *)
THEOREM LeaseExcludes ==
  ASSUME "lease" \notin Faults
  PROVE  Spec => []LeaseInv
<1>1. Init => ContractInv /\ LeaseInv
  BY Zenon, InitKept
<1>2. TypeOK /\ TypeOK' /\ SettlementInv /\ ContractInv /\ LeaseInv /\ [Next]_vars
        => ContractInv' /\ LeaseInv'
  BY Zenon, NextKept
<1>3. QED
  BY <1>1, <1>2, Settlement, PTL DEF Spec

(* A job implements its contract: whatever workers, finalization, compensation, *)
(* the user and the operator do to the row, the fields the BatchBarrier reads    *)
(* change only as JobContract says (KeepsContract); the contract without late    *)
(* writes is kept when no lease lapses under its owner.                          *)
THEOREM ContractIsKept ==
  ASSUME LateWrites \/ "lease" \notin Faults
  PROVE  Spec => KeepsContract
<1> DEFINE Held == "lease" \notin Faults => LeaseInv
<1>1. Init => ContractInv /\ Held /\ Contract!Init
  <2>1. ASSUME Init
        PROVE  ViewOf(job) = Contract!CreatedView
    BY Zenon, <2>1 DEF Init, CreatedJob, ViewOf, Contract!CreatedView, TerminalStatuses
  <2>2. QED
    BY Zenon, <2>1, InitKept DEF Contract!Init
<1>2. TypeOK /\ TypeOK' /\ SettlementInv /\ ContractInv /\ Held /\ [Next]_vars
        => ContractInv' /\ Held' /\ [Contract!Next]_(ViewOf(job))
  BY Zenon, NextKept, AllowedStep
<1> HIDE DEF Held
<1>3. QED
  BY <1>1, <1>2, Settlement, PTL DEF Spec, KeepsContract, Contract!Spec
============================================================================
