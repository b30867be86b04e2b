----------------------- MODULE GenerationBatchProofs -----------------------
(***************************************************************************)
(* What GenerationBatch guarantees for every set of jobs, price, completion *)
(* policy and interleaving.                                                 *)
(***************************************************************************)
EXTENDS GenerationBatch, FiniteSetTheorems, TLAPS

(* The types the argument needs: cost and outbox stay uninterpreted. *)
BatchTypes ==
  /\ job \in [Jobs -> Views]
  /\ plan \in Plans
  /\ plan.policy = "all_required" => plan.required # {}
  /\ batch = [status |-> batch.status, cancel |-> batch.cancel, cost |-> batch.cost]
  /\ batch.status \in BatchStatuses
  /\ batch.cancel \in BOOLEAN

(* A terminal batch has no unfinished job; its status therefore stays honest,  *)
(* and its signal, being written with it, stays in agreement.                  *)
BatchInv ==
  /\ BatchTypes
  /\ batch.status \in TerminalBatchStatuses => ~Unfinished
  /\ batch.status = "cancelling" <=> batch.cancel /\ batch.status \notin TerminalBatchStatuses
  /\ OutcomeIsHonest
  /\ SignalAgrees

(* How a job's view may move: it stays a view, and an ended job keeps its      *)
(* status and its cancellation flag.                                           *)
JobMove(v, k) ==
  /\ k \in Views
  /\ v.status \in Ended => k.status = v.status

(* A job moves as its contract allows. *)
LEMMA ViewMoves ==
  ASSUME NEW v \in Views
  PROVE  /\ \A k \in Started(v) \cup Charged(v) \cup Finished(v) \cup EndedAgain(v)
                       \cup Settled(v) : JobMove(v, k)
         /\ v.status \notin Ended => JobMove(v, CancelRequested(v))
  <1>1. \A k \in Started(v) : JobMove(v, k)
    BY Zenon DEF Views, Ended, Started, JobMove
  <1>2. \A k \in Charged(v) : JobMove(v, k)
    BY Zenon DEF Views, Ended, Charged, JobMove
  <1>3. \A k \in Finished(v) : JobMove(v, k)
    <2> SUFFICES ASSUME NEW k \in Finished(v) PROVE JobMove(v, k)
      BY Zenon
    <2>1. v.status = "active"
      BY Zenon DEF Finished
    <2>2. CASE k = [v EXCEPT !.status = "succeeded"]
      BY Zenon, <2>1, <2>2 DEF Views, Ended, JobMove
    <2>3. CASE k # [v EXCEPT !.status = "succeeded"]
      <3>1. PICK s \in {"failed", "cancelled"}, c \in {"none", "open"} :
              k = [v EXCEPT !.status = s, !.comp = c]
        BY Zenon, <2>3 DEF Finished
      <3> QED
        BY Zenon, <2>1, <3>1 DEF Views, Ended, JobMove
    <2> QED
      BY Zenon, <2>2, <2>3
  <1>4. \A k \in EndedAgain(v) : JobMove(v, k)
    BY Zenon DEF Views, Ended, EndedAgain, JobMove
  <1>5. \A k \in Settled(v) : JobMove(v, k)
    BY Zenon DEF Views, Ended, Settled, JobMove
  <1>6. v.status \notin Ended => JobMove(v, CancelRequested(v))
    BY Zenon DEF Views, Ended, CancelRequested, JobMove
  <1> QED
    BY Zenon, <1>1, <1>2, <1>3, <1>4, <1>5, <1>6

(* A step of the jobs alone preserves the invariant. *)
LEMMA JobsMove ==
  ASSUME BatchInv,
         job' \in [Jobs -> Views],
         \A i \in Jobs : job[i].status \in Ended => job'[i].status = job[i].status,
         UNCHANGED <<plan, batch, operation, signal>>
  PROVE  BatchInv'
  <1>1. BatchTypes'
    BY Zenon DEF BatchInv, BatchTypes
  <1>2. (batch.status \in TerminalBatchStatuses => ~Unfinished)'
    BY Zenon DEF BatchInv, Unfinished
  <1>3. batch.status \in TerminalBatchStatuses => Succeeded' = Succeeded
    BY Zenon DEF BatchInv, Unfinished, Succeeded, Ended
  <1>4. OutcomeIsHonest'
    BY Zenon, <1>3 DEF BatchInv, OutcomeIsHonest, TerminalBatchStatuses
  <1>5. SignalAgrees'
    BY Zenon DEF BatchInv, SignalAgrees
  <1> QED
    BY Zenon, <1>1, <1>2, <1>4, <1>5 DEF BatchInv

(* What evaluateCompletionPolicy and the cancellation rule decide. *)
LEMMA OutcomeFacts ==
  ASSUME BatchTypes
  PROVE  /\ Outcome \in TerminalBatchStatuses
         /\ Outcome = "cancelled" => batch.cancel /\ Succeeded = {}
         /\ Outcome = "partial_failed" => Succeeded # {} /\ Succeeded # Jobs
         /\ Outcome = "failed" => ~batch.cancel
         /\ Outcome = "completed" =>
              /\ Succeeded # {}
              /\ plan.policy = "all_required" => plan.required \subseteq Succeeded
              /\ plan.policy = "allow_partial" => Succeeded = Jobs
  <1>1. Jobs # {} /\ plan.policy \in Policies /\ plan.min \in Nat /\ plan.required \subseteq Jobs
    <2>1. Cardinality(Jobs) \in Nat
      BY Zenon, BatchAssumption, FS_CardinalityType
    <2> QED
      BY <2>1, BatchAssumption DEF BatchTypes, Plans
  <1>2. Succeeded = {} => Cardinality(Succeeded) = 0
    BY Zenon, FS_EmptySet
  <1>3. CASE batch.cancel
    BY Zenon, <1>1, <1>3 DEF Outcome, TerminalBatchStatuses, Succeeded
  <1>4. CASE ~batch.cancel
    <2>1. Outcome = evaluateCompletionPolicy
      BY Zenon, <1>4 DEF Outcome
    <2>2. CASE plan.policy = "allow_partial"
      BY Zenon, <1>1, <1>4, <2>1, <2>2 DEF evaluateCompletionPolicy, TerminalBatchStatuses
    <2>3. CASE plan.policy = "min_success"
      BY <1>1, <1>2, <1>4, <2>1, <2>3 DEF evaluateCompletionPolicy, TerminalBatchStatuses
    <2>4. CASE plan.policy = "all_required"
      BY Zenon, <1>1, <1>4, <2>1, <2>4 DEF evaluateCompletionPolicy, TerminalBatchStatuses, BatchTypes
    <2> QED
      BY Zenon, <1>1, <2>2, <2>3, <2>4 DEF Policies
  <1> QED
    BY Zenon, <1>3, <1>4 DEF BatchTypes

(* The barrier's two transactions preserve the invariant. *)
LEMMA BarrierStep ==
  ASSUME BatchInv, Hold \/ Close, UNCHANGED <<job, plan>>
  PROVE  BatchInv'
  <1>1. CASE Hold
    <2>1. /\ batch'.status \in {"cancelling", "finalizing", batch.status}
          /\ batch'.status \notin TerminalBatchStatuses
          /\ batch'.status = "cancelling" <=> batch.cancel
          /\ batch'.cancel = batch.cancel
          /\ batch' = [status |-> batch'.status, cancel |-> batch'.cancel, cost |-> batch'.cost]
      BY Zenon, <1>1 DEF Hold, BatchInv, BatchTypes, TerminalBatchStatuses
    <2>2. UNCHANGED <<operation, signal>> /\ batch.status \notin TerminalBatchStatuses
      BY Zenon, <1>1 DEF Hold
    <2>3. BatchTypes'
      BY Zenon, <2>1 DEF BatchInv, BatchTypes, BatchStatuses
    <2>4. OutcomeIsHonest' /\ SignalAgrees'
      BY Zenon, <2>1, <2>2 DEF BatchInv, OutcomeIsHonest, SignalAgrees, TerminalBatchStatuses
    <2> QED
      BY Zenon, <2>1, <2>3, <2>4 DEF BatchInv
  <1>2. CASE Close
    <2>1. /\ batch'.status = Outcome
          /\ batch'.cancel = batch.cancel
          /\ batch' = [status |-> batch'.status, cancel |-> batch'.cancel, cost |-> batch'.cost]
          /\ operation' = Outcome
          /\ signal' = [status |-> batch'.status, cost |-> batch'.cost]
          /\ ~Unfinished
      BY Zenon, <1>2 DEF Close, BatchInv, BatchTypes, operationStatusForBatch
    <2>2. Succeeded' = Succeeded /\ Unfinished' = Unfinished
      BY Zenon DEF Succeeded, Unfinished
    <2>3. BatchTypes'
      BY Zenon, <2>1, OutcomeFacts DEF BatchInv, BatchTypes, BatchStatuses
    <2>4. OutcomeIsHonest'
      BY Zenon, <2>1, <2>2, OutcomeFacts DEF BatchInv, OutcomeIsHonest
    <2>5. SignalAgrees'
      BY Zenon, <2>1, OutcomeFacts DEF BatchInv, SignalAgrees
    <2> QED
      BY Zenon, <2>1, <2>2, <2>3, <2>4, <2>5, OutcomeFacts DEF BatchInv, TerminalBatchStatuses
  <1> QED
    BY Zenon, <1>1, <1>2

(* The initial states of a batch *)
LEMMA InitBatch == Init => BatchInv /\ TerminalBatchIsSettled
  <1> SUFFICES ASSUME Init PROVE BatchInv /\ TerminalBatchIsSettled
    BY Zenon
  <1>1. CreatedView \in Views
    BY Zenon DEF CreatedView, Views, Ended
  <1>2. BatchTypes
    BY Zenon, <1>1 DEF Init, BatchTypes, BatchStatuses
  <1> QED
    BY Zenon, <1>2 DEF Init, BatchInv, TerminalBatchStatuses, OutcomeIsHonest, SignalAgrees,
                TerminalBatchIsSettled

(* Every step of a batch *)
LEMMA NextBatch == BatchInv /\ [Next]_vars => BatchInv'
  <1> SUFFICES ASSUME BatchInv, [Next]_vars PROVE BatchInv'
    BY Zenon
  <1>0. job \in [Jobs -> Views] /\ \A i \in Jobs : job[i] \in Views
    BY Zenon DEF BatchInv, BatchTypes
  <1>1. ASSUME NEW i \in Jobs, Work(i) PROVE BatchInv'
    <2>1. PICK v \in Started(job[i]) \cup Charged(job[i]) : job' = [job EXCEPT ![i] = v]
      BY Zenon, <1>1 DEF Work
    <2>2. JobMove(job[i], v)
      BY Zenon, <1>0, <2>1, ViewMoves
    <2> QED
      BY Zenon, <1>0, <1>1, <2>1, <2>2, JobsMove DEF Work, JobMove
  <1>2. ASSUME NEW i \in Jobs, End(i) PROVE BatchInv'
    <2>1. PICK v \in Finished(job[i]) \cup EndedAgain(job[i]) : job' = [job EXCEPT ![i] = v]
      BY Zenon, <1>2 DEF End
    <2>2. JobMove(job[i], v)
      BY Zenon, <1>0, <2>1, ViewMoves
    <2> QED
      BY Zenon, <1>0, <1>2, <2>1, <2>2, JobsMove DEF End, JobMove
  <1>3. ASSUME NEW i \in Jobs, Settle(i) PROVE BatchInv'
    <2>1. PICK v \in Settled(job[i]) : job' = [job EXCEPT ![i] = v]
      BY Zenon, <1>3 DEF Settle
    <2>2. JobMove(job[i], v)
      BY Zenon, <1>0, <2>1, ViewMoves
    <2> QED
      BY Zenon, <1>0, <1>3, <2>1, <2>2, JobsMove DEF Settle, JobMove
  <1>4. CASE CancelBatch
    <2>1. \A i \in Jobs : job'[i] \in Views
      BY Zenon, <1>0, <1>4, ViewMoves DEF CancelBatch, JobMove
    <2>2. job' \in [Jobs -> Views]
      BY Zenon, <1>4, <2>1 DEF CancelBatch
    <2>3. /\ batch.status \notin TerminalBatchStatuses
          /\ batch'.status = "cancelling" /\ batch'.cancel
          /\ batch' = [status |-> batch'.status, cancel |-> batch'.cancel, cost |-> batch'.cost]
          /\ UNCHANGED <<plan, operation, signal>>
      BY Zenon, <1>4 DEF CancelBatch, BatchInv, BatchTypes
    <2>4. BatchTypes'
      BY Zenon, <2>2, <2>3, <1>4 DEF CancelBatch, BatchInv, BatchTypes, BatchStatuses
    <2> QED
      BY Zenon, <2>3, <2>4 DEF BatchInv, TerminalBatchStatuses, OutcomeIsHonest, SignalAgrees
  <1>5. CASE TryFinalize
    BY Zenon, <1>5, BarrierStep DEF TryFinalize
  <1>6. ASSUME NEW row \in outbox.pending, Deliver(row) PROVE BatchInv'
    <2>1. CASE Hold \/ Close
      BY Zenon, <1>6, <2>1, BarrierStep DEF Deliver
    <2>2. CASE UNCHANGED <<batch, operation, signal>>
      BY Zenon, <1>0, <1>6, <2>2, JobsMove DEF Deliver
    <2> QED
      BY Zenon, <1>6, <2>1, <2>2 DEF Deliver
  <1>7. CASE UNCHANGED vars
    BY Zenon, <1>0, <1>7, JobsMove DEF vars
  <1> QED
    BY Zenon, <1>1, <1>2, <1>3, <1>4, <1>5, <1>6, <1>7 DEF Next

(* The inductive invariant of the batch holds in every reachable state. *)
THEOREM BatchInvariant == Spec => []BatchInv
  <1>1. BatchInv /\ [Next]_vars => BatchInv'
    BY Zenon, NextBatch
  <1> QED
    BY <1>1, InitBatch, PTL DEF Spec

(* TryFinalize is the only producer of a terminal event: in every state the    *)
(* signal, the operation and the batch agree, for any number of jobs.          *)
THEOREM SignalMatches == Spec => []SignalAgrees
  BY BatchInvariant, PTL DEF BatchInv

(* evaluateCompletionPolicy and the cancellation rule of TryFinalize: no batch *)
(* ever hides or invents a delivery, whatever late workers write to its jobs.  *)
THEOREM HonestOutcome == Spec => []OutcomeIsHonest
  BY BatchInvariant, PTL DEF BatchInv

(* TransactBatch on a terminal batch changes nothing: its status, cost and     *)
(* signal are final.                                                           *)
THEOREM FinalBatch == Spec => TerminalBatchIsFinal
  <1>1. ASSUME [Next]_vars, batch.status \in TerminalBatchStatuses
        PROVE  UNCHANGED <<batch, operation, signal>>
    BY Zenon, <1>1 DEF Next, vars, Work, End, Settle, CancelBatch, TryFinalize, Deliver, Hold, Close
  <1> QED
    BY <1>1, PTL DEF Spec, TerminalBatchIsFinal

(* A job whose books a late worker cannot touch any more: ended, without an    *)
(* outstanding refund, it stays so.                                            *)
LEMMA SettledStays ==
  ASSUME ~LateWrites, NEW v \in Views, v.status \in Ended, ~(v.txn /\ v.comp = "open")
  PROVE  /\ Started(v) = {} /\ Charged(v) = {} /\ Finished(v) = {} /\ EndedAgain(v) = {}
         /\ \A k \in Settled(v) : FALSE
  BY Zenon DEF Started, Charged, Finished, EndedAgain, Settled, Ended

(* "It waits for all jobs and all charged-job compensation settlements": as    *)
(* long as no worker writes after losing its lease, a terminal batch has no    *)
(* unfinished job and no outstanding refund, for any number of jobs.           *)
THEOREM BarrierWaits ==
  ASSUME ~LateWrites
  PROVE  Spec => []TerminalBatchIsSettled
  <1>1. ASSUME BatchInv, TerminalBatchIsSettled, [Next]_vars
        PROVE  TerminalBatchIsSettled'
    <2> USE <1>1
    <2>1. CASE batch.status \in TerminalBatchStatuses
      <3>1. \A i \in Jobs : /\ job[i] \in Views /\ job[i].status \in Ended
                            /\ ~(job[i].txn /\ job[i].comp = "open")
        BY Zenon, <2>1 DEF TerminalBatchIsSettled, Unfinished, Unsettled, BatchInv, BatchTypes
      <3>2. ASSUME NEW i \in Jobs PROVE ~Work(i) /\ ~End(i) /\ ~Settle(i)
        BY Zenon, <3>1, SettledStays DEF Work, End, Settle
      <3>3. job' = job
        BY Zenon, <2>1, <3>2 DEF Next, vars, CancelBatch, TryFinalize, Deliver
      <3> QED
        BY Zenon, <2>1, <3>3 DEF TerminalBatchIsSettled, Unfinished, Unsettled
    <2>2. CASE batch.status \notin TerminalBatchStatuses
      <3>1. CASE Close /\ job' = job
        BY Zenon, <3>1 DEF Close, TerminalBatchIsSettled, Unfinished, Unsettled
      <3>2. CASE Hold /\ job' = job
        BY Zenon, <2>2, <3>2 DEF Hold, BatchInv, BatchTypes, TerminalBatchIsSettled,
                          TerminalBatchStatuses
      <3>3. CASE UNCHANGED batch
        BY Zenon, <2>2, <3>3 DEF TerminalBatchIsSettled
      <3>4. CASE CancelBatch
        BY Zenon, <3>4 DEF CancelBatch, TerminalBatchIsSettled, TerminalBatchStatuses, BatchInv,
                    BatchTypes
      <3> QED
        BY Zenon, <2>2, <3>1, <3>2, <3>3, <3>4
           DEF Next, vars, Work, End, Settle, TryFinalize, Deliver
    <2> QED
      BY Zenon, <2>1, <2>2
  <1> QED
    BY <1>1, InitBatch, BatchInvariant, PTL DEF Spec
=============================================================================
