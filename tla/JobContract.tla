---------------------------- MODULE JobContract ----------------------------
(***************************************************************************)
(* What a GenerationJob promises to the rest of the workflow: the few       *)
(* fields of its row the BatchBarrier reads, and the ways they may change.  *)
(* GenerationJobContract shows that workers, finalization and compensation  *)
(* keep the promise; GenerationBatch builds on it.                          *)
(***************************************************************************)
EXTENDS Integers

CONSTANT
  LateWrites   \* a worker that outlived its lease may still write the row

ASSUME ContractAssumption == LateWrites \in BOOLEAN

Ended == {"succeeded", "failed", "cancelled"}

(* status: queued, some other status that is not terminal, or the terminal     *)
(* one; txn: BillingTransactionID is set; comp: no compensation, one that is   *)
(* pending/running/retry_wait, or one that is completed/manual_final.          *)
Views == [status : {"queued", "active"} \cup Ended, cancel : BOOLEAN,
          txn : BOOLEAN, comp : {"none", "open", "settled"}]

CreatedView == [status |-> "queued", cancel |-> FALSE, txn |-> FALSE, comp |-> "none"]

(* The user asks for cancellation; a queued job is cancelled on the spot. *)
CancelRequested(v) ==
  [v EXCEPT !.cancel = TRUE, !.status = IF v.status = "queued" THEN "cancelled" ELSE v.status]

(* A worker claims a queued job. *)
Started(v) == {k \in {[v EXCEPT !.status = "active"]} : v.status = "queued"}

(* A charge is recorded: while the job is running, or by a late worker. *)
Charged(v) ==
  {k \in {[v EXCEPT !.txn = TRUE]} : v.status = "active" \/ (LateWrites /\ v.status \in Ended)}

(* The job ends; a failure may leave a compensation to be done. *)
Finished(v) ==
  {k \in {[v EXCEPT !.status = "succeeded"]}
         \cup {[v EXCEPT !.status = "failed", !.comp = c] : c \in {"none", "open"}}
         \cup {[v EXCEPT !.status = "cancelled", !.comp = c] : c \in {"none", "open"}} :
     v.status = "active"}

(* The compensation of a recorded charge completes or is settled manually. *)
Settled(v) ==
  {k \in {[v EXCEPT !.comp = "settled"]} : v.comp = "open" /\ v.txn}

(* A late worker ends the job once more. *)
EndedAgain(v) ==
  {k \in {[v EXCEPT !.comp = c] : c \in {"none", "open"}} :
     LateWrites /\ v.status \in {"failed", "cancelled"}}
=============================================================================
