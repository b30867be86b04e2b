----------------------- MODULE GenerationJobContract -----------------------
(***************************************************************************)
(* GenerationJob implements AbstractJob.                                    *)
(***************************************************************************)
EXTENDS GenerationJob

CONSTANT LateWrites

(* The fields of the row the barrier reads, as the contract sees them. *)
ViewOf(j) ==
  [status |-> IF j.status \in {"queued"} \cup TerminalStatuses THEN j.status ELSE "active",
   cancel |-> j.cancel,
   txn |-> j.txn,
   comp |-> CASE j.comp = "not_required" -> "none"
              [] j.comp \in {"pending", "running", "retry_wait"} -> "open"
              [] j.comp \in {"completed", "manual_final"} -> "settled"]

Contract == INSTANCE AbstractJob WITH view <- ViewOf(job)

(* Whatever workers, finalization, compensation and the user do to the row of *)
(* a job, the fields the BatchBarrier reads change only as JobContract says.  *)
KeepsContract == Contract!Spec
=============================================================================
