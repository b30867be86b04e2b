-------------------------- MODULE ContinuationStore --------------------------
(***************************************************************************)
(* The continuation of a decision as the session runtime store moves it    *)
(* (internal/aigc/sessionruntime): claimed under a lease, applied once,    *)
(* failed and claimed again.  The memory store and the Postgres store are  *)
(* both given; in Postgres the row is the one the decision created.        *)
(***************************************************************************)
(* A claim names the executor and the epoch its caller read. *)
Fits(c, read) == c.exec = read.exec /\ c.epoch = read.epoch

-----------------------------------------------------------------------------
(* The memory store *)

(* Mutant: a claim another owner holds is taken for an applied one. *)
ClaimedIsApplied(c, read) ==
  IF ~Fits(c, read) THEN "fenced"
  ELSE IF c.status = "applied" \/ (c.status = "claimed" /\ c.live) THEN "applied" ELSE "claimed"

ClaimOutcome(c, read) ==
  CASE ~Fits(c, read) -> "fenced"
    [] Fits(c, read) /\ c.status = "applied" -> "applied"
    [] Fits(c, read) /\ c.status = "claimed" /\ c.live -> "busy"
    [] OTHER -> "claimed"

ClaimContinuation(c, read, p) ==
  IF ClaimOutcome(c, read) = "claimed"
  THEN [c EXCEPT !.status = "claimed", !.owner = p, !.live = TRUE] ELSE c

(* validateContinuationLeaseLocked *)
HoldsClaim(c, read, p) == Fits(c, read) /\ c.status = "claimed" /\ c.owner = p /\ c.live

ApplyContinuation(c, read, p) ==
  IF HoldsClaim(c, read, p) THEN [c EXCEPT !.status = "applied", !.live = FALSE] ELSE c

FailContinuation(c, read, p) ==
  IF HoldsClaim(c, read, p) THEN [c EXCEPT !.status = "failed", !.live = FALSE] ELSE c

-----------------------------------------------------------------------------
(* The Postgres store *)

ClaimContinuationPostgres(c, read, p) ==
  IF c.exec = read.exec /\ c.epoch = read.epoch /\ c.status # "applied"
     /\ (c.status = "claimed" => ~c.live)
  THEN [status |-> "claimed", exec |-> c.exec, epoch |-> c.epoch, owner |-> p, live |-> TRUE]
  ELSE c

(* Mutant: the owner may finish after its lease has ended. *)
FinishLapsed(c, read, p, status) ==
  IF c.exec = read.exec /\ c.epoch = read.epoch /\ c.status = "claimed" /\ c.owner = p
  THEN [c EXCEPT !.status = status, !.live = FALSE] ELSE c

(* finishContinuation: an applied row is returned as it is, a stale claim  *)
(* is refused.                                                             *)
FinishContinuation(c, read, p, status) ==
  IF c.status # "applied" /\ c.exec = read.exec /\ c.epoch = read.epoch
     /\ c.status = "claimed" /\ c.owner = p /\ c.live
  THEN [c EXCEPT !.status = status, !.live = FALSE] ELSE c

ApplyContinuationPostgres(c, read, p) == FinishContinuation(c, read, p, "applied")
FailContinuationPostgres(c, read, p) == FinishContinuation(c, read, p, "failed")

=============================================================================
