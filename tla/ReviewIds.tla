------------------------------ MODULE ReviewIds ------------------------------
(***************************************************************************)
(* What reviews and the things they review are called.  An approval names  *)
(* a revision by its number, or a candidate.                               *)
(***************************************************************************)
EXTENDS Naturals, Sequences

CONSTANTS
  None,
  Approvals,   \* approval ids, <<kind, number>>
  BatchKeys,   \* idempotency keys of candidate batch requests
  Candidates,  \* candidate bindings, numbers
  Requests,    \* planning requests (idempotency keys)
  Exports,     \* keys of export result revisions
  Analyses     \* keys of material analysis revisions

Reviewable == Approvals \cup ({"cand"} \X Candidates)
CommandKeys == Reviewable \X {"approved", "rejected", "stale", "cleanup", "commit", "edit"}

(* The ids of planning requests and of storyboard commands differ in their *)
(* prefixes.                                                               *)
ASSUME IdentityAssumption ==
  /\ Approvals \subseteq ({"spec", "plan", "export"} \X (Nat \ {0})) \cup ({"cand"} \X Candidates)
  /\ Requests \cap CommandKeys = {}

AtMostOne(S) == \A x, y \in S : x = y
=============================================================================
