---------------------------- MODULE MCStoryboard ----------------------------
(* A small storyboard for TLC: two elements, the second depends on the first. *)
EXTENDS StoryboardService, TLC

CONSTANTS e1, e2, e3, k1, k2, k3

Plan(els, deps) == [scenario |-> "s", els |-> els, deps |-> deps]
Shot(id, content, required) ==
  [id |-> id, title |-> "t", content |-> content, meta |-> "m", text |-> "p", required |-> required]

MCElements == {e1, e2, e3}
MCKeys == {k1, k2, k3}

(* The second plan calls the first element by another id, gives the id of    *)
(* the second to a new key, and does not require the first's asset.          *)
MCPlans ==
  {Plan(k1 :> Shot(e1, "c", TRUE) @@ k2 :> Shot(e2, "c", TRUE), <<<<k1, k2, FALSE>>>>),
   Plan(k1 :> Shot(e3, "c", FALSE) @@ k3 :> Shot(e2, "c", TRUE), <<<<k1, k3, FALSE>>>>)}

MCSymmetry == Permutations(Jobs) \cup Permutations(Requests)

=============================================================================
