------------------------------- MODULE MCReview -------------------------------
(* ApprovalRuntime on small instances. *)
EXTENDS ApprovalRuntime, TLC
CONSTANTS s1, s2, p1, p2

KindOf == (s1 :> "spec") @@ (s2 :> "spec") @@ (p1 :> "plan") @@ (p2 :> "plan")
InstanceKind == [q \in Requests |-> KindOf[q]]

SpecPlanApprovals == {<<"spec", 1>>, <<"spec", 2>>, <<"plan", 1>>}
CandidateApprovals == {<<"cand", 1>>, <<"cand", 2>>}
ExportApprovals == {<<"export", 1>>, <<"export", 2>>}
=============================================================================
