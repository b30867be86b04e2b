---------------------------- MODULE ReviewTargets ----------------------------
(***************************************************************************)
(* What is reviewed, and the commands a decision runs on it: creation spec *)
(* revisions, storyboard plan revisions, candidate assets of the active    *)
(* plan, and export results.  `t` holds the rows of one session:           *)
(*   t.specs  the spec revisions (SpecStore)                               *)
(*   t.arts   the artifact revisions and receipts (ArtifactStore)          *)
(*   t.board  the storyboard aggregate, seen as plans and candidates:      *)
(*            plans (key, spec version, status), the pending and the       *)
(*            active plan, the state of each candidate binding, the ids of *)
(*            applied commands, and the version every command advances     *)
(* The aggregate in full is StoryboardAggregate; here an edit that changes *)
(* the input of a candidate supersedes it.                                 *)
(***************************************************************************)
EXTENDS ReviewIds

Specs == INSTANCE SpecStore
Arts == INSTANCE ArtifactStore

NoTargets ==
  [specs |-> <<>>, arts |-> Arts!NoArtifacts,
   board |-> [plans |-> <<>>, pending |-> 0, active |-> 0, applied |-> {}, version |-> 1,
              cand |-> [n \in Candidates |-> "none"]]]

CommandKey(a, status) == <<a, status>>
CleanupKey(a) == <<a, "cleanup">>

OpenCandidates(b) == {n \in Candidates : b.cand[n] = "candidate"}

(* touchCommand *)
Touched(b, key) == [b EXCEPT !.applied = @ \cup {key}, !.version = @ + 1]

(* storyboardMatchesConfirmedSpec: a plan without a spec version fits any *)
MatchesConfirmed(t, i) ==
  i = 0 \/ (Specs!GetConfirmedPostgres(t.specs) # 0
              /\ t.board.plans[i].spec \in {0, Specs!GetConfirmedPostgres(t.specs)})

(* ResolveBinding: the approval's binding still names what is reviewed *)
Matches(t, a) ==
  CASE a[1] = "spec" -> t.specs[a[2]].status = "reviewing" /\ Specs!GetLatestReviewingPostgres(t.specs) = a[2]
    [] a[1] = "plan" -> t.board.pending = a[2] /\ MatchesConfirmed(t, a[2])
    [] a[1] = "cand" -> MatchesConfirmed(t, t.board.active) /\ t.board.cand[a[2]] = "candidate"
    [] a[1] = "export" -> t.arts.revs[a[2]].status = "reviewing" /\ Arts!LatestOf(t.arts, "export") = a[2]

(* Mutant: a target that is no longer open is taken for the command's own  *)
(* trace.                                                                  *)
HasRunIfClosed(t, a, status) == status # "stale" /\ a[1] = "cand" /\ t.board.cand[a[2]] # "candidate"

(* inspectAppliedCommand: the trace the command itself left *)
HasRun(t, a, status) ==
  CASE status = "stale" -> FALSE
    [] status # "stale" /\ a[1] = "spec" -> t.specs[a[2]].status = Specs!DecisionStatus(status = "approved")
    [] status # "stale" /\ a[1] \in {"plan", "cand"} -> CommandKey(a, status) \in t.board.applied
    [] status # "stale" /\ a[1] = "export" -> CommandKey(a, status) \in t.arts.receipts

-----------------------------------------------------------------------------
(* Storyboard commands *)

CreatePending(b, key, spec) ==
  Touched([b EXCEPT !.plans = Append(@, [key |-> key, spec |-> spec, status |-> "reviewing"]),
                    !.pending = Len(b.plans) + 1], key)

(* A plan under review holds no candidates, so its promotion supersedes    *)
(* every open one.                                                         *)
PromotePending(b, i, key) ==
  Touched([b EXCEPT !.plans = [j \in DOMAIN b.plans |->
                       [b.plans[j] EXCEPT !.status = IF j = i THEN "active" ELSE IF j = b.active THEN "superseded" ELSE @]],
                    !.pending = 0, !.active = i,
                    !.cand = [n \in Candidates |->
                       IF b.cand[n] = "candidate" THEN "superseded" ELSE b.cand[n]]], key)

RejectPending(b, i, key) ==
  Touched([b EXCEPT !.plans[i].status = "rejected", !.pending = 0], key)

RejectBinding(b, n, key) == Touched([b EXCEPT !.cand[n] = "rejected"], key)

(* Adoption changes the inputs of the slots that depend on it and so       *)
(* supersedes their candidates, `lost`.                                    *)
ActivateBinding(b, n, key, lost) ==
  Touched([b EXCEPT !.cand = [m \in Candidates |->
             IF m = n THEN "active" ELSE IF m \in lost THEN "superseded" ELSE b.cand[m]]], key)

(* Mutant: nothing is cleaned up. *)
CleanupNothing(t, a) == t

(* cleanupStaleArtifact *)
Cleanup(t, a) ==
  CASE a[1] = "plan" /\ t.board.pending = a[2] ->
         [t EXCEPT !.board = RejectPending(@, a[2], CleanupKey(a))]
    [] a[1] = "cand" /\ t.board.cand[a[2]] = "candidate" ->
         [t EXCEPT !.board = RejectBinding(@, a[2], CleanupKey(a))]
    [] OTHER -> t

(* executeCommand: "ok", "lost" (the export lost its compare-and-set), or   *)
(* "error"                                                                 *)
RunOutcome(t, a, status) ==
  LET approve == status = "approved"
  IN  CASE a[1] = "spec" -> IF Specs!DecideOutcome(t.specs, a[2], approve) = "error" THEN "error" ELSE "ok"
        [] a[1] = "plan" -> IF t.board.pending = a[2] THEN "ok" ELSE "error"
        [] a[1] = "cand" -> IF t.board.cand[a[2]] = "candidate" THEN "ok" ELSE "error"
        [] a[1] = "export" ->
             IF Arts!ReviewOutcome(t.arts, CommandKey(a, status), a[2]) = "lost" THEN "lost" ELSE "ok"

(* What executeCommand may leave; unchanged when it does not run. *)
Ran(t, a, status) ==
  LET approve == status = "approved"
      key == CommandKey(a, status)
  IN  IF RunOutcome(t, a, status) # "ok" THEN {t}
      ELSE CASE a[1] = "spec" -> {[t EXCEPT !.specs = Specs!DecideRevisionPostgres(@, a[2], approve)]}
             [] a[1] = "plan" /\ approve -> {[t EXCEPT !.board = PromotePending(@, a[2], key)]}
             [] a[1] = "plan" /\ ~approve -> {[t EXCEPT !.board = RejectPending(@, a[2], key)]}
             [] a[1] = "cand" /\ approve ->
                  {[t EXCEPT !.board = ActivateBinding(@, a[2], key, lost)] :
                     lost \in SUBSET (OpenCandidates(t.board) \ {a[2]})}
             [] a[1] = "cand" /\ ~approve -> {[t EXCEPT !.board = RejectBinding(@, a[2], key)]}
             [] a[1] = "export" -> {[t EXCEPT !.arts = Arts!ApplyReviewPostgres(@, key, a[2], approve)]}

-----------------------------------------------------------------------------
(* The two spec stores, on the same revisions *)
SpecsAgree(s) ==
  /\ \A q \in Requests : Specs!Save(s, q) = Specs!SavePostgres(s, q)
  /\ Specs!GetLatest(s) = Specs!GetLatestPostgres(s)
  /\ Specs!LatestReviewing(s) = Specs!GetLatestReviewingPostgres(s)
  /\ Specs!GetConfirmed(s) = Specs!GetConfirmedPostgres(s)
  /\ Specs!ReconcileReviewing(s) = s
  /\ \A v \in DOMAIN s, approve \in BOOLEAN :
       Specs!DecideRevision(s, v, approve) = Specs!DecideRevisionPostgres(s, v, approve)

(* The two artifact stores *)
ArtifactsAgree(x) ==
  /\ \A key \in Exports \cup Analyses, kind \in {"export", "analysis"} :
       Arts!CreateRevision(x, key, kind, "active") = Arts!CreateRevisionPostgres(x, key, kind, "active")
  /\ \A i \in DOMAIN x.revs, status \in {"approved", "rejected"} :
       LET key == CommandKey(<<"export", i>>, status)
       IN  Arts!ApplyReview(x, key, i, status = "approved")
             = Arts!ApplyReviewPostgres(x, key, i, status = "approved")
=============================================================================
