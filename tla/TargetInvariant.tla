-------------------------- MODULE TargetInvariant ---------------------------
(***************************************************************************)
(* The types of what is reviewed (ReviewTargets), the invariant it keeps,  *)
(* and what "forward" means for it: no review opens again, no trace of a   *)
(* command is lost.                                                        *)
(***************************************************************************)
EXTENDS ReviewTargets

SpecRows == [key : Requests \cup {None}, status : {"reviewing", "confirmed", "superseded", "rejected"}]
PlanRows == [key : Requests \cup {None}, spec : Nat \ {0}, status : {"reviewing", "active", "superseded", "rejected"}]
RevisionRows == [key : Exports \cup Analyses, kind : {"export", "analysis"},
                 status : {"reviewing", "active", "superseded", "rejected"}]
CandidateStates == {"none", "running", "candidate", "active", "superseded", "rejected"}

Boards == [plans : Seq(PlanRows), pending : Nat, active : Nat, applied : SUBSET (Requests \cup CommandKeys),
           version : Nat, cand : [Candidates -> CandidateStates]]
Artifacts == [revs : Seq(RevisionRows), receipts : SUBSET CommandKeys]
Targets == [specs : Seq(SpecRows), arts : Artifacts, board : Boards]

SpecsInv(s) ==
  /\ AtMostOne(Specs!VersionsIn(s, "reviewing"))
  /\ AtMostOne(Specs!VersionsIn(s, "confirmed"))
  /\ \A q \in Requests : AtMostOne(Specs!KeyRow(s, q))

(* A plan was made for a spec that was confirmed then. *)
WasConfirmed(s, v) == v \in DOMAIN s /\ s[v].status \in {"confirmed", "superseded"}

BoardInv(b, s) ==
  /\ b.pending \in 0 .. Len(b.plans)
  /\ b.active \in 0 .. Len(b.plans)
  /\ \A i \in DOMAIN b.plans :
       /\ b.plans[i].status = "reviewing" <=> i = b.pending
       /\ b.plans[i].status = "active" => i = b.active
       /\ WasConfirmed(s, b.plans[i].spec)
  /\ \A q \in Requests \cap b.applied : \E i \in DOMAIN b.plans : b.plans[i].key = q

ActiveExports(a) == {i \in Arts!OfKind(a, "export") : a.revs[i].status = "active"}

TargetInv(u) ==
  /\ SpecsInv(u.specs)
  /\ BoardInv(u.board, u.specs)
  /\ AtMostOne(ActiveExports(u.arts))

(* The target of a review is there. *)
Exists(u, a) ==
  \/ a[1] = "spec" /\ a[2] \in DOMAIN u.specs
  \/ a[1] = "plan" /\ a[2] \in DOMAIN u.board.plans
  \/ a[1] = "cand" /\ u.board.cand[a[2]] \notin {"none", "running"}
  \/ a[1] = "export" /\ a[2] \in Arts!OfKind(u.arts, "export")

(* The review of a spec, plan or candidate is over.  (A superseded export  *)
(* result stays in review.)                                                *)
Closed(u, a) ==
  /\ a[1] = "spec" => u.specs[a[2]].status # "reviewing"
  /\ a[1] = "plan" => u.board.plans[a[2]].status # "reviewing"
  /\ a[1] = "cand" => u.board.cand[a[2]] # "candidate"

(* The trace of the command of an approval with this status *)
Traced(u, a, status) ==
  /\ a[1] = "spec" => u.specs[a[2]].status # "reviewing"
  /\ a[1] \in {"plan", "cand"} => CommandKey(a, status) \in u.board.applied
  /\ a[1] = "export" => CommandKey(a, status) \in u.arts.receipts

(* The target has what only an approval gives. *)
InEffect(u, a) ==
  \/ a[1] = "spec" /\ a[2] \in DOMAIN u.specs /\ u.specs[a[2]].status = "confirmed"
  \/ a[1] = "plan" /\ a[2] \in DOMAIN u.board.plans /\ u.board.plans[a[2]].status = "active"
  \/ a[1] = "cand" /\ u.board.cand[a[2]] = "active"
  \/ a[1] = "export" /\ a[2] \in ActiveExports(u.arts)

(* What is reviewed only moves forward. *)
Forward(u, w) ==
  /\ \A v \in DOMAIN u.specs : v \in DOMAIN w.specs
  /\ \A v \in DOMAIN u.specs : WasConfirmed(u.specs, v) => WasConfirmed(w.specs, v)
  /\ \A i \in DOMAIN u.board.plans : i \in DOMAIN w.board.plans
  /\ \A a \in Approvals : Exists(u, a) =>
       /\ Exists(w, a)
       /\ Closed(u, a) => Closed(w, a)
       /\ a[1] # "export" /\ ~Matches(u, a) => ~Matches(w, a)
       /\ \A status \in {"approved", "rejected", "stale"} : Traced(u, a, status) => Traced(w, a, status)

(* One step of what is reviewed: forward, and news for the approvals in S  *)
(* only                                                                    *)
Statuses == {"approved", "rejected", "stale"}

NothingNew(u, w, x) ==
  /\ InEffect(w, x) => InEffect(u, x)
  /\ \A status \in Statuses : x[1] \in {"plan", "cand"} /\ CommandKey(x, status) \in w.board.applied
                                => CommandKey(x, status) \in u.board.applied
  /\ x[1] = "cand" /\ w.board.cand[x[2]] = "candidate" => u.board.cand[x[2]] = "candidate"

Moves(u, w, S) ==
  w \in Targets /\ TargetInv(w) /\ Forward(u, w) /\ \A x \in Approvals \ S : NothingNew(u, w, x)
=============================================================================
