-------------------------- MODULE ReviewTargetProofs --------------------------
(***************************************************************************)
(* Lemmas about what is reviewed (ReviewTargets): what saving a revision,  *)
(* running the command of a decision and cleaning up after a superseded    *)
(* one preserve.  What is reviewed only moves forward (Forward): a closed  *)
(* review never opens again, what no longer matches its binding never      *)
(* matches again, the trace of a command is never lost.                    *)
(***************************************************************************)
EXTENDS TargetInvariant, TLAPS

-----------------------------------------------------------------------------
(* What is reviewed *)

(* An approval id names what is reviewed. *)
LEMMA ApprovalKinds ==
  ASSUME NEW a \in Approvals
  PROVE  /\ a[1] \in {"spec", "plan", "export", "cand"}
         /\ a[1] # "cand" => a[2] \in Nat \ {0}
         /\ a[1] = "cand" => a[2] \in Candidates
         /\ a = <<a[1], a[2]>>
  BY IdentityAssumption

(* What stays as it is has moved nothing, whatever is excepted. *)
LEMMA StandsStill ==
  ASSUME NEW u \in Targets, TargetInv(u), NEW S
  PROVE  Moves(u, u, S)
  <1>1. Forward(u, u)
    BY Zenon DEF Forward
  <1> QED BY Zenon, <1>1 DEF Moves, NothingNew

-----------------------------------------------------------------------------
(* The spec revisions *)

(* First finds the largest element of a set that has one. *)
LEMMA FirstIsLargest ==
  ASSUME NEW S \in SUBSET Nat, NEW m \in S, \A x \in S : x <= m
  PROVE  Specs!First(S) = m
  <1>1. \A x \in S : (\A y \in S : y <= x) <=> x = m
    OBVIOUS
  <1> QED BY Zenon, <1>1 DEF Specs!First

(* A set with one element at most has that one first. *)
LEMMA FirstOfOne ==
  ASSUME NEW S \in SUBSET (Nat \ {0}), AtMostOne(S)
  PROVE  /\ \A v \in S : Specs!First(S) = v
         /\ S = {} => Specs!First(S) = 0
         /\ Specs!First(S) # 0 => Specs!First(S) \in S
  <1>1. \A v \in S : Specs!First(S) = v
    BY FirstIsLargest DEF AtMostOne
  <1> QED BY Zenon, <1>1 DEF Specs!First

(* The latest spec is the last row. *)
LEMMA LatestIsLast ==
  ASSUME NEW s \in Seq(SpecRows)
  PROVE  Specs!GetLatestPostgres(s) = Len(s)
  <1>1. DOMAIN s = 1 .. Len(s) /\ Len(s) \in Nat
    OBVIOUS
  <1>2. CASE Len(s) = 0
    BY <1>1, <1>2 DEF Specs!GetLatestPostgres, Specs!First
  <1>3. CASE Len(s) # 0
    <2>1. Specs!First(1 .. Len(s)) = Len(s)
      BY <1>1, <1>3, FirstIsLargest
    <2> QED BY Zenon, <1>1, <2>1 DEF Specs!GetLatestPostgres
  <1> QED BY Zenon, <1>2, <1>3

(* The queries of the Postgres store find the one row there is. *)
LEMMA TheOneRow ==
  ASSUME NEW s \in Seq(SpecRows), SpecsInv(s)
  PROVE  /\ \A v \in DOMAIN s : s[v].status = "reviewing" => Specs!GetLatestReviewingPostgres(s) = v
         /\ \A v \in DOMAIN s : s[v].status = "confirmed" <=> Specs!GetConfirmedPostgres(s) = v
         /\ Specs!GetConfirmedPostgres(s) # 0 => Specs!GetConfirmedPostgres(s) \in DOMAIN s
  <1>1. DOMAIN s \subseteq Nat \ {0}
    OBVIOUS
  <1> DEFINE R == Specs!VersionsIn(s, "reviewing")
             C == Specs!VersionsIn(s, "confirmed")
  <1>2. R \subseteq DOMAIN s /\ C \subseteq DOMAIN s /\ AtMostOne(R) /\ AtMostOne(C)
    BY Zenon DEF SpecsInv, Specs!VersionsIn
  <1>3. /\ Specs!GetLatestReviewingPostgres(s) = Specs!First(R)
        /\ Specs!GetConfirmedPostgres(s) = Specs!First(C)
    BY Zenon DEF Specs!GetLatestReviewingPostgres, Specs!GetConfirmedPostgres, Specs!VersionsIn
  <1>4. /\ \A v \in DOMAIN s : v \in R <=> s[v].status = "reviewing"
        /\ \A v \in DOMAIN s : v \in C <=> s[v].status = "confirmed"
    BY Zenon DEF Specs!VersionsIn
  <1> HIDE DEF R, C
  <1>5. /\ \A v \in R : Specs!First(R) = v
        /\ \A v \in C : Specs!First(C) = v
        /\ Specs!First(C) # 0 => Specs!First(C) \in C
    BY Zenon, <1>1, <1>2, FirstOfOne
  <1> QED BY Zenon, <1>1, <1>2, <1>3, <1>4, <1>5

(* The key of a request finds the revision it made. *)
LEMMA TheKeyRow ==
  ASSUME NEW s \in Seq(SpecRows), SpecsInv(s), NEW q \in Requests, Specs!KeyRow(s, q) # {}
  PROVE  Specs!First(Specs!KeyRow(s, q)) \in Specs!KeyRow(s, q)
  <1>1. Specs!KeyRow(s, q) \subseteq Nat \ {0}
    BY DEF Specs!KeyRow
  <1> QED BY Zenon, <1>1, FirstOfOne DEF SpecsInv

(* No status of a spec revision is taken back. *)
SpecsForward(s, w) ==
  /\ Len(s) <= Len(w)
  /\ \A v \in DOMAIN s :
       /\ s[v].status # "reviewing" => w[v].status # "reviewing"
       /\ s[v].status = "confirmed" => w[v].status \in {"confirmed", "superseded"}
       /\ s[v].status = "superseded" => w[v].status = "superseded"

(* Save: a new revision supersedes the one under review. *)
LEMMA SavedSpecs ==
  ASSUME NEW s \in Seq(SpecRows), SpecsInv(s), NEW q \in Requests
  PROVE  LET w == Specs!SavePostgres(s, q)
         IN  /\ w \in Seq(SpecRows) /\ SpecsInv(w) /\ SpecsForward(s, w)
             /\ \A v \in DOMAIN w : w[v].status = "confirmed" => v \in DOMAIN s /\ s[v].status = "confirmed"
             /\ Specs!SavedVersion(s, q) \in DOMAIN w
  <1> DEFINE w == Specs!SavePostgres(s, q)
             n == Len(s)
  <1>0. DOMAIN s = 1 .. n /\ n \in Nat /\ \A v \in DOMAIN s : s[v] \in SpecRows
    OBVIOUS
  <1>1. CASE Specs!KeyRow(s, q) # {}
    <2>1. w = s
      BY Zenon, <1>1 DEF Specs!SavePostgres
    <2>2. Specs!SavedVersion(s, q) \in DOMAIN s
      BY Zenon, <1>1, TheKeyRow DEF Specs!SavedVersion, Specs!KeyRow
    <2> QED BY <1>0, <2>1, <2>2 DEF SpecsForward
  <1>2. CASE Specs!KeyRow(s, q) = {}
    <2>1. Specs!NextVersion(s) = n + 1
      BY Zenon, LatestIsLast DEF Specs!NextVersion, Specs!GetLatestPostgres
    <2>2. w = [v \in 1 .. n + 1 |-> IF v = n + 1 THEN Specs!Reviewing(q)
                                     ELSE Specs!Update(s, Specs!VersionsIn(s, "reviewing"), "superseded")[v]]
      BY Zenon, <1>2, <2>1 DEF Specs!SavePostgres
    <2>3. \A v \in 1 .. n : w[v] = IF s[v].status = "reviewing" THEN [s[v] EXCEPT !.status = "superseded"] ELSE s[v]
      BY <1>0, <2>2 DEF Specs!Update, Specs!VersionsIn
    <2>4. w[n + 1] = [key |-> q, status |-> "reviewing"] /\ DOMAIN w = 1 .. n + 1
      BY <1>0, <2>2 DEF Specs!Reviewing
    <2>5. \A v \in 1 .. n : /\ w[v] \in SpecRows /\ w[v].key = s[v].key
                            /\ w[v].status = IF s[v].status = "reviewing" THEN "superseded" ELSE s[v].status
      BY Zenon, <1>0, <2>3 DEF SpecRows
    <2>6. w[n + 1] \in SpecRows /\ w[n + 1].key = q /\ w[n + 1].status = "reviewing"
      BY <2>4 DEF SpecRows
    <2>7. w \in Seq(SpecRows) /\ Len(w) = n + 1
      <3> HIDE DEF w
      <3>1. \A v \in 1 .. n + 1 : w[v] \in SpecRows
        BY <1>0, <2>5, <2>6
      <3>2. w = [v \in 1 .. n + 1 |-> w[v]]
        BY Zenon, <2>2
      <3> QED BY <1>0, <3>1, <3>2
    <2> HIDE DEF w
    <2>8. SpecsInv(w)
      <3>1. AtMostOne(Specs!VersionsIn(w, "reviewing"))
        BY <1>0, <2>4, <2>5, <2>6 DEF AtMostOne, Specs!VersionsIn
      <3>2. AtMostOne(Specs!VersionsIn(w, "confirmed"))
        BY <1>0, <2>4, <2>5, <2>6 DEF AtMostOne, Specs!VersionsIn, SpecsInv
      <3>3. ASSUME NEW k \in Requests PROVE AtMostOne(Specs!KeyRow(w, k))
        BY <1>0, <1>2, <2>4, <2>5, <2>6 DEF AtMostOne, Specs!KeyRow, SpecsInv
      <3> QED BY Zenon, <3>1, <3>2, <3>3 DEF SpecsInv
    <2>9. SpecsForward(s, w)
      BY <1>0, <2>5, <2>7 DEF SpecsForward
    <2>10. Specs!SavedVersion(s, q) \in DOMAIN w
      BY <1>0, <1>2, <2>4 DEF Specs!SavedVersion
    <2>11. \A v \in DOMAIN w : w[v].status = "confirmed" => v \in DOMAIN s /\ s[v].status = "confirmed"
      BY <1>0, <2>4, <2>5, <2>6
    <2> QED BY Zenon, <2>7, <2>8, <2>9, <2>10, <2>11 DEF w
  <1> QED BY Zenon, <1>1, <1>2

(* DecideRevision: the revision under review is decided, and a confirmed   *)
(* one superseded by its successor.                                        *)
LEMMA DecidedSpecs ==
  ASSUME NEW s \in Seq(SpecRows), SpecsInv(s), NEW v \in DOMAIN s, NEW approve \in BOOLEAN
  PROVE  LET w == Specs!DecideRevisionPostgres(s, v, approve)
         IN  /\ w \in Seq(SpecRows) /\ SpecsInv(w) /\ SpecsForward(s, w)
             /\ \A x \in DOMAIN w : w[x].status = "confirmed" => s[x].status = "confirmed" \/ (x = v /\ approve)
             /\ Specs!DecideOutcome(s, v, approve) # "error" => w[v].status # "reviewing"
  <1> DEFINE w == Specs!DecideRevisionPostgres(s, v, approve)
             new(x) == IF x = v THEN Specs!DecisionStatus(approve)
                       ELSE IF approve /\ s[x].status = "confirmed" THEN "superseded" ELSE s[x].status
  <1>0. DOMAIN s = 1 .. Len(s) /\ Len(s) \in Nat /\ \A x \in DOMAIN s : s[x] \in SpecRows
    OBVIOUS
  <1>1. CASE s[v].status # "reviewing"
    <2>1. w = s
      BY Zenon, <1>1 DEF Specs!DecideRevisionPostgres
    <2>2. SpecsForward(s, s)
      BY <1>0 DEF SpecsForward
    <2> QED BY Zenon, <1>1, <2>1, <2>2
  <1>2. CASE s[v].status = "reviewing"
    <2>1. Specs!GetLatestReviewingPostgres(s) = v
      BY Zenon, <1>2, TheOneRow
    <2>2. w = Specs!Update(Specs!Update(s, IF approve THEN Specs!VersionsIn(s, "confirmed") \ {v} ELSE {}, "superseded"),
                           {v}, Specs!DecisionStatus(approve))
      BY Zenon, <1>2, <2>1 DEF Specs!DecideRevisionPostgres
    <2>3. w = [x \in DOMAIN s |-> [s[x] EXCEPT !.status = new(x)]]
      BY Zenon, <1>0, <2>2 DEF Specs!Update, Specs!VersionsIn, SpecRows, new
    <2>4. Specs!DecisionStatus(approve) = IF approve THEN "confirmed" ELSE "rejected"
      BY Zenon DEF Specs!DecisionStatus
    <2>5. \A x \in DOMAIN s : w[x] \in SpecRows /\ w[x].key = s[x].key /\ w[x].status = new(x)
      <3>1. \A x \in DOMAIN s : new(x) \in {"reviewing", "confirmed", "superseded", "rejected"}
        BY Zenon, <1>0, <2>4 DEF SpecRows
      <3> HIDE DEF new
      <3> QED BY <1>0, <2>3, <3>1 DEF SpecRows
    <2>6. w \in Seq(SpecRows) /\ Len(w) = Len(s) /\ DOMAIN w = DOMAIN s
      <3> HIDE DEF w, new
      <3>1. w = [x \in 1 .. Len(s) |-> w[x]]
        BY Zenon, <1>0, <2>3
      <3>2. \A x \in 1 .. Len(s) : w[x] \in SpecRows
        BY Zenon, <1>0, <2>5
      <3> QED BY <1>0, <3>1, <3>2
    <2> HIDE DEF w
    <2>7. AtMostOne(Specs!VersionsIn(w, "reviewing"))
      BY Zenon, <1>2, <2>4, <2>5, <2>6 DEF AtMostOne, Specs!VersionsIn, SpecsInv
    <2>8. AtMostOne(Specs!VersionsIn(w, "confirmed"))
      BY <1>2, <2>4, <2>5, <2>6 DEF AtMostOne, Specs!VersionsIn, SpecsInv
    <2>9. ASSUME NEW k \in Requests PROVE AtMostOne(Specs!KeyRow(w, k))
      BY Zenon, <2>5, <2>6 DEF AtMostOne, Specs!KeyRow, SpecsInv
    <2>10. SpecsForward(s, w)
      BY <1>0, <1>2, <2>4, <2>5, <2>6 DEF SpecsForward
    <2>11. \A x \in DOMAIN w : w[x].status = "confirmed" => s[x].status = "confirmed" \/ (x = v /\ approve)
      BY Zenon, <2>4, <2>5, <2>6
    <2>12. w[v].status # "reviewing"
      BY Zenon, <2>4, <2>5
    <2> QED BY Zenon, <2>6, <2>7, <2>8, <2>9, <2>10, <2>11, <2>12 DEF w, SpecsInv
  <1> QED BY Zenon, <1>1, <1>2

-----------------------------------------------------------------------------
(* Moving forward, part by part *)

BoardForward(b, c) ==
  /\ Len(b.plans) <= Len(c.plans)
  /\ \A i \in DOMAIN b.plans :
       c.plans[i].spec = b.plans[i].spec /\ (b.plans[i].status # "reviewing" => c.plans[i].status # "reviewing")
  /\ b.applied \subseteq c.applied
  /\ \A n \in Candidates : b.cand[n] \notin {"none", "running"} =>
       c.cand[n] \notin {"none", "running"} /\ (b.cand[n] # "candidate" => c.cand[n] # "candidate")
  /\ c.active = b.active \/ \A n \in Candidates : c.cand[n] # "candidate"

ArtsForward(x, y) ==
  /\ Len(x.revs) <= Len(y.revs)
  /\ \A i \in DOMAIN x.revs : y.revs[i].kind = x.revs[i].kind
  /\ x.receipts \subseteq y.receipts

(* The plan was made for the confirmed spec. *)
Current(u, i) == i = 0 \/ u.specs[u.board.plans[i].spec].status = "confirmed"

(* The parts of what is reviewed *)
LEMMA TargetParts ==
  ASSUME NEW u \in Targets
  PROVE  /\ u.specs \in Seq(SpecRows) /\ u.arts \in Artifacts /\ u.board \in Boards
         /\ u.arts.revs \in Seq(RevisionRows) /\ u.arts.receipts \subseteq CommandKeys
         /\ u.board.plans \in Seq(PlanRows) /\ u.board.pending \in Nat /\ u.board.active \in Nat
         /\ u.board.applied \subseteq Requests \cup CommandKeys /\ u.board.version \in Nat
         /\ u.board.cand \in [Candidates -> CandidateStates]
  BY Zenon DEF Targets, Boards, Artifacts

(* MatchesConfirmed finds the plan of the confirmed spec. *)
LEMMA CurrentIs ==
  ASSUME NEW u \in Targets, TargetInv(u), NEW i \in 0 .. Len(u.board.plans)
  PROVE  MatchesConfirmed(u, i) <=> Current(u, i)
  <1>1. CASE i = 0
    BY Zenon, <1>1 DEF MatchesConfirmed, Current
  <1>2. CASE i # 0
    <2>1. i \in DOMAIN u.board.plans
      BY <1>2, TargetParts
    <2> DEFINE k == u.board.plans[i].spec
    <2>2. k \in DOMAIN u.specs
      BY Zenon, <2>1 DEF TargetInv, BoardInv, WasConfirmed
    <2>3. u.specs[k].status = "confirmed" <=> Specs!GetConfirmedPostgres(u.specs) = k
      BY Zenon, <2>2, TargetParts, TheOneRow DEF TargetInv
    <2>4. k # 0
      BY <2>2, TargetParts
    <2> QED BY Zenon, <1>2, <2>3, <2>4 DEF MatchesConfirmed, Current
  <1> QED BY Zenon, <1>1, <1>2

(* What ResolveBinding compares, for a target that exists *)
LEMMA MatchesIs ==
  ASSUME NEW u \in Targets, TargetInv(u), NEW a \in Approvals, Exists(u, a), a[1] # "export"
  PROVE  Matches(u, a) <=> /\ ~Closed(u, a)
                           /\ a[1] = "plan" => Current(u, a[2])
                           /\ a[1] = "cand" => Current(u, u.board.active)
  <1>0. a[1] \in {"spec", "plan", "cand"}
    BY Zenon, ApprovalKinds
  <1>1. CASE a[1] = "spec"
    <2>1. a[2] \in DOMAIN u.specs
      BY Zenon, <1>1 DEF Exists
    <2>2. u.specs[a[2]].status = "reviewing" => Specs!GetLatestReviewingPostgres(u.specs) = a[2]
      BY <2>1, TargetParts, TheOneRow DEF TargetInv
    <2> QED BY Zenon, <1>1, <2>2 DEF Matches, Closed
  <1>2. CASE a[1] = "plan"
    <2>1. a[2] \in DOMAIN u.board.plans
      BY Zenon, <1>2 DEF Exists
    <2>2. a[2] \in 0 .. Len(u.board.plans)
      BY <2>1, TargetParts
    <2>3. u.board.plans[a[2]].status = "reviewing" <=> a[2] = u.board.pending
      BY Zenon, <2>1 DEF TargetInv, BoardInv
    <2> QED BY Zenon, <1>2, <2>2, <2>3, CurrentIs DEF Matches, Closed
  <1>3. CASE a[1] = "cand"
    <2>1. u.board.active \in 0 .. Len(u.board.plans)
      BY Zenon DEF TargetInv, BoardInv
    <2> QED BY Zenon, <1>3, <2>1, CurrentIs DEF Matches, Closed
  <1> QED BY Zenon, <1>0, <1>1, <1>2, <1>3

(* What is reviewed moves forward when its three stores do. *)
LEMMA ForwardParts ==
  ASSUME NEW u \in Targets, TargetInv(u), NEW w \in Targets, TargetInv(w),
         SpecsForward(u.specs, w.specs), BoardForward(u.board, w.board), ArtsForward(u.arts, w.arts)
  PROVE  Forward(u, w)
  <1>1. /\ DOMAIN u.specs \subseteq DOMAIN w.specs
        /\ DOMAIN u.board.plans \subseteq DOMAIN w.board.plans
        /\ DOMAIN u.arts.revs \subseteq DOMAIN w.arts.revs
    <2>1. \A S : \A x, y \in Seq(S) : Len(x) <= Len(y) => DOMAIN x \subseteq DOMAIN y
      OBVIOUS
    <2>2. Len(u.specs) <= Len(w.specs) /\ Len(u.board.plans) <= Len(w.board.plans) /\ Len(u.arts.revs) <= Len(w.arts.revs)
      BY Zenon DEF SpecsForward, BoardForward, ArtsForward
    <2> QED BY <2>1, <2>2, TargetParts
  <1>2. \A v \in DOMAIN u.specs : WasConfirmed(u.specs, v) => WasConfirmed(w.specs, v)
    BY Zenon, <1>1 DEF SpecsForward, WasConfirmed
  <1>3. ASSUME NEW a \in Approvals, Exists(u, a)
        PROVE  /\ Exists(w, a)
               /\ Closed(u, a) => Closed(w, a)
               /\ a[1] # "export" /\ ~Matches(u, a) => ~Matches(w, a)
               /\ \A status \in {"approved", "rejected", "stale"} : Traced(u, a, status) => Traced(w, a, status)
    <2>1. Exists(w, a)
      BY Zenon, <1>1, <1>3, ApprovalKinds DEF Exists, BoardForward, ArtsForward, Arts!OfKind
    <2>2. Closed(u, a) => Closed(w, a)
      BY Zenon, <1>1, <1>3, ApprovalKinds DEF Exists, Closed, SpecsForward, BoardForward
    <2>3. \A status \in {"approved", "rejected", "stale"} : Traced(u, a, status) => Traced(w, a, status)
      BY Zenon, <1>1, <1>3, ApprovalKinds DEF Exists, Traced, SpecsForward, BoardForward, ArtsForward
    <2>4. ASSUME a[1] # "export", ~Matches(u, a) PROVE ~Matches(w, a)
      <3>1. CASE Closed(u, a)
        BY Zenon, <2>1, <2>2, <2>4, <3>1, MatchesIs
      <3>2. CASE a[1] = "plan" /\ ~Current(u, a[2])
        <4>1. a[2] \in DOMAIN u.board.plans
          BY Zenon, <1>3, <3>2 DEF Exists
        <4>2. WasConfirmed(u.specs, u.board.plans[a[2]].spec)
          BY Zenon, <4>1 DEF TargetInv, BoardInv
        <4> DEFINE k == u.board.plans[a[2]].spec
        <4>3. w.board.plans[a[2]].spec = k
          BY Zenon, <4>1 DEF BoardForward
        <4>4. u.specs[k].status # "confirmed" /\ a[2] # 0
          BY Zenon, <3>2 DEF Current
        <4>5. w.specs[k].status = "superseded"
          BY ZenonT(60), <4>2, <4>4 DEF WasConfirmed, SpecsForward
        <4>6. ~Current(w, a[2])
          BY ZenonT(60), <4>3, <4>4, <4>5 DEF Current
        <4> QED BY Zenon, <2>1, <2>4, <3>2, <4>6, MatchesIs
      <3>3. CASE a[1] = "cand" /\ ~Current(u, u.board.active)
        <4>1. u.board.active \in DOMAIN u.board.plans
          <5>1. u.board.active \in 0 .. Len(u.board.plans) /\ u.board.active # 0
            BY Zenon, <3>3 DEF TargetInv, BoardInv, Current
          <5>2. u.board.plans \in Seq(PlanRows)
            BY Zenon, TargetParts
          <5> QED BY <5>1, <5>2
        <4>2. WasConfirmed(u.specs, u.board.plans[u.board.active].spec)
          BY Zenon, <4>1 DEF TargetInv, BoardInv
        <4>3. CASE w.board.active = u.board.active
          <5>1. ~Current(w, w.board.active)
            BY ZenonT(60), <3>3, <4>1, <4>2, <4>3 DEF Current, WasConfirmed, SpecsForward, BoardForward
          <5> QED BY Zenon, <2>1, <2>4, <3>3, <5>1, MatchesIs
        <4>4. CASE \A n \in Candidates : w.board.cand[n] # "candidate"
          <5>1. Closed(w, a)
            BY Zenon, <3>3, <4>4, ApprovalKinds DEF Closed
          <5> QED BY Zenon, <2>1, <2>4, <5>1, MatchesIs
        <4> QED BY Zenon, <4>3, <4>4 DEF BoardForward
      <3> QED BY Zenon, <1>3, <2>4, <3>1, <3>2, <3>3, MatchesIs
    <2> QED BY Zenon, <2>1, <2>2, <2>3, <2>4
  <1> QED BY Zenon, <1>1, <1>2, <1>3 DEF Forward

-----------------------------------------------------------------------------
(* One step of what is reviewed *)

(* Specs that stay as they are *)
LEMMA SpecsSame == ASSUME NEW s \in Seq(SpecRows) PROVE SpecsForward(s, s)
  BY DEF SpecsForward

(* A storyboard that stays as it is *)
LEMMA BoardSame == ASSUME NEW b \in Boards PROVE BoardForward(b, b)
  BY DEF BoardForward, Boards

(* Artifacts that stay as they are *)
LEMMA ArtsSame == ASSUME NEW x \in Artifacts PROVE ArtsForward(x, x)
  BY DEF ArtsForward, Artifacts

(* A step of the spec store *)
LEMMA SpecsMove ==
  ASSUME NEW u \in Targets, TargetInv(u), NEW s \in Seq(SpecRows), SpecsInv(s), SpecsForward(u.specs, s),
         NEW S, \A v \in DOMAIN s : s[v].status = "confirmed" =>
                  \/ v \in DOMAIN u.specs /\ u.specs[v].status = "confirmed"
                  \/ <<"spec", v>> \in S
  PROVE  Moves(u, [u EXCEPT !.specs = s], S)
  <1> DEFINE w == [u EXCEPT !.specs = s]
  <1>1. w \in Targets /\ w.specs = s /\ w.board = u.board /\ w.arts = u.arts
    BY Zenon DEF Targets
  <1> HIDE DEF w
  <1>2. \A v : WasConfirmed(u.specs, v) => WasConfirmed(s, v)
    <2>1. DOMAIN u.specs \subseteq DOMAIN s
      BY TargetParts DEF SpecsForward
    <2> QED BY Zenon, <2>1 DEF WasConfirmed, SpecsForward
  <1>3. BoardInv(u.board, s)
    BY Zenon, <1>2 DEF TargetInv, BoardInv
  <1>4. TargetInv(w)
    BY Zenon, <1>1, <1>3 DEF TargetInv
  <1>5. Forward(u, w)
    BY Zenon, <1>1, <1>4, ForwardParts, BoardSame, ArtsSame, TargetParts
  <1>6. ASSUME NEW x \in Approvals \ S PROVE NothingNew(u, w, x)
    BY Zenon, <1>1, ApprovalKinds DEF NothingNew, InEffect
  <1> QED BY Zenon, <1>1, <1>4, <1>5, <1>6 DEF Moves, w

(* A step of the artifact store *)
LEMMA ArtsMove ==
  ASSUME NEW u \in Targets, TargetInv(u), NEW y \in Artifacts, ArtsForward(u.arts, y), AtMostOne(ActiveExports(y)),
         NEW S, \A i \in ActiveExports(y) : i \in ActiveExports(u.arts) \/ <<"export", i>> \in S
  PROVE  Moves(u, [u EXCEPT !.arts = y], S)
  <1> DEFINE w == [u EXCEPT !.arts = y]
  <1>1. w \in Targets /\ w.arts = y /\ w.board = u.board /\ w.specs = u.specs
    BY Zenon DEF Targets
  <1> HIDE DEF w
  <1>4. TargetInv(w)
    BY Zenon, <1>1 DEF TargetInv
  <1>5. Forward(u, w)
    BY Zenon, <1>1, <1>4, ForwardParts, BoardSame, SpecsSame, TargetParts
  <1>6. ASSUME NEW x \in Approvals \ S PROVE NothingNew(u, w, x)
    BY Zenon, <1>1, ApprovalKinds DEF NothingNew, InEffect
  <1> QED BY Zenon, <1>1, <1>4, <1>5, <1>6 DEF Moves, w

(* A step of the storyboard *)
LEMMA BoardMove ==
  ASSUME NEW u \in Targets, TargetInv(u), NEW c \in Boards, BoardForward(u.board, c), BoardInv(c, u.specs),
         NEW S,
         \A i \in DOMAIN c.plans : c.plans[i].status = "active" =>
           \/ i \in DOMAIN u.board.plans /\ u.board.plans[i].status = "active"
           \/ <<"plan", i>> \in S,
         \A n \in Candidates : c.cand[n] \in {"active", "candidate"} =>
           c.cand[n] = u.board.cand[n] \/ <<"cand", n>> \in S,
         \A x \in Approvals \ S, status \in Statuses :
           CommandKey(x, status) \in c.applied => CommandKey(x, status) \in u.board.applied
  PROVE  Moves(u, [u EXCEPT !.board = c], S)
  <1> DEFINE w == [u EXCEPT !.board = c]
  <1>1. w \in Targets /\ w.board = c /\ w.specs = u.specs /\ w.arts = u.arts
    BY Zenon DEF Targets
  <1> HIDE DEF w
  <1>4. TargetInv(w)
    BY Zenon, <1>1 DEF TargetInv
  <1>5. Forward(u, w)
    BY Zenon, <1>1, <1>4, ForwardParts, ArtsSame, SpecsSame, TargetParts
  <1>6. ASSUME NEW x \in Approvals \ S PROVE NothingNew(u, w, x)
    <2>1. x[1] = "plan" => <<"plan", x[2]>> \notin S
      BY Zenon, ApprovalKinds
    <2>2. x[1] = "cand" => <<"cand", x[2]>> \notin S /\ x[2] \in Candidates
      BY Zenon, ApprovalKinds
    <2>3. InEffect(w, x) => InEffect(u, x)
      BY Zenon, <1>1, <2>1, <2>2, ApprovalKinds DEF InEffect
    <2>4. x[1] = "cand" /\ w.board.cand[x[2]] = "candidate" => u.board.cand[x[2]] = "candidate"
      BY Zenon, <1>1, <2>2
    <2> QED BY Zenon, <1>1, <2>3, <2>4 DEF NothingNew
  <1> QED BY Zenon, <1>1, <1>4, <1>5, <1>6 DEF Moves, w

-----------------------------------------------------------------------------
(* The storyboard commands *)

(* A storyboard that records a key, under its next version *)
LEMMA TouchedParts ==
  ASSUME NEW b \in Boards, NEW key \in Requests \cup CommandKeys
  PROVE  LET c == Touched(b, key)
         IN  /\ c \in Boards /\ c.plans = b.plans /\ c.pending = b.pending /\ c.active = b.active
             /\ c.cand = b.cand /\ c.applied = b.applied \cup {key}
  <1> DEFINE A == b.applied \cup {key}
  <1>1. A \subseteq Requests \cup CommandKeys
    BY Zenon DEF Boards
  <1>2. b.version + 1 \in Nat
    BY DEF Boards
  <1>3. Touched(b, key) = [b EXCEPT !.applied = A, !.version = b.version + 1]
    BY Zenon DEF Touched
  <1> HIDE DEF A
  <1>4. LET c == [b EXCEPT !.applied = A, !.version = b.version + 1]
        IN  /\ c \in Boards /\ c.plans = b.plans /\ c.pending = b.pending /\ c.active = b.active
            /\ c.cand = b.cand /\ c.applied = A
    BY Zenon, <1>1, <1>2 DEF Boards
  <1> QED BY Zenon, <1>3, <1>4 DEF A

WithPlans(b, P, m) == [b EXCEPT !.plans = P, !.pending = m]
WithPromoted(b, P, i, C) == [b EXCEPT !.plans = P, !.pending = 0, !.active = i, !.cand = C]
WithCandidates(b, C) == [b EXCEPT !.cand = C]

(* A storyboard with other plans, one of them pending *)
LEMMA PlansChanged ==
  ASSUME NEW b \in Boards, NEW P \in Seq(PlanRows), NEW m \in Nat
  PROVE  LET d == WithPlans(b, P, m)
         IN  d \in Boards /\ d.plans = P /\ d.pending = m /\ d.active = b.active /\ d.cand = b.cand /\ d.applied = b.applied
  BY Zenon DEF Boards, WithPlans

(* A promoted plan *)
LEMMA PlanPromoted ==
  ASSUME NEW b \in Boards, NEW P \in Seq(PlanRows), NEW i \in Nat, NEW C \in [Candidates -> CandidateStates]
  PROVE  LET d == WithPromoted(b, P, i, C)
         IN  d \in Boards /\ d.plans = P /\ d.pending = 0 /\ d.active = i /\ d.cand = C /\ d.applied = b.applied
  BY Zenon DEF Boards, WithPromoted

IsRedrawn(s, b, c, C, key) ==
  /\ c \in Boards /\ BoardInv(c, s) /\ BoardForward(b, c)
  /\ c.plans = b.plans /\ c.cand = C /\ c.applied = b.applied \cup {key}

(* A command that only touches the candidates *)
LEMMA CandidatesChanged ==
  ASSUME NEW s, NEW b \in Boards, BoardInv(b, s), NEW C \in [Candidates -> CandidateStates],
         \A n \in Candidates : b.cand[n] \notin {"none", "running"} =>
           C[n] \notin {"none", "running"} /\ (b.cand[n] # "candidate" => C[n] # "candidate"),
         NEW key \in CommandKeys
  PROVE  IsRedrawn(s, b, Touched(WithCandidates(b, C), key), C, key)
  <1> DEFINE d == WithCandidates(b, C)
             c == Touched(d, key)
  <1>1. d \in Boards /\ d.plans = b.plans /\ d.pending = b.pending /\ d.active = b.active
        /\ d.cand = C /\ d.applied = b.applied
    BY Zenon DEF Boards, WithCandidates
  <1> HIDE DEF d
  <1>2. /\ c \in Boards /\ c.plans = b.plans /\ c.pending = b.pending /\ c.active = b.active
        /\ c.cand = C /\ c.applied = b.applied \cup {key}
    BY <1>1, TouchedParts
  <1> HIDE DEF c
  <1>3. BoardInv(c, s)
    BY <1>2, IdentityAssumption DEF BoardInv
  <1>4. BoardForward(b, c)
    BY <1>2 DEF BoardForward, Boards
  <1> QED BY Zenon, <1>2, <1>3, <1>4 DEF IsRedrawn, c, d

(* Keys that are not a command of an approval *)
LEMMA OtherKey ==
  ASSUME NEW x \in Approvals, NEW status \in Statuses, NEW y, NEW tag \in {"cleanup", "commit", "edit"}
  PROVE  CommandKey(x, status) # <<y, tag>>
  BY Zenon DEF CommandKey, Statuses

(* CreatePending: a new plan supersedes the one under review. *)
LEMMA CreatedPending ==
  ASSUME NEW s, NEW b \in Boards, BoardInv(b, s), NEW q \in Requests, NEW v \in Nat \ {0}, WasConfirmed(s, v), b.pending = 0
  PROVE  LET c == CreatePending(b, q, v)
         IN  /\ c \in Boards /\ BoardInv(c, s) /\ BoardForward(b, c)
             /\ \A i \in DOMAIN c.plans : c.plans[i].status = "active" => i \in DOMAIN b.plans /\ b.plans[i].status = "active"
             /\ c.cand = b.cand /\ c.applied = b.applied \cup {q}
             /\ Len(b.plans) + 1 \in DOMAIN c.plans
  <1> DEFINE row == [key |-> q, spec |-> v, status |-> "reviewing"]
             P == Append(b.plans, row)
             n == Len(b.plans)
             d == WithPlans(b, P, n + 1)
             c == CreatePending(b, q, v)
  <1>1. b.plans \in Seq(PlanRows) /\ n \in Nat /\ DOMAIN b.plans = 1 .. n /\ b.active \in Nat
    BY DEF Boards
  <1>2. row \in PlanRows /\ row.status = "reviewing" /\ row.spec = v /\ row.key = q
    BY Zenon DEF PlanRows
  <1>5. c = Touched(d, q)
    BY Zenon DEF CreatePending, WithPlans
  <1> HIDE DEF c, row
  <1>3. P \in Seq(PlanRows) /\ Len(P) = n + 1 /\ DOMAIN P = 1 .. n + 1 /\ P[n + 1] = row /\ \A i \in 1 .. n : P[i] = b.plans[i]
    BY <1>1, <1>2
  <1> HIDE DEF P
  <1>4. d \in Boards /\ d.plans = P /\ d.pending = n + 1 /\ d.active = b.active /\ d.cand = b.cand /\ d.applied = b.applied
    <2>1. n + 1 \in Nat /\ P \in Seq(PlanRows)
      BY <1>1, <1>3
    <2> QED BY <2>1, PlansChanged
  <1> HIDE DEF d
  <1>6. /\ c \in Boards /\ c.plans = P /\ c.pending = n + 1 /\ c.active = b.active
        /\ c.cand = b.cand /\ c.applied = b.applied \cup {q}
    BY <1>4, <1>5, TouchedParts
  <1>7. BoardInv(c, s)
    <2>1. c.pending \in 0 .. Len(c.plans) /\ c.active \in 0 .. Len(c.plans)
      BY <1>1, <1>3, <1>6 DEF BoardInv
    <2>2. ASSUME NEW i \in DOMAIN c.plans
          PROVE  /\ c.plans[i].status = "reviewing" <=> i = c.pending
                 /\ c.plans[i].status = "active" => i = c.active
                 /\ WasConfirmed(s, c.plans[i].spec)
      <3>1. CASE i = n + 1
        BY Zenon, <1>2, <1>3, <1>6, <3>1
      <3>2. CASE i \in 1 .. n
        <4>1. c.plans[i] = b.plans[i] /\ i # n + 1 /\ i # 0
          BY <1>1, <1>3, <1>6, <3>2
        <4> QED BY Zenon, <1>1, <1>6, <3>2, <4>1 DEF BoardInv
      <3> QED BY <1>1, <1>3, <1>6, <3>1, <3>2
    <2>3. ASSUME NEW k \in Requests \cap c.applied PROVE \E i \in DOMAIN c.plans : c.plans[i].key = k
      <3>1. CASE k = q
        BY <1>1, <1>2, <1>3, <1>6, <3>1
      <3>2. CASE k \in b.applied
        BY <1>1, <1>3, <1>6, <3>2 DEF BoardInv
      <3> QED BY Zenon, <1>6, <3>1, <3>2
    <2> QED BY Zenon, <2>1, <2>2, <2>3 DEF BoardInv
  <1>8. BoardForward(b, c)
    BY <1>1, <1>3, <1>6 DEF BoardForward
  <1>9. \A i \in DOMAIN c.plans : c.plans[i].status = "active" => i \in DOMAIN b.plans /\ b.plans[i].status = "active"
    BY SMTT(30), <1>1, <1>2, <1>3, <1>6
  <1> QED BY <1>1, <1>3, <1>6, <1>7, <1>8, <1>9 DEF c

IsPromoted(s, b, c, key) ==
  /\ c \in Boards /\ BoardInv(c, s) /\ BoardForward(b, c)
  /\ DOMAIN c.plans = DOMAIN b.plans
  /\ \A i \in DOMAIN c.plans : c.plans[i].status = "active" => i = b.pending
  /\ c.plans[b.pending].status = "active"
  /\ \A n \in Candidates : c.cand[n] # "candidate" /\ (c.cand[n] = "active" => b.cand[n] = "active")
  /\ c.applied = b.applied \cup {key}

(* Promotion: the pending plan becomes the active one, every open          *)
(* candidate is superseded.                                                *)
LEMMA Promoted ==
  ASSUME NEW s, NEW b \in Boards, BoardInv(b, s), b.pending # 0, NEW key \in CommandKeys
  PROVE  IsPromoted(s, b, PromotePending(b, b.pending, key), key)
  <1> DEFINE i == b.pending
             n == Len(b.plans)
             new(j) == IF j = i THEN "active" ELSE IF j = b.active THEN "superseded" ELSE b.plans[j].status
             P == [j \in DOMAIN b.plans |-> [b.plans[j] EXCEPT !.status = new(j)]]
             C == [m \in Candidates |-> IF b.cand[m] = "candidate" THEN "superseded" ELSE b.cand[m]]
             d == WithPromoted(b, P, i, C)
             c == PromotePending(b, i, key)
  <1>1. /\ b.plans \in Seq(PlanRows) /\ n \in Nat /\ DOMAIN b.plans = 1 .. n /\ i \in 1 .. n
        /\ b.cand \in [Candidates -> CandidateStates]
        /\ \A j \in 1 .. n : b.plans[j] \in PlanRows
    BY DEF Boards, BoardInv
  <1>2. c = Touched(d, key)
    BY Zenon DEF PromotePending, WithPromoted
  <1>3. \A j \in 1 .. n : P[j] \in PlanRows /\ P[j].key = b.plans[j].key /\ P[j].spec = b.plans[j].spec /\ P[j].status = new(j)
    <2>1. \A j \in 1 .. n : new(j) \in {"reviewing", "active", "superseded", "rejected"}
      BY Zenon, <1>1 DEF PlanRows
    <2>2. \A j \in 1 .. n : P[j] = [b.plans[j] EXCEPT !.status = new(j)]
      BY Zenon, <1>1
    <2> HIDE DEF P, new
    <2>3. ASSUME NEW j \in 1 .. n
          PROVE  P[j] \in PlanRows /\ P[j].key = b.plans[j].key /\ P[j].spec = b.plans[j].spec /\ P[j].status = new(j)
      <3>1. b.plans[j] \in PlanRows /\ new(j) \in {"reviewing", "active", "superseded", "rejected"}
        BY Zenon, <1>1, <2>1
      <3> QED BY Zenon, <2>2, <3>1 DEF PlanRows
    <2> QED BY Zenon, <2>3
  <1>4. P \in Seq(PlanRows) /\ Len(P) = n /\ DOMAIN P = 1 .. n
    <2>1. P = [j \in 1 .. n |-> P[j]]
      BY Zenon, <1>1
    <2>2. \A j \in 1 .. n : P[j] \in PlanRows
      BY Zenon, <1>3
    <2>3. n \in Nat
      BY Zenon, <1>1
    <2> HIDE DEF P, n
    <2> QED BY <2>1, <2>2, <2>3
  <1>5. C \in [Candidates -> CandidateStates] /\ \A m \in Candidates : C[m] = IF b.cand[m] = "candidate" THEN "superseded" ELSE b.cand[m]
    BY Zenon, <1>1 DEF CandidateStates
  <1> HIDE DEF P, C, c
  <1>6. d \in Boards /\ d.plans = P /\ d.pending = 0 /\ d.active = i /\ d.cand = C /\ d.applied = b.applied
    BY <1>1, <1>4, <1>5, PlanPromoted
  <1> HIDE DEF d
  <1>7. /\ c \in Boards /\ c.plans = P /\ c.pending = 0 /\ c.active = i
        /\ c.cand = C /\ c.applied = b.applied \cup {key}
    BY Zenon, <1>2, <1>6, TouchedParts
  <1>8. BoardInv(c, s)
    <2>1. c.pending \in 0 .. Len(c.plans) /\ c.active \in 0 .. Len(c.plans)
      BY <1>1, <1>4, <1>7
    <2>2. ASSUME NEW j \in DOMAIN c.plans
          PROVE  /\ c.plans[j].status = "reviewing" <=> j = c.pending
                 /\ c.plans[j].status = "active" => j = c.active
                 /\ WasConfirmed(s, c.plans[j].spec)
      <3>1. j \in 1 .. n /\ c.plans[j].status = new(j) /\ c.plans[j].spec = b.plans[j].spec /\ j # 0
        BY <1>1, <1>3, <1>4, <1>7
      <3>2. /\ b.plans[j].status = "reviewing" <=> j = i
            /\ b.plans[j].status = "active" => j = b.active
            /\ WasConfirmed(s, b.plans[j].spec)
        BY Zenon, <1>1, <3>1 DEF BoardInv
      <3> QED BY <1>7, <3>1, <3>2
    <2>3. ASSUME NEW k \in Requests \cap c.applied PROVE \E j \in DOMAIN c.plans : c.plans[j].key = k
      <3>1. k \in b.applied
        BY Zenon, <1>7, IdentityAssumption
      <3> QED BY <1>1, <1>3, <1>4, <1>7, <3>1 DEF BoardInv
    <2> QED BY Zenon, <2>1, <2>2, <2>3 DEF BoardInv
  <1>9. \A j \in 1 .. n : c.plans[j].status = "active" => j = i
    BY <1>1, <1>3, <1>7 DEF BoardInv
  <1>10. \A m \in Candidates : c.cand[m] # "candidate" /\ (c.cand[m] = "active" => b.cand[m] = "active")
    BY Zenon, <1>5, <1>7
  <1>11. BoardForward(b, c)
    <2>1. \A m \in Candidates : b.cand[m] \notin {"none", "running"} => c.cand[m] \notin {"none", "running"}
      BY Zenon, <1>5, <1>7
    <2>2. ASSUME NEW j \in DOMAIN b.plans
          PROVE  c.plans[j].spec = b.plans[j].spec /\ (b.plans[j].status # "reviewing" => c.plans[j].status # "reviewing")
      BY Zenon, <1>1, <1>3, <1>7
    <2> QED BY <1>1, <1>4, <1>7, <1>10, <2>1, <2>2 DEF BoardForward
  <1>12. c.plans[i].status = "active"
    BY Zenon, <1>1, <1>3, <1>7
  <1> QED BY Zenon, <1>1, <1>4, <1>7, <1>8, <1>9, <1>10, <1>11, <1>12 DEF IsPromoted, c

IsRejected(s, b, c, key) ==
  /\ c \in Boards /\ BoardInv(c, s) /\ BoardForward(b, c)
  /\ DOMAIN c.plans = DOMAIN b.plans
  /\ \A i \in DOMAIN c.plans : c.plans[i].status = "active" => b.plans[i].status = "active"
  /\ c.plans[b.pending].status = "rejected"
  /\ c.cand = b.cand
  /\ c.applied = b.applied \cup {key}

(* RejectPending closes the review of the pending plan. *)
LEMMA PendingRejected ==
  ASSUME NEW s, NEW b \in Boards, BoardInv(b, s), b.pending # 0, NEW key \in CommandKeys
  PROVE  IsRejected(s, b, RejectPending(b, b.pending, key), key)
  <1> DEFINE i == b.pending
             n == Len(b.plans)
             row == [b.plans[i] EXCEPT !.status = "rejected"]
             P == [b.plans EXCEPT ![i] = row]
             d == WithPlans(b, P, 0)
             c == RejectPending(b, i, key)
  <1>1. /\ b.plans \in Seq(PlanRows) /\ n \in Nat /\ DOMAIN b.plans = 1 .. n /\ i \in 1 .. n
        /\ b.active \in 0 .. n
        /\ \A j \in 1 .. n : b.plans[j] \in PlanRows
    BY DEF Boards, BoardInv
  <1>2. c = Touched(d, key)
    BY Zenon DEF RejectPending, WithPlans
  <1>3. row \in PlanRows /\ row.key = b.plans[i].key /\ row.spec = b.plans[i].spec /\ row.status = "rejected"
    BY Zenon, <1>1 DEF PlanRows
  <1> HIDE DEF row, c
  <1>4. P \in Seq(PlanRows) /\ Len(P) = n /\ DOMAIN P = 1 .. n /\ P[i] = row /\ \A j \in 1 .. n : j # i => P[j] = b.plans[j]
    BY <1>1, <1>3
  <1> HIDE DEF P
  <1>6. d \in Boards /\ d.plans = P /\ d.pending = 0 /\ d.active = b.active /\ d.cand = b.cand /\ d.applied = b.applied
    BY <1>1, <1>4, PlansChanged
  <1> HIDE DEF d
  <1>7. /\ c \in Boards /\ c.plans = P /\ c.pending = 0 /\ c.active = b.active
        /\ c.cand = b.cand /\ c.applied = b.applied \cup {key}
    BY Zenon, <1>2, <1>6, TouchedParts
  <1>8. BoardInv(c, s)
    <2>1. c.pending \in 0 .. Len(c.plans) /\ c.active \in 0 .. Len(c.plans)
      BY <1>1, <1>4, <1>7
    <2>2. ASSUME NEW j \in DOMAIN c.plans
          PROVE  /\ c.plans[j].status = "reviewing" <=> j = c.pending
                 /\ c.plans[j].status = "active" => j = c.active
                 /\ WasConfirmed(s, c.plans[j].spec)
      <3>1. j \in 1 .. n /\ c.plans[j].spec = b.plans[j].spec /\ j # 0
            /\ c.plans[j].status = IF j = i THEN "rejected" ELSE b.plans[j].status
        BY SMTT(30), <1>1, <1>3, <1>4, <1>7
      <3>2. /\ b.plans[j].status = "reviewing" <=> j = i
            /\ b.plans[j].status = "active" => j = b.active
            /\ WasConfirmed(s, b.plans[j].spec)
        BY Zenon, <1>1, <3>1 DEF BoardInv
      <3> QED BY Zenon, <1>7, <3>1, <3>2
    <2>3. ASSUME NEW k \in Requests \cap c.applied PROVE \E j \in DOMAIN c.plans : c.plans[j].key = k
      <3>1. k \in b.applied
        BY Zenon, <1>7, IdentityAssumption
      <3>2. PICK j \in 1 .. n : b.plans[j].key = k
        BY Zenon, <1>1, <3>1 DEF BoardInv
      <3> QED BY Zenon, <1>1, <1>3, <1>4, <1>7, <3>2
    <2> QED BY <2>1, <2>2, <2>3 DEF BoardInv
  <1>9. BoardForward(b, c)
    <2>2. ASSUME NEW j \in DOMAIN b.plans
          PROVE  c.plans[j].spec = b.plans[j].spec /\ (b.plans[j].status # "reviewing" => c.plans[j].status # "reviewing")
      BY Zenon, <1>1, <1>3, <1>4, <1>7
    <2> QED BY <1>1, <1>4, <1>7, <2>2 DEF BoardForward
  <1>10. \A j \in 1 .. n : c.plans[j].status = "active" => b.plans[j].status = "active"
    BY Zenon, <1>1, <1>3, <1>4, <1>7
  <1> QED BY Zenon, <1>1, <1>3, <1>4, <1>7, <1>8, <1>9, <1>10 DEF IsRejected, c

-----------------------------------------------------------------------------
(* The artifact revisions *)

(* The parts of the artifacts *)
LEMMA ArtifactParts ==
  ASSUME NEW x \in Artifacts
  PROVE  /\ x.revs \in Seq(RevisionRows) /\ x.receipts \subseteq CommandKeys
         /\ DOMAIN x.revs = 1 .. Len(x.revs) /\ Len(x.revs) \in Nat
         /\ \A i \in DOMAIN x.revs : x.revs[i] \in RevisionRows
  BY DEF Artifacts

(* A new revision is an analysis, or an export result under review. *)
LEMMA RevisionCreated ==
  ASSUME NEW x \in Artifacts, AtMostOne(ActiveExports(x)), NEW key \in Exports \cup Analyses,
         NEW kind \in {"export", "analysis"}, NEW status \in {"reviewing", "active"}, kind = "export" => status = "reviewing"
  PROVE  LET y == Arts!CreateRevisionPostgres(x, key, kind, status)
         IN  /\ y \in Artifacts /\ ArtsForward(x, y) /\ AtMostOne(ActiveExports(y))
             /\ ActiveExports(y) \subseteq ActiveExports(x)
             /\ Arts!ByKey(x, key) = {} => Len(x.revs) + 1 \in Arts!OfKind(y, kind)
  <1> DEFINE y == Arts!CreateRevisionPostgres(x, key, kind, status)
             row == [key |-> key, kind |-> kind, status |-> status]
             R == x.revs \o <<row>>
             n == Len(x.revs)
  <1>1. CASE \E i \in DOMAIN x.revs : x.revs[i].key = key
    <2>1. y = x /\ Arts!ByKey(x, key) # {}
      BY Zenon, <1>1 DEF Arts!CreateRevisionPostgres, Arts!ByKey
    <2> QED BY Zenon, <2>1, ArtsSame
  <1>2. CASE ~\E i \in DOMAIN x.revs : x.revs[i].key = key
    <2>1. y = [x EXCEPT !.revs = R]
      BY Zenon, <1>2 DEF Arts!CreateRevisionPostgres
    <2>2. row \in RevisionRows /\ row.kind = kind /\ row.status = status
      BY Zenon DEF RevisionRows
    <2>3. x.revs \in Seq(RevisionRows) /\ n \in Nat /\ DOMAIN x.revs = 1 .. n
      BY Zenon, ArtifactParts
    <2> HIDE DEF row
    <2>4. R \in Seq(RevisionRows) /\ Len(R) = n + 1 /\ DOMAIN R = 1 .. n + 1 /\ R[n + 1] = row
          /\ \A i \in 1 .. n : R[i] = x.revs[i]
      BY <2>2, <2>3
    <2> HIDE DEF R
    <2>5. y \in Artifacts /\ y.revs = R /\ y.receipts = x.receipts
      BY Zenon, <2>1, <2>4 DEF Artifacts
    <2> HIDE DEF y
    <2>6. ArtsForward(x, y)
      BY <2>3, <2>4, <2>5 DEF ArtsForward
    <2>7. ActiveExports(y) \subseteq ActiveExports(x)
      <3>1. ASSUME NEW i \in ActiveExports(y) PROVE i \in ActiveExports(x)
        <4>1. i \in 1 .. n + 1 /\ R[i].kind = "export" /\ R[i].status = "active"
          BY Zenon, <2>4, <2>5 DEF ActiveExports, Arts!OfKind
        <4>2. i # n + 1
          BY Zenon, <2>2, <2>4, <4>1
        <4>3. i \in 1 .. n /\ R[i] = x.revs[i]
          BY <2>3, <2>4, <4>1, <4>2
        <4> QED BY Zenon, <2>3, <4>1, <4>3 DEF ActiveExports, Arts!OfKind
      <3> QED BY Zenon, <3>1
    <2>8. n + 1 \in Arts!OfKind(y, kind)
      BY SMTT(30), <2>2, <2>3, <2>4, <2>5 DEF Arts!OfKind
    <2> QED BY Zenon, <2>5, <2>6, <2>7, <2>8 DEF AtMostOne, y
  <1> QED BY Zenon, <1>1, <1>2

IsReviewed(x, y, key, i, approve) ==
  /\ y \in Artifacts /\ ArtsForward(x, y) /\ AtMostOne(ActiveExports(y))
  /\ \A j \in ActiveExports(y) : j \in ActiveExports(x) \/ (j = i /\ approve)
  /\ Arts!ReviewOutcome(x, key, i) # "lost" => key \in y.receipts

(* ApplyReview: approval leaves one active export result. *)
LEMMA RevisionReviewed ==
  ASSUME NEW x \in Artifacts, AtMostOne(ActiveExports(x)), NEW i \in Arts!OfKind(x, "export"),
         NEW key \in CommandKeys, NEW approve \in BOOLEAN
  PROVE  IsReviewed(x, Arts!ApplyReviewPostgres(x, key, i, approve), key, i, approve)
  <1> DEFINE y == Arts!ApplyReviewPostgres(x, key, i, approve)
             n == Len(x.revs)
             others == {j \in Arts!OfKind(x, x.revs[i].kind) \ {i} : x.revs[j].status = "active"}
             retired == [j \in DOMAIN x.revs |-> IF approve /\ j \in others THEN [x.revs[j] EXCEPT !.status = "superseded"]
                                                ELSE x.revs[j]]
             verdict == IF approve THEN "active" ELSE "rejected"
             new(j) == IF j = i THEN verdict ELSE IF approve /\ j \in others THEN "superseded" ELSE x.revs[j].status
             R == [retired EXCEPT ![i].status = verdict]
  <1>0. i \in DOMAIN x.revs /\ x.revs[i].kind = "export"
    BY Zenon DEF Arts!OfKind
  <1>1. CASE key \in x.receipts \/ x.revs[i].status # "reviewing" \/ Arts!LatestOf(x, x.revs[i].kind) # i
    <2>1. y = x
      BY Zenon, <1>1 DEF Arts!ApplyReviewPostgres
    <2>2. Arts!ReviewOutcome(x, key, i) # "lost" => key \in x.receipts
      BY Zenon, <1>1 DEF Arts!ReviewOutcome
    <2> HIDE DEF y
    <2> QED BY Zenon, <2>1, <2>2, ArtsSame DEF IsReviewed, y
  <1>2. CASE ~(key \in x.receipts \/ x.revs[i].status # "reviewing" \/ Arts!LatestOf(x, x.revs[i].kind) # i)
    <2>1. y = [revs |-> R, receipts |-> x.receipts \cup {key}]
      BY Zenon, <1>2 DEF Arts!ApplyReviewPostgres
    <2>2. n \in Nat /\ DOMAIN x.revs = 1 .. n /\ \A j \in 1 .. n : x.revs[j] \in RevisionRows
      BY Zenon, ArtifactParts
    <2>3. R = [j \in 1 .. n |-> R[j]] /\ \A j \in 1 .. n : R[j] = IF j = i THEN [retired[i] EXCEPT !.status = verdict] ELSE retired[j]
      BY Zenon, <1>0, <2>2
    <2>4. \A j \in 1 .. n : retired[j] = IF approve /\ j \in others THEN [x.revs[j] EXCEPT !.status = "superseded"] ELSE x.revs[j]
      BY Zenon, <2>2
    <2>5. verdict \in {"active", "rejected"}
      BY Zenon
    <2>6. i \notin others
      BY Zenon
    <2> HIDE DEF R, retired, others, verdict
    <2>7. ASSUME NEW j \in 1 .. n
          PROVE  R[j] \in RevisionRows /\ R[j].kind = x.revs[j].kind /\ R[j].status = new(j)
      <3>1. x.revs[j] \in RevisionRows
        BY Zenon, <2>2
      <3>2. CASE j = i
        <4>1. R[j] = [x.revs[j] EXCEPT !.status = verdict]
          BY ZenonT(60), <2>3, <2>4, <2>6, <3>2
        <4>2. new(j) = verdict
          BY Zenon, <3>2
        <4> HIDE DEF new
        <4> QED BY Zenon, <2>5, <3>1, <4>1, <4>2 DEF RevisionRows
      <3>3. CASE j # i /\ approve /\ j \in others
        <4>1. R[j] = [x.revs[j] EXCEPT !.status = "superseded"]
          BY Zenon, <2>3, <2>4, <3>3
        <4>2. new(j) = "superseded"
          BY Zenon, <3>3
        <4> HIDE DEF new
        <4> QED BY Zenon, <3>1, <4>1, <4>2 DEF RevisionRows
      <3>4. CASE j # i /\ ~(approve /\ j \in others)
        BY Zenon, <2>3, <2>4, <3>1, <3>4
      <3> QED BY Zenon, <3>2, <3>3, <3>4
    <2>8. R \in Seq(RevisionRows) /\ Len(R) = n /\ DOMAIN R = 1 .. n
      <3>1. \A j \in 1 .. n : R[j] \in RevisionRows
        BY Zenon, <2>7
      <3>2. R = [j \in 1 .. n |-> R[j]]
        BY Zenon, <2>3
      <3>3. n \in Nat
        BY Zenon, <2>2
      <3> HIDE DEF n, new
      <3> QED BY <3>1, <3>2, <3>3
    <2>9. y \in Artifacts /\ y.revs = R /\ y.receipts = x.receipts \cup {key}
      <3>1. x.receipts \cup {key} \subseteq CommandKeys
        BY Zenon, ArtifactParts
      <3> QED BY <2>1, <2>8, <3>1 DEF Artifacts
    <2> HIDE DEF y
    <2>10. ArtsForward(x, y)
      BY <2>2, <2>7, <2>8, <2>9 DEF ArtsForward
    <2>11. ASSUME NEW j \in ActiveExports(y) PROVE (j \in ActiveExports(x) /\ ~approve) \/ (j = i /\ approve)
      <3>1. j \in 1 .. n /\ R[j].kind = "export" /\ R[j].status = "active"
        BY Zenon, <2>8, <2>9 DEF ActiveExports, Arts!OfKind
      <3>2. x.revs[j].kind = "export" /\ new(j) = "active"
        BY Zenon, <2>7, <3>1
      <3>3. j # i /\ x.revs[j].status = "active" => j \in others
        BY Zenon, <1>0, <2>2, <3>1, <3>2 DEF others, Arts!OfKind
      <3>4. j = i => approve
        BY Zenon, <3>2 DEF verdict
      <3> QED BY Zenon, <2>2, <3>1, <3>2, <3>3, <3>4 DEF ActiveExports, Arts!OfKind
    <2>12. AtMostOne(ActiveExports(y))
      BY Zenon, <2>11 DEF AtMostOne
    <2>13. key \in y.receipts
      BY Zenon, <2>9
    <2> QED BY Zenon, <2>9, <2>10, <2>11, <2>12, <2>13 DEF IsReviewed, y
  <1> QED BY Zenon, <1>1, <1>2

-----------------------------------------------------------------------------
(* What the runtime does to a target *)

(* The keys of review commands *)
LEMMA KeyTypes ==
  ASSUME NEW a \in Approvals, NEW status \in Statuses
  PROVE  CommandKey(a, status) \in CommandKeys /\ CleanupKey(a) \in CommandKeys
  BY Zenon DEF CommandKey, CleanupKey, CommandKeys, Reviewable, Statuses

(* Two commands share no key. *)
LEMMA DistinctKeys ==
  ASSUME NEW a \in Approvals, NEW x \in Approvals, NEW status, NEW other, CommandKey(a, status) = CommandKey(x, other)
  PROVE  a = x /\ status = other
  BY Zenon DEF CommandKey

(* One candidate changes. *)
LEMMA CandidateUpdate ==
  ASSUME NEW b \in Boards, NEW n \in Candidates, NEW x \in CandidateStates
  PROVE  LET C == [b.cand EXCEPT ![n] = x]
         IN  /\ [b EXCEPT !.cand[n] = x] = WithCandidates(b, C)
             /\ C \in [Candidates -> CandidateStates]
             /\ C[n] = x /\ \A m \in Candidates : m # n => C[m] = b.cand[m]
  BY Zenon DEF Boards, WithCandidates

(* cleanupStaleArtifact closes the review of a plan or a candidate. *)
LEMMA CleanupMoves ==
  ASSUME NEW u \in Targets, TargetInv(u), NEW a \in Approvals, Exists(u, a)
  PROVE  /\ Moves(u, Cleanup(u, a), {})
         /\ a[1] \in {"plan", "cand"} => Closed(Cleanup(u, a), a)
  <1> DEFINE b == u.board
             key == CleanupKey(a)
  <1>0. b \in Boards /\ BoardInv(b, u.specs) /\ key \in CommandKeys
    BY Zenon, TargetParts, KeyTypes DEF TargetInv, Statuses
  <1>00. \A x \in Approvals, status \in Statuses : CommandKey(x, status) # key
    BY Zenon, OtherKey DEF CleanupKey
  <1>1. CASE a[1] = "plan" /\ b.pending = a[2]
    <2> DEFINE c == RejectPending(b, b.pending, key)
    <2>1. Cleanup(u, a) = [u EXCEPT !.board = c]
      BY Zenon, <1>1 DEF Cleanup
    <2>2. b.pending # 0
      BY Zenon, <1>1, ApprovalKinds
    <2>23. IsRejected(u.specs, b, c, key)
      BY Zenon, <1>0, <2>2, PendingRejected
    <2> HIDE DEF c, key
    <2>3. /\ c \in Boards /\ BoardInv(c, u.specs) /\ BoardForward(b, c)
          /\ DOMAIN c.plans = DOMAIN b.plans
          /\ \A i \in DOMAIN c.plans : c.plans[i].status = "active" => b.plans[i].status = "active"
          /\ c.plans[b.pending].status = "rejected"
          /\ c.cand = b.cand
          /\ c.applied = b.applied \cup {key}
      BY Zenon, <2>23 DEF IsRejected
    <2>4. Moves(u, [u EXCEPT !.board = c], {})
      BY Zenon, <1>00, <2>3, BoardMove
    <2>5. Closed([u EXCEPT !.board = c], a)
      BY Zenon, <1>1, <2>3 DEF Closed, Targets
    <2> QED BY Zenon, <2>1, <2>4, <2>5
  <1>2. CASE a[1] = "cand" /\ b.cand[a[2]] = "candidate"
    <2> DEFINE n == a[2]
               C == [b.cand EXCEPT ![n] = "rejected"]
               c == Touched(WithCandidates(b, C), key)
    <2>1. n \in Candidates
      BY Zenon, <1>2, ApprovalKinds
    <2>2. /\ [b EXCEPT !.cand[n] = "rejected"] = WithCandidates(b, C)
          /\ C \in [Candidates -> CandidateStates]
          /\ C[n] = "rejected" /\ \A m \in Candidates : m # n => C[m] = b.cand[m]
      BY ZenonT(60), <1>0, <2>1, CandidateUpdate DEF CandidateStates
    <2>3. Cleanup(u, a) = [u EXCEPT !.board = c]
      BY Zenon, <1>2, <2>2 DEF Cleanup, RejectBinding
    <2> HIDE DEF C
    <2>34. IsRedrawn(u.specs, b, c, C, key)
      BY Zenon, <1>0, <2>2, CandidatesChanged
    <2> HIDE DEF c, key
    <2>4. /\ c \in Boards /\ BoardInv(c, u.specs) /\ BoardForward(b, c)
          /\ c.plans = b.plans /\ c.cand = C /\ c.applied = b.applied \cup {key}
      BY Zenon, <2>34 DEF IsRedrawn
    <2>5. Moves(u, [u EXCEPT !.board = c], {})
      BY Zenon, <1>00, <2>2, <2>4, BoardMove
    <2>6. Closed([u EXCEPT !.board = c], a)
      BY Zenon, <1>2, <2>2, <2>4 DEF Closed, Targets
    <2> QED BY <2>3, <2>5, <2>6
  <1>3. CASE ~(a[1] = "plan" /\ b.pending = a[2]) /\ ~(a[1] = "cand" /\ b.cand[a[2]] = "candidate")
    <2>1. Cleanup(u, a) = u
      BY Zenon, <1>3 DEF Cleanup
    <2>2. a[1] \in {"plan", "cand"} => Closed(u, a)
      BY Zenon, <1>0, <1>3 DEF Closed, Exists, BoardInv
    <2> QED BY Zenon, <2>1, <2>2, StandsStill
  <1> QED BY Zenon, <1>1, <1>2, <1>3

(* What the frozen command leaves for its own approval *)
Carried(u, w, a, status) ==
  /\ status # "approved" /\ InEffect(w, a) => InEffect(u, a)
  /\ RunOutcome(u, a, status) = "ok" => Closed(w, a) /\ Traced(w, a, status)
  /\ RunOutcome(u, a, status) # "ok" => w = u
  /\ a[1] = "cand" /\ w.board.cand[a[2]] = "candidate" => u.board.cand[a[2]] = "candidate"

(* The command on a spec *)
LEMMA SpecCommandMoves ==
  ASSUME NEW u \in Targets, TargetInv(u), NEW a \in Approvals, Exists(u, a), NEW status \in Statuses,
         a[1] = "spec", RunOutcome(u, a, status) = "ok"
  PROVE  \A w \in Ran(u, a, status) : Moves(u, w, {a}) /\ Carried(u, w, a, status)
  <1> DEFINE v == a[2]
             approve == status = "approved"
             s == Specs!DecideRevisionPostgres(u.specs, v, approve)
             w == [u EXCEPT !.specs = s]
  <1>1. Ran(u, a, status) = {w}
    BY Zenon DEF Ran
  <1>2. u.specs \in Seq(SpecRows) /\ SpecsInv(u.specs) /\ v \in DOMAIN u.specs /\ approve \in BOOLEAN
    BY Zenon, TargetParts DEF TargetInv, Exists
  <1>3. Specs!DecideOutcome(u.specs, v, approve) # "error"
    BY Zenon DEF RunOutcome
  <1> HIDE DEF approve
  <1>4. /\ s \in Seq(SpecRows) /\ SpecsInv(s) /\ SpecsForward(u.specs, s)
        /\ \A x \in DOMAIN s : s[x].status = "confirmed" => u.specs[x].status = "confirmed" \/ (x = v /\ approve)
        /\ s[v].status # "reviewing"
    BY <1>2, <1>3, DecidedSpecs
  <1>5. DOMAIN s = DOMAIN u.specs
    BY Zenon, <1>2 DEF Specs!DecideRevisionPostgres, Specs!Update
  <1>6. a = <<"spec", v>>
    BY Zenon, ApprovalKinds
  <1> HIDE DEF s
  <1>7. Moves(u, w, {a})
    BY Zenon, <1>4, <1>5, <1>6, SpecsMove
  <1>8. w.specs = s /\ w.board = u.board
    BY Zenon DEF Targets
  <1> HIDE DEF w
  <1>9. Carried(u, w, a, status)
    BY ZenonT(60), <1>2, <1>4, <1>5, <1>8 DEF Carried, InEffect, Closed, Traced, approve
  <1> QED BY Zenon, <1>1, <1>7, <1>9

(* The command on an export result *)
LEMMA ExportCommandMoves ==
  ASSUME NEW u \in Targets, TargetInv(u), NEW a \in Approvals, Exists(u, a), NEW status \in Statuses,
         a[1] = "export", RunOutcome(u, a, status) = "ok"
  PROVE  \A w \in Ran(u, a, status) : Moves(u, w, {a}) /\ Carried(u, w, a, status)
  <1> DEFINE i == a[2]
             approve == status = "approved"
             key == CommandKey(a, status)
             y == Arts!ApplyReviewPostgres(u.arts, key, i, approve)
             w == [u EXCEPT !.arts = y]
  <1>1. Ran(u, a, status) = {w}
    BY Zenon DEF Ran
  <1>2. /\ u.arts \in Artifacts /\ AtMostOne(ActiveExports(u.arts)) /\ i \in Arts!OfKind(u.arts, "export")
        /\ approve \in BOOLEAN /\ key \in CommandKeys
    BY Zenon, TargetParts, KeyTypes DEF TargetInv, Exists
  <1>3. Arts!ReviewOutcome(u.arts, key, i) # "lost"
    BY Zenon DEF RunOutcome
  <1> HIDE DEF approve, key
  <1>34. IsReviewed(u.arts, y, key, i, approve)
    BY Zenon, <1>2, RevisionReviewed
  <1> HIDE DEF y
  <1>4. /\ y \in Artifacts /\ ArtsForward(u.arts, y) /\ AtMostOne(ActiveExports(y))
        /\ \A j \in ActiveExports(y) : j \in ActiveExports(u.arts) \/ (j = i /\ approve)
        /\ key \in y.receipts
    BY Zenon, <1>3, <1>34 DEF IsReviewed
  <1>6. a = <<"export", i>>
    BY Zenon, ApprovalKinds
  <1> HIDE DEF y
  <1>7. Moves(u, w, {a})
    BY Zenon, <1>4, <1>6, ArtsMove
  <1>8. w.arts = y /\ w.board = u.board
    BY Zenon DEF Targets
  <1> HIDE DEF w
  <1>9. Carried(u, w, a, status)
    BY Zenon, <1>2, <1>4, <1>8 DEF Carried, InEffect, Closed, Traced, approve, key
  <1> QED BY Zenon, <1>1, <1>7, <1>9

(* The command on a plan *)
LEMMA PlanCommandMoves ==
  ASSUME NEW u \in Targets, TargetInv(u), NEW a \in Approvals, Exists(u, a), NEW status \in Statuses,
         a[1] = "plan", RunOutcome(u, a, status) = "ok"
  PROVE  \A w \in Ran(u, a, status) : Moves(u, w, {a}) /\ Carried(u, w, a, status)
  <1> DEFINE b == u.board
             key == CommandKey(a, status)
  <1>0. b \in Boards /\ BoardInv(b, u.specs) /\ key \in CommandKeys
    BY Zenon, TargetParts, KeyTypes DEF TargetInv
  <1>1. b.pending = a[2] /\ b.pending # 0 /\ a = <<"plan", b.pending>>
    BY Zenon, ApprovalKinds DEF RunOutcome
  <1>2. \A x \in Approvals \ {a}, other \in Statuses : CommandKey(x, other) # key
    BY Zenon, DistinctKeys
  <1>3. CASE status = "approved"
    <2> DEFINE c == PromotePending(b, b.pending, key)
               w == [u EXCEPT !.board = c]
    <2>1. Ran(u, a, status) = {w}
      BY Zenon, <1>1, <1>3 DEF Ran
    <2>12. IsPromoted(u.specs, b, c, key)
      BY Zenon, <1>0, <1>1, Promoted
    <2> HIDE DEF c, key
    <2>2. /\ c \in Boards /\ BoardInv(c, u.specs) /\ BoardForward(b, c)
          /\ DOMAIN c.plans = DOMAIN b.plans
          /\ \A i \in DOMAIN c.plans : c.plans[i].status = "active" => i = b.pending
          /\ c.plans[b.pending].status = "active"
          /\ \A n \in Candidates : c.cand[n] # "candidate" /\ (c.cand[n] = "active" => b.cand[n] = "active")
          /\ c.applied = b.applied \cup {key}
      BY Zenon, <2>12 DEF IsPromoted
    <2>3. Moves(u, w, {a})
      BY <1>1, <1>2, <2>2, BoardMove
    <2>4. w.board = c
      BY Zenon DEF Targets
    <2> HIDE DEF w
    <2>5. Carried(u, w, a, status)
      BY ZenonT(60), <1>1, <1>3, <2>2, <2>4 DEF Carried, Closed, Traced, key
    <2> QED BY Zenon, <2>1, <2>3, <2>5
  <1>4. CASE status # "approved"
    <2> DEFINE c == RejectPending(b, b.pending, key)
               w == [u EXCEPT !.board = c]
    <2>1. Ran(u, a, status) = {w}
      BY Zenon, <1>1, <1>4 DEF Ran
    <2>12. IsRejected(u.specs, b, c, key)
      BY <1>0, <1>1, PendingRejected
    <2> HIDE DEF c, key
    <2>2. /\ c \in Boards /\ BoardInv(c, u.specs) /\ BoardForward(b, c)
          /\ DOMAIN c.plans = DOMAIN b.plans
          /\ \A i \in DOMAIN c.plans : c.plans[i].status = "active" => b.plans[i].status = "active"
          /\ c.plans[b.pending].status = "rejected"
          /\ c.cand = b.cand
          /\ c.applied = b.applied \cup {key}
      BY Zenon, <2>12 DEF IsRejected
    <2>3. Moves(u, w, {a})
      BY Zenon, <1>1, <1>2, <2>2, BoardMove
    <2>4. w.board = c
      BY DEF Targets
    <2> HIDE DEF w
    <2>5. Carried(u, w, a, status)
      BY ZenonT(60), <1>1, <1>4, <2>2, <2>4 DEF Carried, InEffect, Closed, Traced, key
    <2> QED BY <2>1, <2>3, <2>5
  <1> QED BY Zenon, <1>3, <1>4

(* The command on a candidate *)
LEMMA CandidateCommandMoves ==
  ASSUME NEW u \in Targets, TargetInv(u), NEW a \in Approvals, Exists(u, a), NEW status \in Statuses,
         a[1] = "cand", RunOutcome(u, a, status) = "ok"
  PROVE  \A w \in Ran(u, a, status) : Moves(u, w, {a}) /\ Carried(u, w, a, status)
  <1> DEFINE b == u.board
             n == a[2]
             key == CommandKey(a, status)
  <1>0. b \in Boards /\ BoardInv(b, u.specs) /\ key \in CommandKeys /\ b.cand \in [Candidates -> CandidateStates]
    BY Zenon, TargetParts, KeyTypes DEF TargetInv
  <1>1. b.cand[n] = "candidate" /\ n \in Candidates /\ a = <<"cand", n>>
    BY Zenon, ApprovalKinds DEF RunOutcome
  <1>2. \A x \in Approvals \ {a}, other \in Statuses : CommandKey(x, other) # key
    BY Zenon, DistinctKeys
  <1>3. ASSUME NEW C \in [Candidates -> CandidateStates], C[n] \in {"active", "rejected"},
               status # "approved" => C[n] = "rejected",
               \A m \in Candidates : m # n => C[m] = b.cand[m] \/ (b.cand[m] = "candidate" /\ C[m] = "superseded")
        PROVE  LET w == [u EXCEPT !.board = Touched(WithCandidates(b, C), key)]
               IN  Moves(u, w, {a}) /\ Carried(u, w, a, status)
    <2> DEFINE c == Touched(WithCandidates(b, C), key)
               w == [u EXCEPT !.board = c]
    <2>0. \A m \in Candidates : b.cand[m] \notin {"none", "running"} =>
            C[m] \notin {"none", "running"} /\ (b.cand[m] # "candidate" => C[m] # "candidate")
      BY Zenon, <1>1, <1>3
    <2>01. IsRedrawn(u.specs, b, c, C, key)
      BY Zenon, <1>0, <2>0, CandidatesChanged
    <2> HIDE DEF c, key
    <2>1. /\ c \in Boards /\ BoardInv(c, u.specs) /\ BoardForward(b, c)
          /\ c.plans = b.plans /\ c.cand = C /\ c.applied = b.applied \cup {key}
      BY Zenon, <2>01 DEF IsRedrawn
    <2>2. \A m \in Candidates : C[m] \in {"active", "candidate"} => C[m] = b.cand[m] \/ <<"cand", m>> \in {a}
      BY Zenon, <1>1, <1>3
    <2> HIDE DEF c, key
    <2>3. Moves(u, w, {a})
      BY Zenon, <1>2, <2>1, <2>2, BoardMove
    <2>4. w.board = c
      BY Zenon DEF Targets
    <2> HIDE DEF w
    <2>5. Carried(u, w, a, status)
      BY ZenonT(60), <1>1, <1>3, <2>1, <2>4 DEF Carried, InEffect, Closed, Traced, key
    <2> QED BY Zenon, <2>3, <2>5 DEF w, c
  <1>4. CASE status = "approved"
    <2> SUFFICES ASSUME NEW lost \in SUBSET (OpenCandidates(b) \ {n})
                 PROVE  LET w == [u EXCEPT !.board = ActivateBinding(b, n, key, lost)]
                        IN  Moves(u, w, {a}) /\ Carried(u, w, a, status)
      <3>1. Ran(u, a, status) = {[u EXCEPT !.board = ActivateBinding(b, n, key, lost)] :
                                   lost \in SUBSET (OpenCandidates(b) \ {n})}
        BY Zenon, <1>4 DEF Ran
      <3> QED BY Zenon, <3>1
    <2> DEFINE C == [m \in Candidates |-> IF m = n THEN "active" ELSE IF m \in lost THEN "superseded" ELSE b.cand[m]]
    <2>1. ActivateBinding(b, n, key, lost) = Touched(WithCandidates(b, C), key)
      BY Zenon DEF ActivateBinding, WithCandidates
    <2>2. \A m \in lost : b.cand[m] = "candidate"
      BY Zenon DEF OpenCandidates
    <2>3. /\ C \in [Candidates -> CandidateStates] /\ C[n] = "active"
          /\ \A m \in Candidates : m # n => C[m] = b.cand[m] \/ (b.cand[m] = "candidate" /\ C[m] = "superseded")
      BY ZenonT(60), <1>0, <1>1, <2>2 DEF CandidateStates
    <2> HIDE DEF C
    <2> QED BY Zenon, <1>3, <1>4, <2>1, <2>3
  <1>5. CASE status # "approved"
    <2> DEFINE C == [b.cand EXCEPT ![n] = "rejected"]
    <2>1. /\ [b EXCEPT !.cand[n] = "rejected"] = WithCandidates(b, C)
          /\ C \in [Candidates -> CandidateStates]
          /\ C[n] = "rejected" /\ \A m \in Candidates : m # n => C[m] = b.cand[m]
      <3>1. b \in Boards /\ n \in Candidates /\ "rejected" \in CandidateStates
        BY Zenon, <1>0, <1>1 DEF CandidateStates
      <3> HIDE DEF b, n
      <3> QED BY Zenon, <3>1, CandidateUpdate
    <2>2. Ran(u, a, status) = {[u EXCEPT !.board = Touched(WithCandidates(b, C), key)]}
      <3>1. Ran(u, a, status) = {[u EXCEPT !.board = RejectBinding(b, n, key)]}
        BY Zenon, <1>5 DEF Ran
      <3>2. RejectBinding(b, n, key) = Touched(WithCandidates(b, C), key)
        BY Zenon, <2>1 DEF RejectBinding
      <3> QED BY Zenon, <3>1, <3>2
    <2> HIDE DEF C
    <2> QED BY ZenonT(60), <1>3, <1>5, <2>1, <2>2
  <1> QED BY Zenon, <1>4, <1>5

(* The command of a decision moves its target forward and leaves its trace. *)
LEMMA RanMoves ==
  ASSUME NEW u \in Targets, TargetInv(u), NEW a \in Approvals, Exists(u, a), NEW status \in Statuses
  PROVE  \A w \in Ran(u, a, status) : Moves(u, w, {a}) /\ Carried(u, w, a, status)
  <1>1. CASE RunOutcome(u, a, status) # "ok"
    <2>1. Ran(u, a, status) = {u}
      BY Zenon, <1>1 DEF Ran
    <2>2. Carried(u, u, a, status)
      BY Zenon, <1>1 DEF Carried
    <2> QED BY Zenon, <2>1, <2>2, StandsStill
  <1>2. CASE RunOutcome(u, a, status) = "ok"
    <2>1. a[1] \in {"spec", "plan", "export", "cand"}
      BY Zenon, ApprovalKinds
    <2> QED BY ZenonT(60), <1>2, <2>1, SpecCommandMoves, PlanCommandMoves, CandidateCommandMoves, ExportCommandMoves
  <1> QED BY Zenon, <1>1, <1>2

-----------------------------------------------------------------------------
(* What planners and the rest of the session do to it *)

(* A spec is saved. *)
LEMMA SpecSaved ==
  ASSUME NEW u \in Targets, TargetInv(u), NEW q \in Requests
  PROVE  LET w == [u EXCEPT !.specs = Specs!SavePostgres(u.specs, q)]
         IN  Moves(u, w, {}) /\ Specs!SavedVersion(u.specs, q) \in DOMAIN w.specs
  <1> DEFINE s == Specs!SavePostgres(u.specs, q)
  <1>1. u.specs \in Seq(SpecRows) /\ SpecsInv(u.specs)
    BY Zenon, TargetParts DEF TargetInv
  <1>2. /\ s \in Seq(SpecRows) /\ SpecsInv(s) /\ SpecsForward(u.specs, s)
        /\ \A v \in DOMAIN s : s[v].status = "confirmed" => v \in DOMAIN u.specs /\ u.specs[v].status = "confirmed"
        /\ Specs!SavedVersion(u.specs, q) \in DOMAIN s
    BY Zenon, <1>1, SavedSpecs
  <1> HIDE DEF s
  <1>3. Moves(u, [u EXCEPT !.specs = s], {})
    BY Zenon, <1>2, SpecsMove
  <1>4. [u EXCEPT !.specs = s].specs = s
    BY Zenon DEF Targets
  <1> QED BY Zenon, <1>2, <1>3, <1>4 DEF s

(* A plan is saved. *)
LEMMA PlanSaved ==
  ASSUME NEW u \in Targets, TargetInv(u), NEW q \in Requests, NEW v, WasConfirmed(u.specs, v), u.board.pending = 0
  PROVE  LET w == [u EXCEPT !.board = CreatePending(u.board, q, v)]
         IN  Moves(u, w, {}) /\ Len(u.board.plans) + 1 \in DOMAIN w.board.plans
  <1> DEFINE b == u.board
             c == CreatePending(b, q, v)
  <1>1. b \in Boards /\ BoardInv(b, u.specs) /\ v \in Nat \ {0}
    BY SMTT(30), TargetParts DEF TargetInv, WasConfirmed
  <1>2. /\ c \in Boards /\ BoardInv(c, u.specs) /\ BoardForward(b, c)
        /\ \A i \in DOMAIN c.plans : c.plans[i].status = "active" => i \in DOMAIN b.plans /\ b.plans[i].status = "active"
        /\ c.cand = b.cand /\ c.applied = b.applied \cup {q}
        /\ Len(b.plans) + 1 \in DOMAIN c.plans
    BY Zenon, <1>1, CreatedPending
  <1>3. \A x \in Approvals, status \in Statuses : CommandKey(x, status) # q
    BY Zenon, KeyTypes, IdentityAssumption
  <1> HIDE DEF c
  <1>4. Moves(u, [u EXCEPT !.board = c], {})
    BY Zenon, <1>2, <1>3, BoardMove
  <1>5. [u EXCEPT !.board = c].board = c
    BY Zenon DEF Targets
  <1> QED BY Zenon, <1>2, <1>4, <1>5 DEF c

(* A revision is saved. *)
LEMMA RevisionSaved ==
  ASSUME NEW u \in Targets, TargetInv(u), NEW key \in Exports \cup Analyses,
         NEW kind \in {"export", "analysis"}, NEW status \in {"reviewing", "active"}, kind = "export" => status = "reviewing"
  PROVE  LET w == [u EXCEPT !.arts = Arts!CreateRevisionPostgres(u.arts, key, kind, status)]
         IN  Moves(u, w, {}) /\ (Arts!ByKey(u.arts, key) = {} => Len(u.arts.revs) + 1 \in Arts!OfKind(w.arts, kind))
  <1> DEFINE y == Arts!CreateRevisionPostgres(u.arts, key, kind, status)
  <1>1. u.arts \in Artifacts /\ AtMostOne(ActiveExports(u.arts))
    BY Zenon, TargetParts DEF TargetInv
  <1>2. /\ y \in Artifacts /\ ArtsForward(u.arts, y) /\ AtMostOne(ActiveExports(y))
        /\ ActiveExports(y) \subseteq ActiveExports(u.arts)
        /\ Arts!ByKey(u.arts, key) = {} => Len(u.arts.revs) + 1 \in Arts!OfKind(y, kind)
    BY Zenon, <1>1, RevisionCreated
  <1> HIDE DEF y
  <1>3. Moves(u, [u EXCEPT !.arts = y], {})
    BY Zenon, <1>2, ArtsMove
  <1>4. [u EXCEPT !.arts = y].arts = y
    BY Zenon DEF Targets
  <1> QED BY Zenon, <1>2, <1>3, <1>4 DEF y

(* The generation of a candidate starts, or its result is dropped. *)
LEMMA GenerationMoves ==
  ASSUME NEW u \in Targets, TargetInv(u), NEW n \in Candidates, NEW x \in {"running", "superseded"},
         u.board.cand[n] \in {"none", "running"}
  PROVE  Moves(u, [u EXCEPT !.board.cand[n] = x], {})
  <1> DEFINE b == u.board
             C == [b.cand EXCEPT ![n] = x]
             c == WithCandidates(b, C)
  <1>1. b \in Boards /\ BoardInv(b, u.specs) /\ b.cand \in [Candidates -> CandidateStates]
    BY Zenon, TargetParts DEF TargetInv
  <1>2. [u EXCEPT !.board.cand[n] = x] = [u EXCEPT !.board = c]
    BY Zenon DEF Targets, Boards, WithCandidates
  <1>3. C \in [Candidates -> CandidateStates] /\ C[n] = x /\ \A m \in Candidates : m # n => C[m] = b.cand[m]
    BY Zenon, <1>1 DEF CandidateStates
  <1> HIDE DEF C
  <1>4. /\ c \in Boards /\ c.plans = b.plans /\ c.pending = b.pending /\ c.active = b.active
        /\ c.cand = C /\ c.applied = b.applied
    BY Zenon, <1>1, <1>3 DEF Boards, WithCandidates
  <1> HIDE DEF c
  <1>5. BoardInv(c, u.specs)
    BY SMTT(30), <1>1, <1>4 DEF BoardInv
  <1>6. BoardForward(b, c)
    BY <1>1, <1>3, <1>4 DEF BoardForward, Boards
  <1> QED BY <1>2, <1>3, <1>4, <1>5, <1>6, BoardMove

(* The state of one candidate changes under a command of its own. *)
LEMMA CandidateMoves ==
  ASSUME NEW u \in Targets, TargetInv(u), NEW n \in Candidates, NEW x \in {"candidate", "superseded"},
         u.board.cand[n] \in {"running", "candidate"}, NEW tag \in {"commit", "edit"}
  PROVE  LET w == [u EXCEPT !.board = Touched([u.board EXCEPT !.cand[n] = x], CommandKey(<<"cand", n>>, tag))]
         IN  /\ Moves(u, w, IF x = "candidate" THEN {<<"cand", n>>} ELSE {})
             /\ w.board.cand[n] = x
             /\ \A y \in Approvals, status \in Statuses :
                  CommandKey(y, status) \in w.board.applied => CommandKey(y, status) \in u.board.applied
             /\ \A y \in Approvals : InEffect(w, y) => InEffect(u, y)
  <1> DEFINE b == u.board
             key == CommandKey(<<"cand", n>>, tag)
             C == [b.cand EXCEPT ![n] = x]
             c == Touched(WithCandidates(b, C), key)
             w == [u EXCEPT !.board = c]
  <1>0. x \in CandidateStates
    BY Zenon DEF CandidateStates
  <1>1. b \in Boards /\ BoardInv(b, u.specs) /\ b.cand \in [Candidates -> CandidateStates]
    BY Zenon, TargetParts DEF TargetInv
  <1>2. key \in CommandKeys /\ \A y \in Approvals, status \in Statuses : CommandKey(y, status) # key
    BY Zenon, OtherKey DEF CommandKey, CommandKeys, Reviewable
  <1>3. /\ [b EXCEPT !.cand[n] = x] = WithCandidates(b, C)
        /\ C \in [Candidates -> CandidateStates]
        /\ C[n] = x /\ \A m \in Candidates : m # n => C[m] = b.cand[m]
    <2> HIDE DEF b
    <2> QED BY <1>0, <1>1, CandidateUpdate
  <1> HIDE DEF C, key
  <1>4. \A m \in Candidates : b.cand[m] \notin {"none", "running"} =>
          C[m] \notin {"none", "running"} /\ (b.cand[m] # "candidate" => C[m] # "candidate")
    BY Zenon, <1>3
  <1>45. IsRedrawn(u.specs, b, c, C, key)
    BY Zenon, <1>1, <1>2, <1>3, <1>4, CandidatesChanged
  <1> HIDE DEF c
  <1>5. /\ c \in Boards /\ BoardInv(c, u.specs) /\ BoardForward(b, c)
        /\ c.plans = b.plans /\ c.cand = C /\ c.applied = b.applied \cup {key}
    BY Zenon, <1>45 DEF IsRedrawn
  <1> DEFINE S == IF x = "candidate" THEN {<<"cand", n>>} ELSE {}
  <1>6. \A m \in Candidates : C[m] \in {"active", "candidate"} => C[m] = b.cand[m] \/ <<"cand", m>> \in S
    BY Zenon, <1>3
  <1> HIDE DEF S
  <1>7. Moves(u, w, S)
    BY Zenon, <1>2, <1>5, <1>6, BoardMove
  <1>8. w.board = c /\ w.specs = u.specs /\ w.arts = u.arts
    BY Zenon DEF Targets
  <1> HIDE DEF w
  <1>9. \A y \in Approvals : InEffect(w, y) => InEffect(u, y)
    <2> SUFFICES ASSUME NEW y \in Approvals, InEffect(w, y) PROVE InEffect(u, y)
      BY Zenon
    <2>1. y[1] = "cand" => y[2] \in Candidates
      BY Zenon, ApprovalKinds
    <2> QED BY Zenon, <1>3, <1>5, <1>8, <2>1 DEF InEffect
  <1>10. w = [u EXCEPT !.board = Touched([b EXCEPT !.cand[n] = x], key)]
    BY Zenon, <1>3 DEF w, c
  <1> QED BY <1>2, <1>3, <1>5, <1>7, <1>8, <1>9, <1>10 DEF S, key

-----------------------------------------------------------------------------
(* The memory stores and the Postgres stores *)

(* The two spec stores do the same to revisions of which one is in review. *)
LEMMA SpecStoresAgree ==
  ASSUME NEW s \in Seq(SpecRows), SpecsInv(s)
  PROVE  SpecsAgree(s)
  <1> DEFINE n == Len(s)
  <1>0. DOMAIN s = 1 .. n /\ n \in Nat /\ (\A v \in DOMAIN s : s[v] \in SpecRows) /\ s = [v \in 1 .. n |-> s[v]]
    OBVIOUS
  <1>1. Specs!GetLatest(s) = Specs!GetLatestPostgres(s)
    BY Zenon, LatestIsLast DEF Specs!GetLatest
  <1>2. /\ Specs!LatestReviewing(s) = Specs!GetLatestReviewingPostgres(s)
        /\ Specs!GetConfirmed(s) = Specs!GetConfirmedPostgres(s)
    BY Zenon DEF Specs!LatestReviewing, Specs!GetLatestReviewingPostgres, Specs!GetConfirmed, Specs!GetConfirmedPostgres,
           Specs!VersionsIn
  <1>3. Specs!VersionsIn(s, "reviewing") \ {Specs!GetLatestReviewingPostgres(s)} = {}
    BY Zenon, TheOneRow DEF Specs!VersionsIn
  <1>4. Specs!ReconcileReviewing(s) = s
    BY Zenon, <1>0, <1>3 DEF Specs!ReconcileReviewing, Specs!Update
  <1>5. ASSUME NEW q \in Requests PROVE Specs!Save(s, q) = Specs!SavePostgres(s, q)
    <2> DEFINE m == [v \in DOMAIN s |-> IF s[v].status = "reviewing" THEN [s[v] EXCEPT !.status = "superseded"] ELSE s[v]]
               x == Specs!Reviewing(q)
               A == Append(m, x)
    <2>1. CASE Specs!KeyRow(s, q) # {}
      BY Zenon, <2>1 DEF Specs!Save, Specs!SavePostgres
    <2>2. CASE Specs!KeyRow(s, q) = {}
      <3>1. m = Specs!Update(s, Specs!VersionsIn(s, "reviewing"), "superseded")
        BY Zenon DEF Specs!Update, Specs!VersionsIn
      <3>2. Specs!NextVersion(s) = n + 1
        BY Zenon, LatestIsLast DEF Specs!NextVersion, Specs!GetLatestPostgres
      <3>3. /\ Specs!Save(s, q) = A
            /\ Specs!SavePostgres(s, q) = [v \in 1 .. n + 1 |-> IF v = n + 1 THEN x ELSE m[v]]
        BY Zenon, <2>2, <3>1, <3>2 DEF Specs!Save, Specs!SavePostgres
      <3>4. \A v \in DOMAIN s : [s[v] EXCEPT !.status = "superseded"] \in SpecRows
        BY Zenon, <1>0 DEF SpecRows
      <3>5. m \in [1 .. n -> SpecRows]
        BY Zenon, <1>0, <3>4
      <3>6. x \in SpecRows
        BY Zenon DEF Specs!Reviewing, SpecRows
      <3> HIDE DEF m, x
      <3>7. m \in Seq(SpecRows) /\ Len(m) = n
        BY <1>0, <3>5
      <3>8. A \in Seq(SpecRows) /\ Len(A) = n + 1 /\ A[n + 1] = x /\ \A v \in 1 .. n : A[v] = m[v]
        BY <1>0, <3>6, <3>7
      <3> HIDE DEF A
      <3>9. A = [v \in 1 .. n + 1 |-> A[v]]
        BY <1>0, <3>8
      <3>10. \A v \in 1 .. n + 1 : A[v] = IF v = n + 1 THEN x ELSE m[v]
        BY <1>0, <3>8
      <3>11. A = [v \in 1 .. n + 1 |-> IF v = n + 1 THEN x ELSE m[v]]
        BY ZenonT(60), <3>9, <3>10
      <3> QED BY Zenon, <3>3, <3>11
    <2> QED BY Zenon, <2>1, <2>2
  <1>6. ASSUME NEW v \in DOMAIN s, NEW approve \in BOOLEAN
        PROVE  Specs!DecideRevision(s, v, approve) = Specs!DecideRevisionPostgres(s, v, approve)
    <2>1. CASE s[v].status # "reviewing"
      BY Zenon, <2>1 DEF Specs!DecideRevision, Specs!DecideRevisionPostgres, Specs!DecideOutcome
    <2>2. CASE s[v].status = "reviewing"
      <3> DEFINE S == IF approve THEN Specs!VersionsIn(s, "confirmed") \ {v} ELSE {}
                 r == Specs!Update(s, S, "superseded")
                 d == Specs!DecisionStatus(approve)
      <3>1. Specs!GetLatestReviewingPostgres(s) = v /\ Specs!LatestReviewing(s) = v
        BY Zenon, <1>2, <2>2, TheOneRow
      <3>2. Specs!DecideOutcome(s, v, approve) = "ok"
        BY Zenon, <2>2, <3>1 DEF Specs!DecideOutcome, Specs!DecisionStatus
      <3>3. Specs!DecideRevisionPostgres(s, v, approve) = Specs!Update(r, {v}, d)
        BY Zenon, <2>2, <3>1 DEF Specs!DecideRevisionPostgres
      <3>4. Specs!DecideRevision(s, v, approve) =
              [w \in DOMAIN s |-> CASE w = v -> [s[w] EXCEPT !.status = d]
                                    [] w # v /\ approve /\ s[w].status = "confirmed" -> [s[w] EXCEPT !.status = "superseded"]
                                    [] OTHER -> s[w]]
        BY Zenon, <3>2 DEF Specs!DecideRevision
      <3>5. DOMAIN r = DOMAIN s /\ \A w \in DOMAIN s :
              r[w] = IF w # v /\ approve /\ s[w].status = "confirmed" THEN [s[w] EXCEPT !.status = "superseded"] ELSE s[w]
        BY Zenon DEF Specs!Update, Specs!VersionsIn
      <3> HIDE DEF r, d
      <3>6. Specs!Update(r, {v}, d) = [w \in DOMAIN s |-> IF w = v THEN [r[w] EXCEPT !.status = d] ELSE r[w]]
        BY Zenon, <3>5 DEF Specs!Update
      <3> QED BY Zenon, <3>3, <3>4, <3>5, <3>6
    <2> QED BY Zenon, <2>1, <2>2
  <1> QED BY Zenon, <1>1, <1>2, <1>4, <1>5, <1>6 DEF SpecsAgree

(* The two artifact stores do the same. *)
LEMMA ArtifactStoresAgree ==
  ASSUME NEW x \in Artifacts
  PROVE  ArtifactsAgree(x)
  <1>1. ASSUME NEW key \in Exports \cup Analyses, NEW kind \in {"export", "analysis"}
        PROVE  Arts!CreateRevision(x, key, kind, "active") = Arts!CreateRevisionPostgres(x, key, kind, "active")
    <2> DEFINE row == [key |-> key, kind |-> kind, status |-> "active"]
    <2>1. row \in RevisionRows
      BY Zenon DEF RevisionRows
    <2> HIDE DEF row
    <2>2. Append(x.revs, row) = x.revs \o <<row>>
      BY <2>1, ArtifactParts
    <2>3. (\E i \in DOMAIN x.revs : x.revs[i].key = key) <=> Arts!ByKey(x, key) # {}
      BY Zenon DEF Arts!ByKey
    <2> QED BY Zenon, <2>2, <2>3 DEF Arts!CreateRevision, Arts!CreateRevisionPostgres, row
  <1>2. ASSUME NEW i \in DOMAIN x.revs, NEW key, NEW approve \in BOOLEAN
        PROVE  Arts!ApplyReview(x, key, i, approve) = Arts!ApplyReviewPostgres(x, key, i, approve)
    <2> DEFINE others == {j \in Arts!OfKind(x, x.revs[i].kind) \ {i} : x.revs[j].status = "active"}
               retired == [j \in DOMAIN x.revs |-> IF approve /\ j \in others THEN [x.revs[j] EXCEPT !.status = "superseded"]
                                                  ELSE x.revs[j]]
               verdict == IF approve THEN "active" ELSE "rejected"
               lost == key \in x.receipts \/ x.revs[i].status # "reviewing" \/ Arts!LatestOf(x, x.revs[i].kind) # i
    <2>1. Arts!ReviewOutcome(x, key, i) = "ok" <=> ~lost
      BY Zenon DEF Arts!ReviewOutcome
    <2>2. Arts!ApplyReviewPostgres(x, key, i, approve) =
            IF lost THEN x ELSE [revs |-> [retired EXCEPT ![i].status = verdict], receipts |-> x.receipts \cup {key}]
      BY Zenon DEF Arts!ApplyReviewPostgres
    <2>3. [retired EXCEPT ![i].status = verdict] = Arts!Reviewed(x, i, approve)
      <3>1. \A j \in DOMAIN x.revs : j \in others <=> j # i /\ x.revs[j].kind = x.revs[i].kind /\ x.revs[j].status = "active"
        BY Zenon DEF Arts!OfKind
      <3> HIDE DEF others, verdict
      <3>2. retired[i] = x.revs[i] /\ DOMAIN retired = DOMAIN x.revs
        BY Zenon, <3>1
      <3> QED BY Zenon, <3>1, <3>2 DEF Arts!Reviewed, verdict
    <2> QED BY Zenon, <2>1, <2>2, <2>3 DEF Arts!ApplyReview
  <1>3. \A status \in {"approved", "rejected"} : (status = "approved") \in BOOLEAN
    BY Zenon
  <1> QED BY Zenon, <1>1, <1>2, <1>3 DEF ArtifactsAgree

-----------------------------------------------------------------------------
(* The start of a session *)

(* A sequence with one row *)
LEMMA OneRow ==
  ASSUME NEW S, NEW x \in S, NEW there
  PROVE  LET s == IF there THEN <<x>> ELSE <<>>
             m == IF there THEN 1 ELSE 0
         IN  s \in Seq(S) /\ DOMAIN s = 1 .. m /\ Len(s) = m /\ \A i \in 1 .. m : s[i] = x
  <1>1. CASE there
    <2>1. <<x>> \in Seq(S) /\ Len(<<x>>) = 1 /\ DOMAIN <<x>> = 1 .. 1 /\ <<x>>[1] = x
      OBVIOUS
    <2> QED BY <1>1, <2>1
  <1>2. CASE ~there
    <2>1. <<>> \in Seq(S) /\ Len(<<>>) = 0 /\ DOMAIN <<>> = 1 .. 0
      OBVIOUS
    <2> QED BY <1>2, <2>1
  <1> QED BY Zenon, <1>1, <1>2

(* What is reviewed when a session starts: nothing, or a spec and a plan    *)
(* whose reviews are over                                                  *)
Fresh(u, planned) ==
  u = [specs |-> IF planned THEN <<[key |-> None, status |-> "confirmed"]>> ELSE <<>>,
       arts |-> [revs |-> <<>>, receipts |-> {}],
       board |-> [plans |-> IF planned THEN <<[key |-> None, spec |-> 1, status |-> "active"]>> ELSE <<>>,
                  pending |-> 0, active |-> IF planned THEN 1 ELSE 0, applied |-> {}, version |-> 1,
                  cand |-> [n \in Candidates |-> "none"]]]

(* A session starts sound, and of the approvals only the two it starts with *)
(* are in effect.                                                           *)
LEMMA FreshIsSound ==
  ASSUME NEW u, NEW planned, Fresh(u, planned)
  PROVE  /\ u \in Targets /\ TargetInv(u)
         /\ \A a \in Approvals : InEffect(u, a) => a[1] \in {"spec", "plan"} /\ a[2] = 1 /\ planned
         /\ u.board.applied = {} /\ \A n \in Candidates : u.board.cand[n] = "none"
  <1> DEFINE x == [key |-> None, status |-> "confirmed"]
             y == [key |-> None, spec |-> 1, status |-> "active"]
             rows == IF planned THEN <<x>> ELSE <<>>
             plans == IF planned THEN <<y>> ELSE <<>>
             m == IF planned THEN 1 ELSE 0
             C == [n \in Candidates |-> "none"]
             b == [plans |-> plans, pending |-> 0, active |-> m, applied |-> {}, version |-> 1, cand |-> C]
             arts == [revs |-> <<>>, receipts |-> {}]
  <1>1. u = [specs |-> rows, arts |-> arts, board |-> b]
    BY Zenon DEF Fresh
  <1>2. rows \in Seq(SpecRows) /\ DOMAIN rows = 1 .. m /\ \A v \in 1 .. m : rows[v] = x
    <2>1. x \in SpecRows
      BY Zenon DEF SpecRows
    <2> HIDE DEF x
    <2> QED BY Zenon, <2>1, OneRow
  <1>3. plans \in Seq(PlanRows) /\ DOMAIN plans = 1 .. m /\ Len(plans) = m /\ \A i \in 1 .. m : plans[i] = y
    <2>1. y \in PlanRows
      BY DEF PlanRows
    <2> HIDE DEF y
    <2> QED BY Zenon, <2>1, OneRow
  <1>4. m \in {0, 1} /\ (m = 1 <=> planned)
    OBVIOUS
  <1>5. C \in [Candidates -> CandidateStates] /\ \A n \in Candidates : C[n] = "none"
    BY Zenon DEF CandidateStates
  <1> HIDE DEF rows, plans, m, C
  <1>6. b \in Boards /\ b.plans = plans /\ b.pending = 0 /\ b.active = m /\ b.applied = {} /\ b.cand = C
    BY <1>3, <1>4, <1>5 DEF Boards
  <1>7. arts \in Artifacts /\ arts.revs = <<>>
    BY DEF Artifacts
  <1> HIDE DEF b, arts
  <1>8. u \in Targets /\ u.specs = rows /\ u.board = b /\ u.arts = arts
    BY <1>1, <1>2, <1>6, <1>7 DEF Targets
  <1>9. SpecsInv(rows)
    BY <1>2, <1>4 DEF SpecsInv, AtMostOne, Specs!VersionsIn, Specs!KeyRow
  <1>10. BoardInv(b, rows)
    BY <1>2, <1>3, <1>4, <1>6 DEF BoardInv, WasConfirmed
  <1>11. ActiveExports(arts) = {}
    BY <1>7 DEF ActiveExports, Arts!OfKind
  <1>12. TargetInv(u)
    BY Zenon, <1>8, <1>9, <1>10, <1>11 DEF TargetInv, AtMostOne
  <1>13. ASSUME NEW a \in Approvals, InEffect(u, a)
         PROVE  a[1] \in {"spec", "plan"} /\ a[2] = 1 /\ planned
    <2>1. a[1] # "export"
      BY Zenon, <1>8, <1>11, <1>13 DEF InEffect
    <2>2. a[1] # "cand"
      BY Zenon, <1>5, <1>6, <1>8, <1>13, ApprovalKinds DEF InEffect
    <2> QED BY <1>2, <1>3, <1>4, <1>6, <1>8, <1>13, <2>1, <2>2 DEF InEffect
  <1> QED BY Zenon, <1>5, <1>6, <1>8, <1>12, <1>13

=============================================================================
