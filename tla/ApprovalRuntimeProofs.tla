------------------------ MODULE ApprovalRuntimeProofs ------------------------
(***************************************************************************)
(* Proofs about reviews (ApprovalRuntime): what the decision of a user may *)
(* do to what is reviewed.  The steps of the planners and of the system    *)
(* around the review keep the invariant of ApprovalProcessProofs as well,  *)
(* so it holds of every behaviour and the properties follow from it.       *)
(***************************************************************************)
EXTENDS ReviewTargetProofs, ApprovalProcessProofs

-----------------------------------------------------------------------------
(* The start, and what became of a target *)

(* What a target can be *)
LEMMA FateIs ==
  ASSUME TypeOK, NEW a \in Approvals
  PROVE  /\ a[1] = "spec" => Fate(a) \in {"none", "reviewing", "confirmed", "superseded", "rejected"}
         /\ a[1] = "spec" /\ Fate(a) # "none" => a[2] \in DOMAIN t.specs /\ Fate(a) = t.specs[a[2]].status
         /\ a[1] = "plan" => Fate(a) \in {"none", "reviewing", "active", "superseded", "rejected"}
         /\ a[1] = "plan" /\ Fate(a) # "none" => a[2] \in DOMAIN t.board.plans /\ Fate(a) = t.board.plans[a[2]].status
         /\ a[1] = "cand" => Fate(a) \in CandidateStates /\ Fate(a) = t.board.cand[a[2]]
         /\ a[1] = "export" => Fate(a) \in {"none", "reviewing", "active", "superseded", "rejected"}
         /\ a[1] = "export" /\ Fate(a) # "none" => a[2] \in DOMAIN t.arts.revs /\ Fate(a) = t.arts.revs[a[2]].status
  <1>0. t \in Targets
    BY Zenon DEF TypeOK
  <1>1. /\ t.specs \in Seq(SpecRows) /\ t.board.plans \in Seq(PlanRows) /\ t.arts.revs \in Seq(RevisionRows)
        /\ t.board.cand \in [Candidates -> CandidateStates]
    BY Zenon, <1>0, TargetParts
  <1>2. CASE a[1] = "spec"
    <2>1. Fate(a) = IF a[2] \in DOMAIN t.specs THEN t.specs[a[2]].status ELSE "none"
      BY Zenon, <1>2 DEF Fate
    <2>2. \A v \in DOMAIN t.specs : t.specs[v].status \in {"reviewing", "confirmed", "superseded", "rejected"}
      <3>1. \A v \in DOMAIN t.specs : t.specs[v] \in SpecRows
        BY <1>1
      <3> QED BY Zenon, <3>1 DEF SpecRows
    <2> QED BY Zenon, <1>2, <2>1, <2>2
  <1>3. CASE a[1] = "plan"
    <2>1. Fate(a) = IF a[2] \in DOMAIN t.board.plans THEN t.board.plans[a[2]].status ELSE "none"
      BY Zenon, <1>3 DEF Fate
    <2>2. \A i \in DOMAIN t.board.plans : t.board.plans[i].status \in {"reviewing", "active", "superseded", "rejected"}
      <3>1. \A i \in DOMAIN t.board.plans : t.board.plans[i] \in PlanRows
        BY <1>1
      <3> QED BY Zenon, <3>1 DEF PlanRows
    <2> QED BY Zenon, <1>3, <2>1, <2>2
  <1>4. CASE a[1] = "cand"
    <2>1. Fate(a) = t.board.cand[a[2]]
      BY Zenon, <1>4 DEF Fate
    <2> QED BY Zenon, <1>1, <1>4, <2>1, ApprovalKinds
  <1>5. CASE a[1] = "export"
    <2>1. Fate(a) = IF a[2] \in DOMAIN t.arts.revs THEN t.arts.revs[a[2]].status ELSE "none"
      BY Zenon, <1>5 DEF Fate
    <2>2. \A i \in DOMAIN t.arts.revs : t.arts.revs[i].status \in {"reviewing", "active", "superseded", "rejected"}
      <3>1. \A i \in DOMAIN t.arts.revs : t.arts.revs[i] \in RevisionRows
        BY <1>1
      <3> QED BY Zenon, <3>1 DEF RevisionRows
    <2> QED BY Zenon, <1>5, <2>1, <2>2
  <1> QED BY ZenonT(60), <1>2, <1>3, <1>4, <1>5, ApprovalKinds

(* A session before anything was planned, and one with an approved spec    *)
(* and plan                                                                *)
LEMMA StartIsSound ==
  ASSUME NEW u, u = IF Planned THEN PlannedTargets ELSE NoTargets
  PROVE  /\ u \in Targets /\ TargetInv(u)
         /\ \A a \in Approvals : ~InEffect(u, a)
         /\ u.board.applied = {} /\ \A n \in Candidates : u.board.cand[n] = "none"
  <1>1. Fresh(u, Planned)
    BY ZenonT(60) DEF PlannedTargets, NoTargets, Arts!NoArtifacts, Fresh
  <1>2. \A a \in Approvals : ~InEffect(u, a)
    <2> SUFFICES ASSUME NEW a \in Approvals, InEffect(u, a) PROVE FALSE
      OBVIOUS
    <2>1. a[1] \in {"spec", "plan"} /\ a[2] = 1 /\ Planned
      BY <1>1, FreshIsSound
    <2> QED BY Zenon, <2>1, ApprovalKinds, PlannedAssumption
  <1> QED BY Zenon, <1>1, <1>2, FreshIsSound

-----------------------------------------------------------------------------
(* Apply and the clean-up after a stale decision *)

(* What the claim's reads tell of the target *)
LEMMA VerdictTells ==
  ASSUME TypeOK, ReviewInv, NEW a \in Approvals, st.cont[a] # None
  PROVE  /\ Verdict(a) \in {"ran", "noop", "empty", "command"}
         /\ Verdict(a) = "ran" => Closed(t, a) /\ Traced(t, a, st.app[a].status)
         /\ Verdict(a) = "noop" /\ a[1] = "spec" => Closed(t, a)
         /\ Verdict(a) = "empty" => Closed(t, a)
         /\ Verdict(a) = "command" => st.app[a].status # "stale"
  <1> DEFINE status == st.app[a].status
  <1>1. st \in Stores /\ StoreInv(st) /\ t \in Targets /\ TargetInv(t) /\ Link(st, t, a)
    BY Zenon DEF TypeOK, ReviewInv, LinkInv
  <1>2. Decided(st, a) /\ st.app[a] # None /\ status \in Statuses
    BY Zenon, <1>1, DecidedStatus
  <1>3. Exists(t, a)
    BY Zenon, <1>1, <1>2 DEF Link
  <1>4. a[1] \in {"spec", "plan", "export", "cand"}
    BY Zenon, ApprovalKinds
  <1>5. a[1] \in {"plan", "cand"} /\ CommandKey(a, status) \in t.board.applied => Closed(t, a)
    BY Zenon, <1>1, <1>2 DEF Link, Statuses
  <1>6. status = "stale" /\ a[1] # "export" => ~Matches(t, a)
    BY Zenon, <1>1, <1>2 DEF Link
  <1>7. a[1] = "spec" /\ ~Matches(t, a) => Closed(t, a)
    BY Zenon, <1>1, <1>3, MatchesIs
  <1>8. Verdict(a) = IF HasRun(t, a, status) THEN "ran" ELSE IF ~Matches(t, a) THEN "noop"
                     ELSE IF status = "stale" THEN "empty" ELSE "command"
    BY Zenon DEF Verdict
  <1> HIDE DEF status
  <1>9. ASSUME HasRun(t, a, status)
        PROVE  Closed(t, a) /\ Traced(t, a, status)
    <2>1. status # "stale"
      BY ZenonT(60), <1>9 DEF HasRun
    <2>2. CASE a[1] = "spec"
      <3>1. t.specs[a[2]].status = Specs!DecisionStatus(status = "approved")
        BY Zenon, <1>9, <2>1, <2>2 DEF HasRun
      <3>2. t.specs[a[2]].status # "reviewing"
        BY Zenon, <3>1 DEF Specs!DecisionStatus
      <3> QED BY Zenon, <2>2, <3>2 DEF Closed, Traced
    <2>3. CASE a[1] \in {"plan", "cand"}
      BY ZenonT(60), <1>5, <1>9, <2>1, <2>3 DEF HasRun, Traced
    <2>4. CASE a[1] = "export"
      BY Zenon, <1>9, <2>1, <2>4 DEF HasRun, Traced, Closed
    <2> QED BY Zenon, <1>4, <2>2, <2>3, <2>4
  <1>10. a[1] = "export" => Closed(t, a)
    BY Zenon DEF Closed
  <1> QED BY Zenon, <1>4, <1>6, <1>7, <1>8, <1>9, <1>10 DEF status

(* Where the verdict of the claim leads the process *)
LEMMA ClaimedMoves ==
  ASSUME TypeOK, ReviewInv, NEW p \in Procs, proc[p].pc = "claim", t' = t, StoreForward(st, st'), st'.app = st.app,
         proc' = [proc EXCEPT ![p].pc = VerdictPc(Verdict(proc[p].a)),
                              ![p].verdict = IF Verdict(proc[p].a) = "ran" THEN "command" ELSE Verdict(proc[p].a)]
  PROVE  Moved(p)
  <1> DEFINE a == proc[p].a
             v == Verdict(a)
             verdict == IF v = "ran" THEN "command" ELSE v
             pc == VerdictPc(v)
             l == [proc[p] EXCEPT !.pc = pc, !.verdict = verdict]
  <1>1. /\ a \in Approvals /\ a # None /\ st.cont[a] # None /\ proc[p].read \in Reads
    BY Zenon, CarryIs DEF Carrying
  <1>2. /\ v \in {"ran", "noop", "empty", "command"}
        /\ v = "ran" => Closed(t, a) /\ Traced(t, a, st.app[a].status)
        /\ v = "noop" /\ a[1] = "spec" => Closed(t, a)
        /\ v = "empty" => Closed(t, a)
        /\ v = "command" => st.app[a].status # "stale"
    BY Zenon, <1>1, VerdictTells
  <1>3. /\ proc[p] \in Locals
        /\ proc[p].todo # {} => proc[p].batch \in BatchKeys
        /\ \A x \in proc[p].todo \cap Approvals : st'.app[x] # None
    BY Zenon, QueueKept
  <1>4. proc' = [proc EXCEPT ![p] = l] /\ proc \in [Procs -> Locals]
    BY ZenonT(60) DEF TypeOK
  <1> HIDE DEF v
  <1>5. /\ pc = "execute" => v = "command" /\ verdict = "command"
        /\ pc = "supersede" => v = "noop" /\ verdict = "noop"
        /\ pc = "record" => v \in {"ran", "empty"} /\ verdict = IF v = "ran" THEN "command" ELSE "empty"
        /\ pc \in {"execute", "supersede", "record"} /\ verdict \in {"command", "noop", "empty"}
    BY Zenon, <1>2 DEF VerdictPc
  <1> HIDE DEF pc, verdict
  <1>6. /\ l \in Locals /\ l.pc = pc /\ l.verdict = verdict /\ l.a = a /\ l.read = proc[p].read
        /\ l.batch = proc[p].batch /\ l.todo = proc[p].todo
    BY ZenonT(60), <1>3, <1>5 DEF Locals, Pcs
  <1>7. st'.cont[a] # None
    BY Zenon, <1>1 DEF StoreForward
  <1> HIDE DEF l
  <1>8. Knows(l, st', t')
    BY Zenon, <1>1, <1>2, <1>3, <1>5, <1>6, <1>7 DEF Knows, Carrying
  <1> QED BY ZenonT(60), <1>4, <1>6, <1>8 DEF Moved

(* ClaimContinuation and the reads that follow it *)
LEMMA ClaimGood ==
  ASSUME TypeOK, ReviewInv, NEW p \in Procs, Claim(p)
  PROVE  Good
  <1> DEFINE a == proc[p].a
             held == [st EXCEPT !.cont[a] = Conts!ClaimContinuationPostgres(@, proc[p].read, p)]
             outcome == Conts!ClaimOutcome(st.cont[a], proc[p].read)
  <1>1. proc[p].pc = "claim" /\ UNCHANGED <<t, ledger, inputs, mapping, plan, faults>>
    BY Zenon DEF Claim
  <1>2. /\ a \in Approvals /\ a # None /\ st.cont[a] # None /\ proc[p].read \in Reads
    BY Zenon, <1>1, CarryIs DEF Carrying
  <1>3. st \in Stores /\ StoreInv(st) /\ faults' \in Nat
    BY Zenon, <1>1 DEF TypeOK, ReviewInv
  <1>4. Keeps(st, held) /\ held.app = st.app
    <2>1. Keeps(st, held)
      BY Zenon, <1>2, <1>3, ClaimKept
    <2>2. held.app = st.app
      BY <1>3, StoreParts
    <2> QED BY Zenon, <2>1, <2>2
  <1>5. Keeps(st, st)
    BY Zenon, <1>3, KeepsSame
  <1>6. outcome \in {"fenced", "busy", "applied", "claimed"}
    BY Zenon DEF Conts!ClaimOutcome
  <1>7. /\ outcome = "fenced" => LeaveWithError(p, st)
        /\ outcome = "busy" => (Goto(p, "reread") \/ Leave(p)) /\ UNCHANGED st
        /\ outcome = "applied" => Goto(p, "finish") /\ UNCHANGED st
        /\ outcome = "claimed" =>
             \/ FailClaim(p, held)
             \/ /\ st' = held
                /\ proc' = [proc EXCEPT ![p].pc = VerdictPc(Verdict(a)),
                                        ![p].verdict = IF Verdict(a) = "ran" THEN "command" ELSE Verdict(a)]
    <2> HIDE DEF held, outcome
    <2> QED BY ZenonT(60), <1>6 DEF Claim, held, outcome
  <1>8. outcome = "applied" => Applied(st, a)
    BY ZenonT(60), <1>2 DEF Conts!ClaimOutcome, Conts!Fits, Applied
  <1> HIDE DEF held, outcome
  <1>9. CASE outcome = "fenced"
    BY Zenon, <1>1, <1>3, <1>5, <1>7, <1>9, ErrorKeeps
  <1>10. CASE outcome = "busy"
    <2>1. Keeps(st, st') /\ st' = st
      BY Zenon, <1>5, <1>7, <1>10
    <2>2. CASE Leave(p)
      <3>1. Moved(p)
        BY Zenon, <2>1, <2>2, LeaveMoves DEF Keeps
      <3> QED BY Zenon, <1>1, <1>3, <2>1, <3>1, StoreStepKeeps
    <2>3. CASE Goto(p, "reread")
      <3>1. /\ proc' \in [Procs -> Locals] /\ \A x \in Procs \ {p} : proc'[x] = proc[x]
            /\ proc'[p].pc = "reread" /\ proc'[p].a = a /\ proc'[p].read = proc[p].read
            /\ proc'[p].batch = proc[p].batch /\ proc'[p].todo = proc[p].todo
        BY Zenon, <2>3, GotoIs DEF Pcs
      <3>2. /\ proc[p].todo # {} => proc[p].batch \in BatchKeys
            /\ \A x \in proc[p].todo \cap Approvals : st'.app[x] # None
        BY Zenon, <2>1, QueueKept DEF Keeps
      <3>3. Knows(proc'[p], st', t')
        BY ZenonT(60), <1>2, <2>1, <3>1, <3>2 DEF Knows, Carrying
      <3> QED BY Zenon, <1>1, <1>3, <2>1, <3>1, <3>3, StoreStepKeeps DEF Moved
    <2> QED BY Zenon, <1>7, <1>10, <2>2, <2>3
  <1>11. CASE outcome = "applied"
    <2>1. /\ proc' \in [Procs -> Locals] /\ \A x \in Procs \ {p} : proc'[x] = proc[x]
          /\ proc'[p].pc = "finish" /\ proc'[p].a = a /\ proc'[p].read = proc[p].read
          /\ proc'[p].batch = proc[p].batch /\ proc'[p].todo = proc[p].todo
      BY Zenon, <1>7, <1>11, GotoIs DEF Pcs
    <2>2. Keeps(st, st') /\ st' = st
      BY Zenon, <1>5, <1>7, <1>11
    <2>3. /\ proc[p].todo # {} => proc[p].batch \in BatchKeys
          /\ \A x \in proc[p].todo \cap Approvals : st'.app[x] # None
      BY Zenon, <2>2, QueueKept DEF Keeps
    <2>4. Knows(proc'[p], st', t')
      BY ZenonT(60), <1>2, <1>8, <1>11, <2>1, <2>2, <2>3 DEF Knows, Carrying
    <2> QED BY Zenon, <1>1, <1>3, <2>1, <2>2, <2>4, StoreStepKeeps DEF Moved
  <1>12. CASE outcome = "claimed"
    <2>1. CASE FailClaim(p, held)
      BY ZenonT(60), <1>1, <1>3, <1>4, <2>1, FailKeeps DEF Carrying
    <2>2. CASE ~FailClaim(p, held)
      <3>1. Keeps(st, st') /\ st'.app = st.app
        BY Zenon, <1>4, <1>7, <1>12, <2>2
      <3>2. Moved(p)
        BY Zenon, <1>1, <1>7, <1>12, <2>2, <3>1, ClaimedMoves DEF Keeps
      <3> QED BY Zenon, <1>1, <1>3, <3>1, <3>2, StoreStepKeeps
    <2> QED BY Zenon, <2>1, <2>2
  <1> QED BY Zenon, <1>6, <1>9, <1>10, <1>11, <1>12

(* The relay that was refused the claim marks or defers its row. *)
LEMMA RereadGood ==
  ASSUME TypeOK, ReviewInv, NEW p \in Procs, Reread(p)
  PROVE  Good
  <1>1. UNCHANGED <<t, ledger, inputs, mapping, plan>>
    BY Zenon DEF Reread
  <1>2. st \in Stores /\ StoreInv(st) /\ faults \in Nat
    BY Zenon DEF TypeOK, ReviewInv
  <1>3. CASE PublishRow(p)
    <2>1. Keeps(st, st') /\ Moved(p) /\ faults' \in Nat
      BY Zenon, <1>3, PublishIs
    <2> QED BY Zenon, <1>1, <2>1, StoreStepKeeps
  <1>4. CASE st' = MarkOutboxFailedPostgres(st, proc[p].row, 0) /\ Leave(p) /\ UNCHANGED faults
    <2>1. Keeps(st, st') /\ faults' \in Nat
      BY Zenon, <1>2, <1>4, RowFailed
    <2>2. Moved(p)
      BY Zenon, <1>4, <2>1, LeaveMoves DEF Keeps
    <2> QED BY Zenon, <1>1, <2>1, <2>2, StoreStepKeeps
  <1> QED BY Zenon, <1>3, <1>4 DEF Reread

(* The command of a decision that is not stale *)
LEMMA RanLinked ==
  ASSUME TypeOK, ReviewInv, NEW a \in Approvals, st.app[a] # None, st.app[a].status \in Statuses \ {"stale"},
         t' \in Ran(t, a, st.app[a].status), st' = st
  PROVE  /\ t' \in Targets /\ TargetInv(t') /\ Forward(t, t') /\ LinkInv(st', t')
         /\ Carried(t, t', a, st.app[a].status)
  <1> DEFINE status == st.app[a].status
  <1>1. st \in Stores /\ StoreInv(st) /\ t \in Targets /\ TargetInv(t) /\ LinkInv(st, t)
    BY Zenon DEF TypeOK, ReviewInv
  <1>2. Link(st, t, a)
    BY Zenon, <1>1 DEF LinkInv
  <1>3. Exists(t, a)
    BY Zenon, <1>2 DEF Link
  <1> HIDE DEF status
  <1>4. Moves(t, t', {a}) /\ Carried(t, t', a, status)
    <2>1. status \in Statuses /\ t' \in Ran(t, a, status)
      BY Zenon DEF status
    <2> QED BY Zenon, <1>1, <1>3, <2>1, RanMoves
  <1>5. ASSUME NEW x \in Approvals, x # a PROVE Link(st', t', x)
    <2>1. Link(st, t, x) /\ SameOutcome(st, st', x) /\ Forward(t, t') /\ NothingNew(t, t', x)
      BY ZenonT(60), <1>1, <1>4, <1>5 DEF LinkInv, Moves, SameOutcome
    <2> QED BY Zenon, <1>1, <2>1, LinkKept
  <1>6. /\ Exists(t', a) /\ (Closed(t, a) => Closed(t', a))
        /\ a[1] # "export" /\ ~Matches(t, a) => ~Matches(t', a)
    BY ZenonT(60), <1>3, <1>4, ForwardAt DEF Moves
  <1>7. Link(st', t', a)
    <2>1. InEffect(t', a) => status = "approved"
      BY ZenonT(60), <1>2, <1>4 DEF Carried, Link, status
    <2>2. ASSUME NEW s \in Statuses, a[1] \in {"plan", "cand"}, CommandKey(a, s) \in t'.board.applied
          PROVE  Closed(t', a)
      <3>1. CASE RunOutcome(t, a, status) = "ok"
        BY Zenon, <1>4, <3>1 DEF Carried
      <3>2. CASE RunOutcome(t, a, status) # "ok"
        BY ZenonT(60), <1>2, <1>4, <2>2, <3>2 DEF Carried, Link, Statuses
      <3> QED BY Zenon, <3>1, <3>2
    <2> QED BY ZenonT(60), <1>2, <1>6, <2>1, <2>2 DEF Link, Statuses, status
  <1> QED BY Zenon, <1>4, <1>5, <1>7 DEF Moves, LinkInv, status

(* The command of the decision runs on its target. *)
LEMMA ExecuteGood ==
  ASSUME TypeOK, ReviewInv, NEW p \in Procs, Execute(p)
  PROVE  Good
  <1> DEFINE a == proc[p].a
             status == st.app[a].status
             outcome == RunOutcome(t, a, status)
  <1>1. proc[p].pc = "execute" /\ t' \in Ran(t, a, status) /\ UNCHANGED <<ledger, inputs, mapping, plan, faults>>
    BY Zenon DEF Execute
  <1>2. /\ a \in Approvals /\ a # None /\ st.cont[a] # None /\ proc[p].read \in Reads
        /\ st.app[a] # None /\ status \in Statuses
    BY ZenonT(60), <1>1, CarryIs DEF Carrying
  <1>3. proc[p].verdict = "command" /\ status # "stale"
    BY ZenonT(60), <1>1 DEF ReviewInv, ProcInv, Knows
  <1>4. st \in Stores /\ StoreInv(st) /\ faults' \in Nat
    BY ZenonT(60), <1>1 DEF TypeOK, ReviewInv
  <1>5. outcome \in {"ok", "lost", "error"} /\ (outcome = "lost" => a[1] = "export")
    BY Zenon, <1>2, ApprovalKinds DEF RunOutcome
  <1>6. /\ outcome = "ok" => Goto(p, "record") /\ UNCHANGED st
        /\ outcome = "lost" => Goto(p, "supersede") /\ UNCHANGED st
        /\ outcome = "error" => FailClaim(p, st)
    <2> HIDE DEF outcome
    <2> QED BY ZenonT(60), <1>5 DEF Execute, outcome
  <1>7. Keeps(st, st)
    BY <1>4, KeepsSame
  <1> HIDE DEF outcome
  <1>8. CASE outcome = "error"
    <2>1. t' = t
      BY Zenon, <1>1, <1>8 DEF Ran, outcome
    <2> QED BY ZenonT(60), <1>1, <1>4, <1>6, <1>7, <1>8, <2>1, FailKeeps DEF Carrying
  <1>9. CASE outcome # "error"
    <2>1. st' = st /\ ((Goto(p, "record") /\ outcome = "ok") \/ (Goto(p, "supersede") /\ outcome = "lost"))
      BY Zenon, <1>5, <1>6, <1>9
    <2>2. /\ t' \in Targets /\ TargetInv(t') /\ Forward(t, t') /\ LinkInv(st', t')
          /\ Carried(t, t', a, status)
      BY ZenonT(60), <1>1, <1>2, <1>3, <2>1, RanLinked
    <2>3. /\ proc' \in [Procs -> Locals] /\ \A x \in Procs \ {p} : proc'[x] = proc[x]
          /\ proc'[p].a = a /\ proc'[p].read = proc[p].read /\ proc'[p].verdict = proc[p].verdict
          /\ proc'[p].batch = proc[p].batch /\ proc'[p].todo = proc[p].todo
          /\ \/ proc'[p].pc = "record" /\ outcome = "ok"
             \/ proc'[p].pc = "supersede" /\ outcome = "lost"
      BY Zenon, <2>1, GotoIs DEF Pcs
    <2>4. /\ proc[p].todo # {} => proc[p].batch \in BatchKeys
          /\ \A x \in proc[p].todo \cap Approvals : st'.app[x] # None
      BY ZenonT(60), <1>7, <2>1, QueueKept DEF Keeps
    <2>5. outcome = "ok" => Closed(t', a) /\ Traced(t', a, status)
      BY ZenonT(60), <2>2 DEF Carried, outcome
    <2>6. outcome = "lost" => a[1] # "spec"
      BY Zenon, <1>5
    <2>7. Knows(proc'[p], st', t')
      <3> HIDE DEF a, status
      <3>1. st'.app[a].status = status
        BY Zenon, <2>1 DEF status
      <3> QED BY ZenonT(60), <1>2, <1>3, <2>1, <2>3, <2>4, <2>5, <2>6, <3>1 DEF Knows, Carrying
    <2>8. LedgerStep
      BY ZenonT(60), <1>1 DEF LedgerStep
    <2>9. /\ ledger' \in [Approvals -> SUBSET {"command", "noop"}]
          /\ inputs' \subseteq {"resume", "result"} \X Approvals
          /\ mapping' \in [Approvals -> {"none", "pending", "resuming", "resumed"}]
          /\ plan' \in [Requests -> PlanLocals] /\ \A q \in Requests : plan'[q] = plan[q]
      BY ZenonT(60), <1>1 DEF TypeOK
    <2>10. StoreForward(st, st') /\ st' \in Stores /\ StoreInv(st')
      BY Zenon, <1>7, <2>1 DEF Keeps
    <2>11. \A x \in Procs : proc'[x] = proc[x] \/ Knows(proc'[x], st', t')
      BY Zenon, <2>3, <2>7
    <2> HIDE DEF a, status
    <2> QED BY ZenonT(60), <1>4, <1>1, <2>2, <2>3, <2>8, <2>9, <2>10, <2>11, StepKeeps
  <1> QED BY Zenon, <1>8, <1>9

(* A decision that lost its target is cleaned up after. *)
LEMMA SupersedeGood ==
  ASSUME TypeOK, ReviewInv, NEW p \in Procs, Supersede(p)
  PROVE  Good
  <1> DEFINE a == proc[p].a
             l == [proc[p] EXCEPT !.pc = "record", !.verdict = "noop"]
  <1>1. /\ proc[p].pc = "supersede" /\ t' = Cleanup(t, a)
        /\ proc' = [proc EXCEPT ![p] = l]
        /\ UNCHANGED <<st, ledger, inputs, mapping, plan, faults>>
    BY ZenonT(60) DEF Supersede
  <1>2. /\ a \in Approvals /\ a # None /\ st.cont[a] # None /\ Exists(t, a) /\ proc[p].read \in Reads
    BY Zenon, <1>1, CarryIs DEF Carrying
  <1>3. st \in Stores /\ StoreInv(st) /\ t \in Targets /\ TargetInv(t) /\ proc \in [Procs -> Locals]
    BY Zenon DEF TypeOK, ReviewInv
  <1>4. Moves(t, t', {}) /\ (a[1] \in {"plan", "cand"} => Closed(t', a))
    BY Zenon, <1>1, <1>2, <1>3, CleanupMoves
  <1>5. Keeps(st, st')
    BY Zenon, <1>1, <1>3, KeepsSame
  <1>6. a[1] = "spec" => Closed(t, a)
    BY Zenon, <1>1 DEF ReviewInv, ProcInv, Knows
  <1>7. Closed(t', a)
    <2>1. a[1] = "spec" => Closed(t', a)
      BY Zenon, <1>2, <1>4, <1>6, ForwardAt DEF Moves
    <2>2. a[1] = "export" => Closed(t', a)
      BY Zenon DEF Closed
    <2> QED BY Zenon, <1>2, <1>4, <2>1, <2>2, ApprovalKinds
  <1>8. /\ proc[p] \in Locals
        /\ proc[p].todo # {} => proc[p].batch \in BatchKeys
        /\ \A x \in proc[p].todo \cap Approvals : st'.app[x] # None
    BY Zenon, <1>5, QueueKept DEF Keeps
  <1>9. /\ l \in Locals /\ l.pc = "record" /\ l.verdict = "noop" /\ l.a = a /\ l.read = proc[p].read
        /\ l.batch = proc[p].batch /\ l.todo = proc[p].todo
    BY ZenonT(60), <1>8 DEF Locals, Pcs
  <1> HIDE DEF a, l
  <1>10. Knows(l, st', t')
    BY ZenonT(60), <1>1, <1>2, <1>7, <1>8, <1>9 DEF Knows, Carrying
  <1>11. Moved(p)
    BY Zenon, <1>1, <1>3, <1>9, <1>10 DEF Moved
  <1>12. LedgerStep
    BY ZenonT(60), <1>1 DEF LedgerStep
  <1>13. /\ faults' \in Nat
         /\ ledger' \in [Approvals -> SUBSET {"command", "noop"}]
         /\ inputs' \subseteq {"resume", "result"} \X Approvals
         /\ mapping' \in [Approvals -> {"none", "pending", "resuming", "resumed"}]
    BY Zenon, <1>1 DEF TypeOK
  <1> QED BY Zenon, <1>1, <1>4, <1>5, <1>11, <1>12, <1>13, ProcessKeeps

(* The clean-up after a decision recorded as stale (cleanupStaleArtifact) *)
LEMMA CleanupStaleGood ==
  ASSUME TypeOK, ReviewInv, NEW p \in Procs, CleanupStale(p)
  PROVE  Good
  <1> DEFINE a == proc[p].a
             pc == RoutePc(st.cont[a])
  <1>1. /\ proc[p].pc = "cleanup" /\ t' = Cleanup(t, a) /\ Goto(p, pc)
        /\ UNCHANGED <<st, ledger, inputs, mapping, plan, faults>>
    BY Zenon DEF CleanupStale
  <1>2. /\ a \in Approvals /\ a # None /\ st.cont[a] # None /\ Exists(t, a) /\ proc[p].read \in Reads
    BY Zenon, <1>1, CarryIs DEF Carrying
  <1>3. st \in Stores /\ StoreInv(st) /\ t \in Targets /\ TargetInv(t)
    BY Zenon DEF TypeOK, ReviewInv
  <1>4. Moves(t, t', {})
    BY Zenon, <1>1, <1>2, <1>3, CleanupMoves
  <1>5. Keeps(st, st')
    BY Zenon, <1>1, <1>3, KeepsSame
  <1>6. pc \in {"resume", "claim"}
    BY Zenon DEF RoutePc
  <1> HIDE DEF pc
  <1>7. Moved(p)
    <2>1. /\ proc' \in [Procs -> Locals] /\ \A x \in Procs \ {p} : proc'[x] = proc[x]
          /\ proc'[p].pc = pc /\ proc'[p].a = a /\ proc'[p].read = proc[p].read
          /\ proc'[p].batch = proc[p].batch /\ proc'[p].todo = proc[p].todo
      BY Zenon, <1>1, <1>6, GotoIs DEF Pcs
    <2>2. /\ proc[p].todo # {} => proc[p].batch \in BatchKeys
          /\ \A x \in proc[p].todo \cap Approvals : st'.app[x] # None
      BY Zenon, <1>5, QueueKept DEF Keeps
    <2>3. Knows(proc'[p], st', t')
      BY ZenonT(60), <1>1, <1>2, <1>6, <2>1, <2>2 DEF Knows, Carrying
    <2> QED BY Zenon, <2>1, <2>3 DEF Moved
  <1>8. LedgerStep
    BY ZenonT(60), <1>1 DEF LedgerStep
  <1>9. /\ faults' \in Nat
        /\ ledger' \in [Approvals -> SUBSET {"command", "noop"}]
        /\ inputs' \subseteq {"resume", "result"} \X Approvals
        /\ mapping' \in [Approvals -> {"none", "pending", "resuming", "resumed"}]
    BY Zenon, <1>1 DEF TypeOK
  <1> QED BY Zenon, <1>1, <1>4, <1>5, <1>7, <1>8, <1>9, ProcessKeeps

-----------------------------------------------------------------------------
(* The planners *)

(* A request for a spec reads the latest one and asks the model. *)
LEMMA SpecRequestGood ==
  ASSUME TypeOK, ReviewInv, NEW q \in Requests, SpecRequest(q)
  PROVE  Good
  <1> DEFINE known == Specs!KeyRow(t.specs, q)
             ref == IF known # {} THEN Specs!First(known) ELSE Specs!GetLatestPostgres(t.specs)
  <1>1. /\ Kind[q] = "spec" /\ UNCHANGED <<st, t, ledger, inputs, mapping, proc, faults>>
        /\ \/ ref # 0 /\ plan' = [plan EXCEPT ![q].pc = "saved", ![q].ref = ref]
           \/ plan' = [plan EXCEPT ![q].pc = "model"]
    BY Zenon DEF SpecRequest
  <1>2. t \in Targets /\ TargetInv(t) /\ plan \in [Requests -> PlanLocals] /\ plan[q] \in PlanLocals /\ faults' \in Nat
    BY Zenon, <1>1, Given DEF ReviewInv
  <1>3. t.specs \in Seq(SpecRows) /\ SpecsInv(t.specs)
    BY Zenon, <1>2, TargetParts DEF TargetInv
  <1>4. ref # 0 => ref \in DOMAIN t.specs
    <2>1. CASE known # {}
      BY Zenon, <1>3, <2>1, TheKeyRow DEF Specs!KeyRow
    <2>2. CASE known = {}
      <3>1. Specs!GetLatestPostgres(t.specs) = Len(t.specs)
        BY Zenon, <1>3, LatestIsLast
      <3>2. Len(t.specs) # 0 => Len(t.specs) \in DOMAIN t.specs
        BY <1>3
      <3> QED BY Zenon, <2>2, <3>1, <3>2
    <2> QED BY Zenon, <2>1, <2>2
  <1>5. DOMAIN t.specs \subseteq Nat
    BY <1>3
  <1> HIDE DEF ref, known
  <1>6. Replanned(q)
    <2>1. CASE ref # 0 /\ plan' = [plan EXCEPT ![q].pc = "saved", ![q].ref = ref]
      <3> DEFINE l == [plan[q] EXCEPT !.pc = "saved", !.ref = ref]
      <3>1. plan' = [plan EXCEPT ![q] = l]
        BY ZenonT(60), <1>2, <2>1 DEF PlanLocals
      <3>2. l \in PlanLocals /\ l.pc = "saved" /\ l.ref = ref
        BY ZenonT(60), <1>2, <1>4, <1>5, <2>1 DEF PlanLocals
      <3> HIDE DEF l
      <3>3. Planner(q, l, t')
        BY Zenon, <1>1, <1>4, <2>1, <3>2 DEF Planner
      <3> QED BY Zenon, <1>2, <3>1, <3>2, <3>3 DEF Replanned
    <2>2. CASE plan' = [plan EXCEPT ![q].pc = "model"]
      <3> DEFINE l == [plan[q] EXCEPT !.pc = "model"]
      <3>1. plan' = [plan EXCEPT ![q] = l]
        BY Zenon, <1>2, <2>2 DEF PlanLocals
      <3>2. l \in PlanLocals /\ l.pc = "model"
        BY Zenon, <1>2 DEF PlanLocals
      <3> HIDE DEF l
      <3>3. Planner(q, l, t')
        BY Zenon, <1>1, <3>2 DEF Planner
      <3> QED BY Zenon, <1>2, <3>1, <3>2, <3>3 DEF Replanned
    <2> QED BY Zenon, <1>1, <2>1, <2>2
  <1>7. Moves(t, t', {})
    BY Zenon, <1>1, <1>2, NoMove
  <1> QED BY Zenon, <1>1, <1>2, <1>6, <1>7, PlannerMoves

(* The spec of the model is saved. *)
LEMMA SaveSpecGood ==
  ASSUME TypeOK, ReviewInv, NEW q \in Requests, SaveSpec(q)
  PROVE  Good
  <1> DEFINE w == [t EXCEPT !.specs = Specs!SavePostgres(t.specs, q)]
             ref == Specs!SavedVersion(t.specs, q)
             l == [plan[q] EXCEPT !.pc = "saved", !.ref = ref]
  <1>1. /\ Kind[q] = "spec" /\ UNCHANGED <<st, ledger, inputs, mapping, proc, faults>> /\ t' = w
        /\ plan' = [plan EXCEPT ![q].pc = "saved", ![q].ref = ref]
    BY Zenon DEF SaveSpec
  <1>2. t \in Targets /\ TargetInv(t) /\ plan \in [Requests -> PlanLocals] /\ plan[q] \in PlanLocals /\ faults' \in Nat
    BY Zenon, <1>1, Given DEF ReviewInv
  <1>3. Moves(t, w, {}) /\ ref \in DOMAIN w.specs
    BY Zenon, <1>2, SpecSaved
  <1> HIDE DEF w, ref
  <1>4. ref \in Nat
    <2>1. w \in Targets
      BY Zenon, <1>3 DEF Moves
    <2>2. w.specs \in Seq(SpecRows)
      BY Zenon, <2>1, TargetParts
    <2> QED BY <1>3, <2>2
  <1>5. plan' = [plan EXCEPT ![q] = l]
    BY ZenonT(60), <1>1, <1>2 DEF PlanLocals
  <1>6. l \in PlanLocals /\ l.pc = "saved" /\ l.ref = ref
    BY ZenonT(60), <1>2, <1>4 DEF PlanLocals
  <1> HIDE DEF l
  <1>7. Planner(q, l, t')
    BY Zenon, <1>1, <1>3, <1>6 DEF Planner
  <1>8. Replanned(q)
    BY Zenon, <1>2, <1>5, <1>6, <1>7 DEF Replanned
  <1>9. Moves(t, t', {})
    BY Zenon, <1>1, <1>3
  <1> QED BY Zenon, <1>1, <1>2, <1>8, <1>9, PlannerMoves

(* A request for a plan reads the confirmed spec and asks the model. *)
LEMMA PlanRequestGood ==
  ASSUME TypeOK, ReviewInv, NEW q \in Requests, PlanRequest(q)
  PROVE  Good
  <1> DEFINE v == Specs!GetConfirmedPostgres(t.specs)
             ref == PlanOf(t.board, q)
             known == q \in t.board.applied
  <1>1. /\ Kind[q] = "plan" /\ UNCHANGED <<st, t, ledger, inputs, mapping, proc, faults>> /\ v # 0
        /\ \/ known /\ plan' = [plan EXCEPT ![q].pc = "saved", ![q].ref = ref]
           \/ plan' = [plan EXCEPT ![q].pc = "model", ![q].spec = v, ![q].version = t.board.version]
    BY Zenon DEF PlanRequest
  <1>2. t \in Targets /\ TargetInv(t) /\ plan \in [Requests -> PlanLocals] /\ plan[q] \in PlanLocals /\ faults' \in Nat
    BY Zenon, <1>1, Given DEF ReviewInv
  <1>3. /\ t.specs \in Seq(SpecRows) /\ SpecsInv(t.specs) /\ BoardInv(t.board, t.specs)
        /\ t.board.plans \in Seq(PlanRows) /\ t.board.version \in Nat
    BY Zenon, <1>2, TargetParts DEF TargetInv
  <1>4. v \in DOMAIN t.specs /\ t.specs[v].status = "confirmed"
    BY Zenon, <1>1, <1>3, TheOneRow
  <1>5. v \in Nat /\ WasConfirmed(t.specs, v)
    BY <1>3, <1>4 DEF WasConfirmed
  <1>6. known => ref \in DOMAIN t.board.plans
    BY Zenon, <1>3 DEF BoardInv, PlanOf
  <1>7. DOMAIN t.board.plans \subseteq Nat
    BY <1>3
  <1> HIDE DEF v, ref, known
  <1>8. Replanned(q)
    <2>1. CASE known /\ plan' = [plan EXCEPT ![q].pc = "saved", ![q].ref = ref]
      <3> DEFINE l == [plan[q] EXCEPT !.pc = "saved", !.ref = ref]
      <3>1. plan' = [plan EXCEPT ![q] = l]
        BY ZenonT(60), <1>2, <2>1 DEF PlanLocals
      <3>2. l \in PlanLocals /\ l.pc = "saved" /\ l.ref = ref
        BY ZenonT(60), <1>2, <1>6, <1>7, <2>1 DEF PlanLocals
      <3> HIDE DEF l
      <3>3. Planner(q, l, t')
        BY Zenon, <1>1, <1>6, <2>1, <3>2 DEF Planner
      <3> QED BY <1>2, <3>1, <3>2, <3>3 DEF Replanned
    <2>2. CASE plan' = [plan EXCEPT ![q].pc = "model", ![q].spec = v, ![q].version = t.board.version]
      <3> DEFINE l == [plan[q] EXCEPT !.pc = "model", !.spec = v, !.version = t.board.version]
      <3>1. plan' = [plan EXCEPT ![q] = l]
        BY ZenonT(60), <1>2, <2>2 DEF PlanLocals
      <3>2. l \in PlanLocals /\ l.pc = "model" /\ l.spec = v
        BY ZenonT(60), <1>2, <1>3, <1>5 DEF PlanLocals
      <3> HIDE DEF l
      <3>3. Planner(q, l, t')
        BY Zenon, <1>1, <1>5, <3>2 DEF Planner
      <3> QED BY Zenon, <1>2, <3>1, <3>2, <3>3 DEF Replanned
    <2> QED BY Zenon, <1>1, <2>1, <2>2
  <1>9. Moves(t, t', {})
    BY Zenon, <1>1, <1>2, NoMove
  <1> QED BY Zenon, <1>1, <1>2, <1>8, <1>9, PlannerMoves

(* The plan of the model is saved under the version that was read. *)
LEMMA SavePlanGood ==
  ASSUME TypeOK, ReviewInv, NEW q \in Requests, SavePlan(q)
  PROVE  Good
  <1> DEFINE v == plan[q].spec
             w == [t EXCEPT !.board = CreatePending(t.board, q, v)]
             ref == Len(t.board.plans) + 1
             l == [NoPlan EXCEPT !.pc = "saved", !.ref = ref]
  <1>1. /\ Kind[q] = "plan" /\ plan[q].pc = "model" /\ UNCHANGED <<st, ledger, inputs, mapping, proc, faults>>
        /\ \/ t.board.pending = 0 /\ t' = w /\ plan' = [plan EXCEPT ![q] = l]
           \/ t' = t /\ plan' = [plan EXCEPT ![q] = NoPlan]
    BY Zenon DEF SavePlan
  <1>2. /\ t \in Targets /\ TargetInv(t) /\ plan \in [Requests -> PlanLocals] /\ plan[q] \in PlanLocals
        /\ faults' \in Nat /\ Planner(q, plan[q], t)
    BY Zenon, <1>1, Given DEF ReviewInv, PlannerInv
  <1>3. WasConfirmed(t.specs, v)
    BY Zenon, <1>1, <1>2 DEF Planner
  <1>4. ref \in Nat
    BY <1>2, TargetParts
  <1>5. NoPlan \in PlanLocals /\ Planner(q, NoPlan, t')
    BY Zenon, PlanIdle
  <1>6. l \in PlanLocals /\ l.pc = "saved" /\ l.ref = ref
    BY ZenonT(60), <1>4, <1>5 DEF PlanLocals
  <1> HIDE DEF l, v
  <1>7. CASE t.board.pending = 0 /\ t' = w /\ plan' = [plan EXCEPT ![q] = l]
    <2>1. Moves(t, w, {}) /\ ref \in DOMAIN w.board.plans
      BY ZenonT(60), <1>2, <1>3, <1>7, PlanSaved
    <2> HIDE DEF w, ref
    <2>2. Planner(q, l, t')
      BY Zenon, <1>1, <1>6, <1>7, <2>1 DEF Planner
    <2>3. Replanned(q)
      BY Zenon, <1>2, <1>6, <1>7, <2>2 DEF Replanned
    <2>4. Moves(t, t', {})
      BY Zenon, <1>7, <2>1
    <2> QED BY Zenon, <1>1, <1>2, <2>3, <2>4, PlannerMoves
  <1>8. CASE t' = t /\ plan' = [plan EXCEPT ![q] = NoPlan]
    <2>1. Replanned(q)
      BY Zenon, <1>2, <1>5, <1>8 DEF Replanned
    <2>2. Moves(t, t', {})
      BY Zenon, <1>2, <1>8, NoMove
    <2> QED BY Zenon, <1>1, <1>2, <2>1, <2>2, PlannerMoves
  <1> QED BY Zenon, <1>1, <1>7, <1>8

(* Every step of a planner *)
LEMMA PlanningGood ==
  ASSUME TypeOK, ReviewInv, NEW q \in Requests, Planning(q)
  PROVE  Good
  BY Zenon, SpecRequestGood, SaveSpecGood, PlanRequestGood, SavePlanGood, ResultGood, CrashPlannerGood DEF Planning

-----------------------------------------------------------------------------
(* Clients of the stores outside the review *)

(* The generation of a candidate starts. *)
LEMMA StartGenerationGood ==
  ASSUME TypeOK, ReviewInv, NEW n \in Candidates, StartGeneration(n)
  PROVE  Good
  <1>1. t \in Targets /\ TargetInv(t)
    BY Zenon, Given DEF ReviewInv
  <1>2. t.board.cand[n] = "none" /\ t' = [t EXCEPT !.board.cand[n] = "running"]
    BY Zenon DEF StartGeneration
  <1>3. Moves(t, t', {})
    BY Zenon, <1>1, <1>2, GenerationMoves
  <1> QED BY Zenon, <1>3, TargetStepGood DEF StartGeneration

(* An edit of the element or its prompt *)
LEMMA EditTargetGood ==
  ASSUME TypeOK, ReviewInv, NEW n \in Candidates, EditTarget(n)
  PROVE  Good
  <1> DEFINE w == [t EXCEPT !.board = Touched([t.board EXCEPT !.cand[n] = "superseded"], CommandKey(<<"cand", n>>, "edit"))]
  <1>1. t \in Targets /\ TargetInv(t)
    BY Given DEF ReviewInv
  <1>2. t.board.cand[n] = "candidate" /\ t' = w
    BY Zenon DEF EditTarget
  <1>3. Moves(t, w, {})
    BY ZenonT(60), <1>1, <1>2, CandidateMoves
  <1> HIDE DEF w
  <1>4. Moves(t, t', {})
    BY Zenon, <1>2, <1>3
  <1> QED BY Zenon, <1>4, TargetStepGood DEF EditTarget

(* An analysis is saved. *)
LEMMA AnalyzeGood ==
  ASSUME TypeOK, ReviewInv, NEW key \in Analyses, AnalyzeMaterials(key)
  PROVE  Good
  <1> DEFINE w == [t EXCEPT !.arts = Arts!CreateRevisionPostgres(t.arts, key, "analysis", "active")]
  <1>1. t \in Targets /\ TargetInv(t)
    BY Given DEF ReviewInv
  <1>2. Moves(t, w, {})
    BY ZenonT(60), <1>1, RevisionSaved
  <1>3. t' = w
    BY Zenon DEF AnalyzeMaterials
  <1> HIDE DEF w
  <1>4. Moves(t, t', {})
    BY Zenon, <1>2, <1>3
  <1> QED BY Zenon, <1>4, TargetStepGood DEF AnalyzeMaterials

(* A finished candidate is committed and its review asked for. *)
LEMMA CommitCandidateGood ==
  ASSUME TypeOK, ReviewInv, NEW n \in Candidates, CommitCandidate(n)
  PROVE  Good
  <1> DEFINE a == <<"cand", n>>
             fits == MatchesConfirmed(t, t.board.active)
             w == [t EXCEPT !.board = Touched([t.board EXCEPT !.cand[n] = "candidate"], CommandKey(<<"cand", n>>, "commit"))]
  <1>1. t \in Targets /\ TargetInv(t)
    BY Given DEF ReviewInv
  <1>2. /\ t.board.cand[n] = "running" /\ UNCHANGED <<ledger, inputs, mapping, proc, plan, faults>>
        /\ fits => t' = w /\ st' = CreatePostgres(st, a, "durable")
        /\ ~fits => t' = [t EXCEPT !.board.cand[n] = "superseded"] /\ st' = st
    BY Zenon DEF CommitCandidate
  <1> HIDE DEF fits
  <1>4. /\ Moves(t, w, {<<"cand", n>>})
        /\ w.board.cand[n] = "candidate"
        /\ \A y \in Approvals, status \in Statuses :
             CommandKey(y, status) \in w.board.applied => CommandKey(y, status) \in t.board.applied
        /\ \A y \in Approvals : InEffect(w, y) => InEffect(t, y)
    BY ZenonT(60), <1>1, <1>2, CandidateMoves
  <1> HIDE DEF w
  <1>5. CASE ~fits
    <2>1. Moves(t, t', {})
      BY Zenon, <1>1, <1>2, <1>5, GenerationMoves
    <2> QED BY Zenon, <1>2, <1>5, <2>1, TargetStepGood
  <1>6. CASE fits /\ a \notin Approvals
    <2>1. Moves(t, t', {})
      BY Zenon, <1>2, <1>4, <1>6 DEF Moves
    <2>2. st' = st
      BY Zenon, <1>2, <1>6, Given, NothingCreated
    <2> QED BY Zenon, <1>2, <2>1, <2>2, TargetStepGood
  <1>7. CASE fits /\ a \in Approvals
    <2>1. t'.board.cand[n] = "candidate"
      BY Zenon, <1>2, <1>4, <1>7
    <2>2. Exists(t', a)
      BY Zenon, <2>1 DEF Exists
    <2>3. Moves(t, t', {a}) /\ st' = CreatePostgres(st, a, "durable")
      BY Zenon, <1>2, <1>4, <1>7
    <2>4. /\ InEffect(t', a) => InEffect(t, a)
          /\ \A status \in Statuses : CommandKey(a, status) \in t'.board.applied => CommandKey(a, status) \in t.board.applied
      BY Zenon, <1>2, <1>4, <1>7
    <2> HIDE DEF a
    <2> QED BY Zenon, <1>2, <1>7, <2>2, <2>3, <2>4, AskedGood
  <1> QED BY Zenon, <1>5, <1>6, <1>7

(* An export result is saved and its review asked for. *)
LEMMA CreateExportGood ==
  ASSUME TypeOK, ReviewInv, NEW key \in Exports, NEW mode \in {"durable", "interrupt"}, CreateExport(key, mode)
  PROVE  Good
  <1> DEFINE a == <<"export", Len(t.arts.revs) + 1>>
             w == [t EXCEPT !.arts = Arts!CreateRevisionPostgres(t.arts, key, "export", "reviewing")]
  <1>1. t \in Targets /\ TargetInv(t)
    BY Zenon, Given DEF ReviewInv
  <1>2. /\ Arts!ByKey(t.arts, key) = {} /\ t' = w /\ st' = CreatePostgres(st, a, mode)
        /\ UNCHANGED <<ledger, inputs, mapping, proc, plan, faults>>
    BY Zenon DEF CreateExport
  <1>3. Moves(t, w, {}) /\ Len(t.arts.revs) + 1 \in Arts!OfKind(w.arts, "export")
    BY ZenonT(60), <1>1, <1>2, RevisionSaved
  <1>4. w.board = t.board
    BY Zenon, <1>1 DEF Targets
  <1> HIDE DEF w
  <1>5. CASE a \notin Approvals
    <2>1. st' = st
      BY Zenon, <1>2, <1>5, Given, NothingCreated
    <2>2. Moves(t, t', {})
      BY Zenon, <1>2, <1>3
    <2> QED BY Zenon, <1>2, <2>1, <2>2, TargetStepGood
  <1>6. CASE a \in Approvals
    <2>1. Exists(t', a)
      BY Zenon, <1>2, <1>3 DEF Exists
    <2>2. Moves(t, t', {}) /\ t'.board = t.board
      BY Zenon, <1>2, <1>3, <1>4
    <2>3. InEffect(t', a) => InEffect(t, a)
      BY Zenon, <1>6, <2>2 DEF Moves, NothingNew
    <2> HIDE DEF a
    <2> QED BY Zenon, <1>2, <1>6, <2>1, <2>2, <2>3, AskedGood
  <1> QED BY Zenon, <1>5, <1>6

(* Every step outside the review *)
LEMMA WorldGood ==
  ASSUME TypeOK, ReviewInv, World
  PROVE  Good
  BY Zenon, StartGenerationGood, CommitCandidateGood, EditTargetGood, CreateExportGood, AnalyzeGood, BindMappingGood,
     LeaseEndGood, RowDueGood DEF World

(* Every step of a process that handles a decision *)
LEMMA ProcessGood ==
  ASSUME TypeOK, ReviewInv, NEW p \in Procs,
         Step(p) \/ Relay(p) \/ Decision(p) \/ Crash(p) \/ CallFails(p) \/ StepFails(p)
  PROVE  Good
  <1>1. CASE Step(p)
    BY Zenon, <1>1, FallbackGood, RecordDecisionGood, CleanupStaleGood, EnqueueResumeGood, ClaimGood, RereadGood, ExecuteGood,
       SupersedeGood, RecordGood, FinishGood, CompleteGood, FreezeGood, DecideChildGood DEF Step
  <1>2. CASE Relay(p)
    BY Zenon, <1>2, RelayGood DEF Relay
  <1>3. CASE Decision(p)
    BY Zenon, <1>3, DecideRequestGood, LoadBatchGood DEF Decision
  <1> QED BY Zenon, <1>1, <1>2, <1>3, FaultGood

(* Every step, and none *)
LEMMA NextGood ==
  ASSUME TypeOK, ReviewInv, [Next]_vars
  PROVE  Good
  <1>1. CASE Next
    BY Zenon, <1>1, ProcessGood, ResumeGood, PlanningGood, WorldGood DEF Next
  <1>2. CASE UNCHANGED vars
    <2>1. UNCHANGED <<st, t, ledger, inputs, mapping, proc, plan, faults>>
      BY Zenon, <1>2 DEF vars
    <2>2. Moves(t, t', {})
      BY Zenon, <2>1, NoMove DEF TypeOK, ReviewInv
    <2> QED BY Zenon, <2>1, <2>2, TargetStepGood
  <1> QED BY Zenon, <1>1, <1>2

-----------------------------------------------------------------------------
(* The start *)

(* The initial states *)
LEMMA InitGood ==
  ASSUME Init
  PROVE  TypeOK /\ ReviewInv
  <1>1. /\ st = EmptyStore /\ ledger = [a \in Approvals |-> {}] /\ inputs = {} /\ mapping = [a \in Approvals |-> "none"]
        /\ proc = [p \in Procs |-> Idle] /\ plan = [q \in Requests |-> NoPlan] /\ faults = 0
    BY Zenon DEF Init
  <1>2. /\ t \in Targets /\ TargetInv(t) /\ \A a \in Approvals : ~InEffect(t, a)
        /\ t.board.applied = {} /\ \A n \in Candidates : t.board.cand[n] = "none"
    <2>1. t = IF Planned THEN PlannedTargets ELSE NoTargets
      BY Zenon DEF Init
    <2> QED BY Zenon, <2>1, StartIsSound
  <1>3. st \in Stores /\ StoreInv(st) /\ \A a \in Approvals : st.app[a] = None /\ ~Applied(st, a)
    BY Zenon, <1>1, EmptyIsSound
  <1>4. Idle \in Locals /\ Knows(Idle, st, t)
    BY Zenon, IdleKnows
  <1>5. NoPlan \in PlanLocals /\ \A q \in Requests : Planner(q, NoPlan, t)
    BY Zenon, PlanIdle
  <1>6. TypeOK
    BY Zenon, <1>1, <1>2, <1>3, <1>4, <1>5 DEF TypeOK
  <1>7. LinkInv(st, t)
    <2> SUFFICES ASSUME NEW a \in Approvals PROVE Link(st, t, a)
      BY Zenon DEF LinkInv
    <2>1. a[1] = "cand" => t.board.cand[a[2]] = "none"
      BY Zenon, <1>2, ApprovalKinds
    <2> QED BY Zenon, <1>2, <1>3, <2>1 DEF Link
  <1>8. LedgerInv
    BY Zenon, <1>1 DEF LedgerInv, AtMostOne
  <1>9. ProcInv /\ PlannerInv
    BY Zenon, <1>1, <1>4, <1>5 DEF ProcInv, PlannerInv
  <1> QED BY Zenon, <1>2, <1>3, <1>6, <1>7, <1>8, <1>9 DEF ReviewInv

-----------------------------------------------------------------------------
(* Theorems *)

(* However handlers, relays, agents and planners interleave, crash and     *)
(* lose their leases (Service.Decide, Service.Apply, RelayOnce,            *)
(* resumeApproval), the rows are well formed, the approvals agree with     *)
(* what they reviewed, and what a process relies on holds.                 *)
THEOREM ReviewIsSound == Spec => [](TypeOK /\ ReviewInv)
  <1>1. Init => TypeOK /\ ReviewInv
    BY Zenon, InitGood
  <1>2. TypeOK /\ ReviewInv /\ [Next]_vars => (TypeOK /\ ReviewInv)'
    BY Zenon, NextGood DEF Good
  <1> QED BY <1>1, <1>2, PTL DEF Spec

(* What is reviewed only moves forward: no step of the runtime or of its   *)
(* clients opens a closed review again, makes an outdated binding match    *)
(* again, or loses the trace of a command (executeCommand,                 *)
(* cleanupStaleArtifact, inspectAppliedCommand).                           *)
THEOREM ReviewsMoveForward == Spec => [][Forward(t, t')]_vars
  <1>1. TypeOK /\ ReviewInv /\ [Next]_vars => [Forward(t, t')]_vars
    BY Zenon, NextGood DEF Good
  <1> QED BY <1>1, ReviewIsSound, PTL DEF Spec

(* A session has one pending spec or plan review, one spec under review    *)
(* and one confirmed, one active plan and one active export result, for    *)
(* any number of planners and handlers (the partial unique index of        *)
(* pending primary reviews, Save, DecideRevision, PromotePending).         *)
THEOREM SessionHasOneOfEach == Spec => []OneOfEach
  <1>1. TypeOK /\ ReviewInv => OneOfEach
    <2> SUFFICES ASSUME TypeOK, ReviewInv PROVE OneOfEach
      BY Zenon
    <2>1. SpecsInv(t.specs) /\ BoardInv(t.board, t.specs) /\ AtMostOne(ActiveExports(t.arts)) /\ AtMostOne(PendingPrimary(st))
      BY Zenon DEF ReviewInv, TargetInv, StoreInv
    <2>2. \A status \in {"reviewing", "confirmed"} : AtMostOne(Specs!VersionsIn(t.specs, status))
      BY Zenon, <2>1 DEF SpecsInv
    <2>3. AtMostOne({i \in DOMAIN t.board.plans : t.board.plans[i].status = "active"})
      BY Zenon, <2>1 DEF BoardInv, AtMostOne
    <2> QED BY Zenon, <2>1, <2>2, <2>3 DEF OneOfEach, ActiveExports
  <1> QED BY <1>1, ReviewIsSound, PTL

(* Nothing takes effect without an approval: whatever is confirmed, active *)
(* or adopted has an approval that was approved on the version reviewed    *)
(* (prepareDecision records "stale" otherwise, executeCommand is the only  *)
(* way).                                                                   *)
THEOREM EffectNeedsApproval == Spec => []OnlyApprovedTakesEffect
  <1>1. TypeOK /\ ReviewInv => OnlyApprovedTakesEffect
    <2> SUFFICES ASSUME TypeOK, ReviewInv, NEW a \in Approvals, Fate(a) \in {"confirmed", "active"},
                        a[1] = "export" => t.arts.revs[a[2]].kind = "export"
                 PROVE  st.app[a] # None /\ st.app[a].status = "approved"
      BY Zenon DEF OnlyApprovedTakesEffect
    <2>1. InEffect(t, a)
      <3>1. CASE a[1] = "spec"
        BY Zenon, <3>1, FateIs DEF InEffect
      <3>2. CASE a[1] = "plan"
        BY Zenon, <3>2, FateIs DEF InEffect
      <3>3. CASE a[1] = "cand"
        BY Zenon, <3>3, FateIs DEF InEffect, CandidateStates
      <3>4. CASE a[1] = "export"
        <4>1. a[2] \in DOMAIN t.arts.revs /\ t.arts.revs[a[2]].status = "active" /\ t.arts.revs[a[2]].kind = "export"
          BY Zenon, <3>4, FateIs
        <4> QED BY Zenon, <3>4, <4>1 DEF InEffect, ActiveExports, Arts!OfKind
      <3> QED BY Zenon, <3>1, <3>2, <3>3, <3>4, ApprovalKinds
    <2> QED BY Zenon, <2>1 DEF ReviewInv, LinkInv, Link
  <1> QED BY <1>1, ReviewIsSound, PTL

(* An applied continuation closed its review: ApplyContinuation commits    *)
(* only after the command ran, was found to have run, or its target was    *)
(* cleaned up.                                                             *)
THEOREM AppliedClosesReview == Spec => []AppliedIsClosed
  <1>1. TypeOK /\ ReviewInv => AppliedIsClosed
    <2> SUFFICES ASSUME TypeOK, ReviewInv, NEW a \in Approvals, a[1] # "export", Applied(st, a)
                 PROVE  Fate(a) \notin {"reviewing", "candidate"}
      BY Zenon DEF AppliedIsClosed, Applied
    <2>1. Closed(t, a)
      BY Zenon DEF ReviewInv, LinkInv, Link
    <2>2. CASE a[1] = "spec"
      BY Zenon, <2>1, <2>2, FateIs DEF Closed
    <2>3. CASE a[1] = "plan"
      BY Zenon, <2>1, <2>3, FateIs DEF Closed
    <2>4. CASE a[1] = "cand"
      BY Zenon, <2>1, <2>4, FateIs DEF Closed, CandidateStates
    <2> QED BY Zenon, <2>2, <2>3, <2>4, ApprovalKinds
  <1> QED BY <1>1, ReviewIsSound, PTL

(* The ledger tells the truth: a "command" row means the command left its  *)
(* trace, and an approval has one row, also when a claim lapsed while its  *)
(* owner went on (ApplyContinuation is fenced by the owner and the lease). *)
THEOREM LedgerIsTrue == Spec => []LedgerTellsTruth
  <1>1. TypeOK /\ ReviewInv => LedgerTellsTruth
    <2> SUFFICES ASSUME TypeOK, ReviewInv, NEW a \in Approvals
                 PROVE  /\ "command" \in ledger[a] => IF a[1] = "spec" THEN Fate(a) # "reviewing" ELSE CommandRan(a)
                        /\ AtMostOne(ledger[a])
      BY Zenon DEF LedgerTellsTruth
    <2>1. AtMostOne(ledger[a]) /\ ("command" \in ledger[a] => Traced(t, a, st.app[a].status))
      BY ZenonT(60) DEF ReviewInv, LedgerInv
    <2>2. ASSUME Traced(t, a, st.app[a].status), a[1] = "spec" PROVE Fate(a) # "reviewing"
      BY Zenon, <2>2, FateIs DEF Traced
    <2>3. ASSUME Traced(t, a, st.app[a].status), a[1] # "spec" PROVE CommandRan(a)
      BY ZenonT(60), <2>3, ApprovalKinds DEF Traced, CommandRan
    <2> QED BY Zenon, <2>1, <2>2, <2>3
  <1> QED BY <1>1, ReviewIsSound, PTL

(* The agent only hears of what is applied: a result input and the end of  *)
(* a resumed checkpoint come after ApplyContinuation (finishApplied,       *)
(* prepareResumeCompletion before completeResume).                         *)
THEOREM AgentHearsTruth == Spec => []AgentHearsApplied
  <1>1. ReviewInv => AgentHearsApplied
    BY ZenonT(60) DEF ReviewInv, LedgerInv, AgentHearsApplied, Applied
  <1> QED BY <1>1, ReviewIsSound, PTL

(* In every reachable state the memory stores and the Postgres stores of   *)
(* specs, artifacts, approvals and continuations answer every call alike,  *)
(* so what the unit tests show of the memory stores holds in production.   *)
THEOREM StoresAreAlike == Spec => []StoresAgree
  <1>1. TypeOK /\ ReviewInv => StoresAgree
    <2> SUFFICES ASSUME TypeOK, ReviewInv PROVE StoresAgree
      OBVIOUS
    <2>1. /\ st \in Stores /\ StoreInv(st) /\ t.specs \in Seq(SpecRows) /\ SpecsInv(t.specs) /\ t.arts \in Artifacts
      BY Zenon, TargetParts DEF TypeOK, ReviewInv, TargetInv
    <2> QED BY Zenon, <2>1, SpecStoresAgree, ArtifactStoresAgree, ApprovalStoresAgree DEF StoresAgree
  <1> QED BY <1>1, ReviewIsSound, PTL

===============================================================================
