--------------------------- MODULE ApprovalRuntime ---------------------------
(***************************************************************************)
(* Reviews end to end (internal/aigc/approvalruntime with the planning     *)
(* capabilities of internal/aigc/capabilityruntime and the resume path of  *)
(* internal/aigc/agent): planners save a revision and ask for its review,  *)
(* handlers record the decision and carry it out, the relay carries out    *)
(* what a handler left, the agent resumes interrupted turns.  Every step   *)
(* between two transactions is a step of its own, any process may crash    *)
(* after any of them, a store call may fail, and a claim's lease may end.  *)
(*                                                                         *)
(*   st       approvals, continuations and outbox rows (ApprovalStore)     *)
(*   t        what is reviewed (ReviewTargets)                             *)
(*   ledger   the command rows ApplyContinuation wrote, per approval       *)
(*   inputs   the session inputs enqueued, by their stable identity        *)
(*   mapping  the checkpoint mapping of an interrupt approval              *)
(*   proc     the handler, the relay and the agent: where in Decide or     *)
(*            Apply each is, and what it read                              *)
(*   plan     the planning requests                                        *)
(*   faults   crashes and failed calls so far                              *)
(***************************************************************************)
EXTENDS ApprovalStore, ReviewTargets

CONSTANTS
  Kind,        \* [Requests -> {"spec", "plan"}]
  Planned,     \* the session starts with a confirmed spec and an active plan
  MaxFaults

ASSUME RuntimeAssumption == MaxFaults \in Nat /\ Kind \in [Requests -> {"spec", "plan"}]

VARIABLES st, t, ledger, inputs, mapping, proc, plan, faults

vars == <<st, t, ledger, inputs, mapping, proc, plan, faults>>

(* todo: the approvals a candidate batch still has to decide *)
Idle == [pc |-> "idle", a |-> None, req |-> None, read |-> None, row |-> None, epoch |-> 0, verdict |-> None,
         batch |-> None, todo |-> {}]
NoPlan == [pc |-> "idle", ref |-> 0, spec |-> 0, version |-> 0]

(* A session whose first spec and plan were approved; their reviews are    *)
(* over and left out.                                                      *)
ASSUME PlannedAssumption == Planned => Approvals \cap {<<"spec", 1>>, <<"plan", 1>>} = {}

PlannedTargets ==
  [NoTargets EXCEPT !.specs = <<[key |-> None, status |-> "confirmed"]>>,
                    !.board.plans = <<[key |-> None, spec |-> 1, status |-> "active"]>>, !.board.active = 1]

Init ==
  /\ st = EmptyStore
  /\ t = IF Planned THEN PlannedTargets ELSE NoTargets
  /\ ledger = [a \in Approvals |-> {}]
  /\ inputs = {}
  /\ mapping = [a \in Approvals |-> "none"]
  /\ proc = [p \in Procs |-> Idle]
  /\ plan = [q \in Requests |-> NoPlan]
  /\ faults = 0

(* A handler with a batch goes on to the next child, whatever this one     *)
(* answered.                                                               *)
Leave(p) ==
  proc' = [proc EXCEPT ![p] =
             IF @.todo = {} THEN Idle ELSE [Idle EXCEPT !.pc = "batch", !.batch = proc[p].batch, !.todo = proc[p].todo]]

(* Mutant: a failed row is marked as published. *)
LeavePublished(p, next) ==
  /\ st' = IF p \in Relays THEN MarkOutboxPublishedPostgres(next, proc[p].row) ELSE next
  /\ Leave(p)

(* An error ends the call; the relay marks its row, and the row is dead    *)
(* after MaxDelivery attempts.                                             *)
LeaveWithError(p, next) ==
  /\ st' = IF p \in Relays THEN MarkOutboxFailedPostgres(next, proc[p].row, MaxDelivery) ELSE next
  /\ Leave(p)

Goto(p, pc) == proc' = [proc EXCEPT ![p].pc = pc]

-----------------------------------------------------------------------------
(* Service.Decide *)

(* The binding a decision is taken on: a retry keeps the one its decision  *)
(* recorded.                                                               *)
Observed(a, key) ==
  IF Decided(st, a) /\ st.app[a].key = key THEN st.app[a].seen ELSE Matches(t, a)

Resolve(p, a, key, asked) ==
  proc' = [proc EXCEPT ![p].pc = "decide", ![p].a = a,
                       ![p].req = [key |-> key, asked |-> asked, seen |-> Observed(a, key)]]

NeedsFallback(a) == st.app[a].mode = "interrupt" /\ ~st.app[a].mapped

(* Get, then either the switch to the durable fallback or the binding *)
LoadApproval(p, a, key, asked) ==
  /\ IF NeedsFallback(a)
     THEN proc' = [proc EXCEPT ![p].pc = "fallback", ![p].a = a, ![p].epoch = st.app[a].epoch,
                               ![p].req = [key |-> key, asked |-> asked, seen |-> FALSE]]
     ELSE Resolve(p, a, key, asked)
  /\ UNCHANGED <<st, t, ledger, inputs, mapping, plan, faults>>

DecideRequest(p, a, asked) ==
  /\ p \in Handlers /\ proc[p].pc = "idle" /\ st.app[a] # None
  /\ LoadApproval(p, a, <<a, asked>>, asked)

(* An approval without a mapping was undecided when it was read.  Who finds *)
(* the switch made goes on with it.                                        *)
Fallback(p) ==
  LET a == proc[p].a
  IN  /\ proc[p].pc = "fallback"
      /\ st' = SwitchToDurableFallbackPostgres(st, a, proc[p].epoch, FALSE)
      /\ IF FallbackOutcome(st, a, proc[p].epoch, FALSE) \in {"replay", "switched"}
         THEN Resolve(p, a, proc[p].req.key, proc[p].req.asked) ELSE Leave(p)
      /\ UNCHANGED <<t, ledger, inputs, mapping, plan, faults>>

(* Where Decide goes with the continuation: a runner executor is resumed,  *)
(* anything else applied here.                                             *)
Routed(p, c, pc) ==
  [proc[p] EXCEPT !.pc = pc, !.req = None, !.row = DecisionRow(proc[p].a, c),
                  !.read = [exec |-> c.exec, epoch |-> c.epoch]]
RoutePc(c) == IF c.status # "applied" /\ c.exec = "runner" THEN "resume" ELSE "claim"

(* The decision, its continuation and its outbox row in one transaction;   *)
(* RequestContinuation then finds the row.                                 *)
RecordDecision(p) ==
  LET a == proc[p].a
      next == DecidePostgres(st, a, proc[p].req)
      c == next.cont[a]
  IN  /\ proc[p].pc = "decide"
      /\ st' = next
      /\ IF DecideOutcome(st, a, proc[p].req) \in {"conflict", "refused"} THEN Leave(p)
         ELSE proc' = [proc EXCEPT ![p] =
                         Routed(p, c, IF next.app[a].status = "stale" THEN "cleanup" ELSE RoutePc(c))]
      /\ UNCHANGED <<t, ledger, inputs, mapping, plan, faults>>

CleanupStale(p) ==
  /\ proc[p].pc = "cleanup"
  /\ t' = Cleanup(t, proc[p].a)
  /\ Goto(p, RoutePc(st.cont[proc[p].a]))
  /\ UNCHANGED <<st, ledger, inputs, mapping, plan, faults>>

(* MarkOutboxPublished after the delivery; a failure of it is ignored. *)
PublishRow(p) ==
  /\ \/ st' = MarkOutboxPublishedPostgres(st, proc[p].row) /\ UNCHANGED faults
     \/ faults < MaxFaults /\ faults' = faults + 1 /\ UNCHANGED st
  /\ Leave(p)

EnqueueResume(p) ==
  /\ proc[p].pc = "resume"
  /\ inputs' = inputs \cup {<<"resume", proc[p].a>>}
  /\ PublishRow(p)
  /\ UNCHANGED <<t, ledger, mapping, plan>>

-----------------------------------------------------------------------------
(* Service.Apply *)

(* Which way Apply goes: the command ran before, what was reviewed is gone, *)
(* there is no command, or it has to run.                                  *)
Verdict(a) ==
  CASE HasRun(t, a, st.app[a].status) -> "ran"
    [] ~HasRun(t, a, st.app[a].status) /\ ~Matches(t, a) -> "noop"
    [] OTHER -> IF st.app[a].status = "stale" THEN "empty" ELSE "command"

VerdictPc(v) == CASE v = "command" -> "execute" [] v = "noop" -> "supersede" [] OTHER -> "record"

FailClaim(p, held) ==
  LeaveWithError(p, [held EXCEPT !.cont[proc[p].a] = Conts!FailContinuationPostgres(@, proc[p].read, p)])

(* The claim, then only reads: the version fences, the binding and the     *)
(* inspection.  A lease another owner holds ends the call without an       *)
(* error; the relay then reads the continuation again.                     *)
Claim(p) ==
  LET a == proc[p].a
      outcome == Conts!ClaimOutcome(st.cont[a], proc[p].read)
      held == [st EXCEPT !.cont[a] = Conts!ClaimContinuationPostgres(@, proc[p].read, p)]
  IN  /\ proc[p].pc = "claim"
      /\ CASE outcome = "fenced" -> LeaveWithError(p, st)
           [] outcome = "busy" -> (IF p \in Relays THEN Goto(p, "reread") ELSE Leave(p)) /\ UNCHANGED st
           [] outcome = "applied" -> Goto(p, "finish") /\ UNCHANGED st
           [] outcome = "claimed" ->
                IF st.app[a].epoch # proc[p].read.epoch THEN FailClaim(p, held)
                ELSE /\ st' = held
                     /\ proc' = [proc EXCEPT ![p].pc = VerdictPc(Verdict(a)),
                                             ![p].verdict = IF Verdict(a) = "ran" THEN "command" ELSE Verdict(a)]
      /\ UNCHANGED <<t, ledger, inputs, mapping, plan, faults>>

(* The frozen command; an export that lost its race is a superseded no-op. *)
Execute(p) ==
  LET a == proc[p].a
      outcome == RunOutcome(t, a, st.app[a].status)
  IN  /\ proc[p].pc = "execute"
      /\ t' \in Ran(t, a, st.app[a].status)
      /\ CASE outcome = "ok" -> Goto(p, "record") /\ UNCHANGED st
           [] outcome = "lost" -> Goto(p, "supersede") /\ UNCHANGED st
           [] outcome = "error" -> FailClaim(p, st)
      /\ UNCHANGED <<ledger, inputs, mapping, plan, faults>>

Supersede(p) ==
  /\ proc[p].pc = "supersede"
  /\ t' = Cleanup(t, proc[p].a)
  /\ proc' = [proc EXCEPT ![p].pc = "record", ![p].verdict = "noop"]
  /\ UNCHANGED <<st, ledger, inputs, mapping, plan, faults>>

(* ApplyContinuation writes the ledger row with the status; a claim that    *)
(* lapsed is refused, an applied row is returned.                          *)
Record(p) ==
  LET a == proc[p].a
      c == st.cont[a]
      next == Conts!ApplyContinuationPostgres(c, proc[p].read, p)
  IN  /\ proc[p].pc = "record"
      /\ ledger' = [ledger EXCEPT ![a] = IF next # c /\ proc[p].verdict # "empty" THEN @ \cup {proc[p].verdict} ELSE @]
      /\ IF next.status = "applied" THEN Goto(p, "finish") /\ st' = [st EXCEPT !.cont[a] = next]
         ELSE LeaveWithError(p, st)
      /\ UNCHANGED <<t, inputs, mapping, plan, faults>>

(* finishApplied: only the deterministic executor wakes the agent.  The    *)
(* version fence holds: nothing moves an approval after its decision.      *)
Finish(p) ==
  LET a == proc[p].a
  IN  /\ proc[p].pc = "finish"
      /\ IF proc[p].read.exec = "deterministic" /\ st.app[a].epoch # st.cont[a].epoch
         THEN LeaveWithError(p, st) /\ UNCHANGED <<inputs, faults>>
         ELSE /\ inputs' = IF proc[p].read.exec = "deterministic" THEN inputs \cup {<<"result", a>>} ELSE inputs
              /\ IF p \in Agents THEN Goto(p, "complete") /\ UNCHANGED <<st, faults>> ELSE PublishRow(p)
      /\ UNCHANGED <<t, ledger, mapping, plan>>

-----------------------------------------------------------------------------
(* RelayOnce: a row of an applied continuation is delivered as well, a     *)
(* fallback row only marked.                                               *)
RelayRow(p, r) ==
  LET c == st.cont[r.app]
  IN  /\ p \in Relays /\ proc[p].pc = "idle"
      /\ st.box[r].status = "pending"
      /\ IF r.type = "fallback"
         THEN st' = MarkOutboxPublishedPostgres(st, r) /\ UNCHANGED proc
         ELSE /\ proc' = [proc EXCEPT ![p].a = r.app, ![p].row = r,
                            ![p].read = [exec |-> c.exec, epoch |-> c.epoch],
                            ![p].pc = IF r.type = "resume" THEN "resume" ELSE "claim"]
              /\ UNCHANGED st
      /\ UNCHANGED <<t, ledger, inputs, mapping, plan, faults>>

(* The relay was refused the claim.  A continuation that is applied by now *)
(* counts as delivered: the row is marked and finishApplied not called.    *)
(* Otherwise the row is deferred, whatever its attempts.                   *)
Reread(p) ==
  /\ proc[p].pc = "reread"
  /\ IF st.cont[proc[p].a].status = "applied" THEN PublishRow(p)
     ELSE st' = MarkOutboxFailedPostgres(st, proc[p].row, 0) /\ Leave(p) /\ UNCHANGED faults
  /\ UNCHANGED <<t, ledger, inputs, mapping, plan>>

-----------------------------------------------------------------------------
(* The processor of a resume input (resumeApproval, prepareResumeCompletion, *)
(* completeResume).  The run of the external Runner is not modelled.       *)

(* A mapping that was resumed already ends the call; a mapping bound to an *)
(* approval that fell back is refused.                                     *)
ResumeApproval(p, a) ==
  /\ p \in Agents /\ proc[p].pc = "idle"
  /\ <<"resume", a>> \in inputs
  /\ st.app[a].mode = "interrupt" /\ mapping[a] \in {"pending", "resuming"}
  /\ mapping' = [mapping EXCEPT ![a] = "resuming"]
  /\ proc' = [proc EXCEPT ![p].pc = "claim", ![p].a = a,
                          ![p].read = [exec |-> st.cont[a].exec, epoch |-> st.cont[a].epoch]]
  /\ UNCHANGED <<st, t, ledger, inputs, plan, faults>>

CompleteResume(p) ==
  /\ proc[p].pc = "complete"
  /\ mapping' = [mapping EXCEPT ![proc[p].a] = "resumed"]
  /\ Leave(p)
  /\ UNCHANGED <<st, t, ledger, inputs, plan, faults>>

-----------------------------------------------------------------------------
(* Planning (planCreationSpec, planStoryboard, analyzeMaterials): a known  *)
(* key answers with what it made; otherwise the gate, the model, the save  *)
(* and the approval are separate steps.                                    *)

PrimaryReviewGate == PendingPrimary(st) = {}

(* An answer for a revision that is no longer under review changes nothing. *)
SpecRequest(q) ==
  LET known == Specs!KeyRow(t.specs, q)
      ref == IF known # {} THEN Specs!First(known) ELSE Specs!GetLatestPostgres(t.specs)  \* mode "create"
  IN  /\ Kind[q] = "spec" /\ plan[q].pc = "idle"
      /\ \/ ref # 0 /\ t.specs[ref].status = "reviewing"
              /\ plan' = [plan EXCEPT ![q].pc = "saved", ![q].ref = ref]
         \/ known = {} /\ PrimaryReviewGate /\ plan' = [plan EXCEPT ![q].pc = "model"]
      /\ UNCHANGED <<st, t, ledger, inputs, mapping, proc, faults>>

(* Mutant: the revision under review stays beside the new one. *)
SaveSpecBeside(q) ==
  /\ Kind[q] = "spec" /\ plan[q].pc = "model"
  /\ t' = [t EXCEPT !.specs = Specs!SaveBeside(@, q)]
  /\ plan' = [plan EXCEPT ![q].pc = "saved", ![q].ref = Specs!SavedVersion(t.specs, q)]
  /\ UNCHANGED <<st, ledger, inputs, mapping, proc, faults>>

SaveSpec(q) ==
  /\ Kind[q] = "spec" /\ plan[q].pc = "model"
  /\ t' = [t EXCEPT !.specs = Specs!SavePostgres(@, q)]
  /\ plan' = [plan EXCEPT ![q].pc = "saved", ![q].ref = Specs!SavedVersion(t.specs, q)]
  /\ UNCHANGED <<st, ledger, inputs, mapping, proc, faults>>

(* storyboardPlanReplay *)
PlanOf(b, q) == CHOOSE i \in DOMAIN b.plans : b.plans[i].key = q

(* Needs a confirmed spec and none under review *)
PlanRequest(q) ==
  LET latest == Specs!GetLatestPostgres(t.specs)
      confirmed == Specs!GetConfirmedPostgres(t.specs)
  IN  /\ Kind[q] = "plan" /\ plan[q].pc = "idle"
      /\ confirmed # 0 /\ t.specs[latest].status # "reviewing"
      /\ \/ q \in t.board.applied /\ t.board.plans[PlanOf(t.board, q)].status = "reviewing"
              /\ plan' = [plan EXCEPT ![q].pc = "saved", ![q].ref = PlanOf(t.board, q)]
         \/ q \notin t.board.applied /\ PrimaryReviewGate
              /\ plan' = [plan EXCEPT ![q].pc = "model", ![q].spec = confirmed, ![q].version = t.board.version]
      /\ UNCHANGED <<st, t, ledger, inputs, mapping, proc, faults>>

(* CreatePending refuses a changed aggregate and a second pending plan. *)
SavePlan(q) ==
  /\ Kind[q] = "plan" /\ plan[q].pc = "model"
  /\ IF t.board.version = plan[q].version /\ t.board.pending = 0
     THEN /\ t' = [t EXCEPT !.board = CreatePending(@, q, plan[q].spec)]
          /\ plan' = [plan EXCEPT ![q] = [NoPlan EXCEPT !.pc = "saved", !.ref = Len(t.board.plans) + 1]]
     ELSE UNCHANGED t /\ plan' = [plan EXCEPT ![q] = NoPlan]
  /\ UNCHANGED <<st, ledger, inputs, mapping, proc, faults>>

(* The store may answer an approval it has, or refuse a second primary     *)
(* review; the request ends either way.                                    *)
CreateApproval(q, a) ==
  /\ plan[q].pc = "saved"
  /\ st' = CreatePostgres(st, a, "durable")
  /\ plan' = [plan EXCEPT ![q] = NoPlan]
  /\ UNCHANGED <<t, ledger, inputs, mapping, proc, faults>>

SpecResult(q) == Kind[q] = "spec" /\ CreateApproval(q, <<"spec", plan[q].ref>>)
PlanResult(q) == Kind[q] = "plan" /\ CreateApproval(q, <<"plan", plan[q].ref>>)

(* analyzeMaterials: an active revision, reviewed by nobody *)
AnalyzeMaterials(key) ==
  /\ key \in Analyses
  /\ t' = [t EXCEPT !.arts = Arts!CreateRevisionPostgres(@, key, "analysis", "active")]
  /\ t' # t
  /\ UNCHANGED <<st, ledger, inputs, mapping, proc, plan, faults>>

-----------------------------------------------------------------------------
(* Clients of the stores outside the review: the finalization of a job     *)
(* commits a candidate and its approval in one transaction; an export      *)
(* result and its approval, and the mapping of an interrupt, come from     *)
(* callers that are not part of the repository.                            *)

(* generateMedia: no plan under review, and the active one is the confirmed *)
(* spec's.                                                                 *)
StartGeneration(n) ==
  /\ t.board.pending = 0 /\ t.board.active # 0 /\ MatchesConfirmed(t, t.board.active)
  /\ t.board.cand[n] = "none"
  /\ t' = [t EXCEPT !.board.cand[n] = "running"]
  /\ UNCHANGED <<st, ledger, inputs, mapping, proc, plan, faults>>

(* A result for an outdated spec is dropped: it is not bound, nor reviewed. *)
CommitCandidate(n) ==
  /\ t.board.cand[n] = "running"
  /\ IF MatchesConfirmed(t, t.board.active)
     THEN /\ t' = [t EXCEPT !.board = Touched([@ EXCEPT !.cand[n] = "candidate"], CommandKey(<<"cand", n>>, "commit"))]
          /\ st' = CreatePostgres(st, <<"cand", n>>, "durable")
     ELSE t' = [t EXCEPT !.board.cand[n] = "superseded"] /\ UNCHANGED st
  /\ UNCHANGED <<ledger, inputs, mapping, proc, plan, faults>>

(* An edit of the element or its prompt *)
EditTarget(n) ==
  /\ t.board.cand[n] = "candidate"
  /\ t' = [t EXCEPT !.board = Touched([@ EXCEPT !.cand[n] = "superseded"], CommandKey(<<"cand", n>>, "edit"))]
  /\ UNCHANGED <<st, ledger, inputs, mapping, proc, plan, faults>>

CreateExport(key, mode) ==
  /\ key \in Exports /\ Arts!ByKey(t.arts, key) = {}
  /\ t' = [t EXCEPT !.arts = Arts!CreateRevisionPostgres(@, key, "export", "reviewing")]
  /\ st' = CreatePostgres(st, <<"export", Len(t.arts.revs) + 1>>, mode)
  /\ UNCHANGED <<ledger, inputs, mapping, proc, plan, faults>>

BindMapping(a) ==
  /\ st.app[a] # None /\ CanBind(st.app[a])
  /\ st' = BindInterruptMappingPostgres(st, a)
  /\ mapping' = [mapping EXCEPT ![a] = "pending"]
  /\ UNCHANGED <<t, ledger, inputs, proc, plan, faults>>

-----------------------------------------------------------------------------
(* ApproveCandidateBatch *)

(* pendingCandidateBatchTargets *)
BatchTargets ==
  {<<"cand", n>> : n \in {m \in OpenCandidates(t.board) : st.app[<<"cand", m>>].status = "pending"}}

(* Mutant: a repeated request takes the candidates of today. *)
LoadBatchAgain(p, k) ==
  /\ p \in Handlers /\ proc[p].pc = "idle"
  /\ \A n \in Candidates : t.board.cand[n] # "running"
  /\ BatchTargets # {}
  /\ proc' = [proc EXCEPT ![p].pc = IF st.batch[k] = None THEN "freeze" ELSE "batch", ![p].batch = k, ![p].todo = BatchTargets]
  /\ UNCHANGED <<st, t, ledger, inputs, mapping, plan, faults>>

(* A known key keeps its targets; a new one needs every job terminal. *)
LoadBatch(p, k) ==
  /\ p \in Handlers /\ proc[p].pc = "idle"
  /\ IF st.batch[k] # None
     THEN proc' = [proc EXCEPT ![p].pc = "batch", ![p].batch = k, ![p].todo = st.batch[k]]
     ELSE /\ \A n \in Candidates : t.board.cand[n] # "running"
          /\ BatchTargets # {}
          /\ proc' = [proc EXCEPT ![p].pc = "freeze", ![p].batch = k, ![p].todo = BatchTargets]
  /\ UNCHANGED <<st, t, ledger, inputs, mapping, plan, faults>>

FreezeBatch(p) ==
  LET next == CreateCandidateApprovalBatchPostgres(st, proc[p].batch, proc[p].todo)
  IN  /\ proc[p].pc = "freeze"
      /\ st' = next
      /\ proc' = [proc EXCEPT ![p].pc = "batch", ![p].todo = next.batch[proc[p].batch]]
      /\ UNCHANGED <<t, ledger, inputs, mapping, plan, faults>>

DecideChild(p, a) ==
  /\ proc[p].pc = "batch" /\ a \in proc[p].todo
  /\ proc' = [proc EXCEPT ![p].pc = "decide", ![p].a = a, ![p].todo = @ \ {a},
                          ![p].req = [key |-> <<proc[p].batch, a>>, asked |-> "approve",
                                      seen |-> Observed(a, <<proc[p].batch, a>>)]]
  /\ UNCHANGED <<st, t, ledger, inputs, mapping, plan, faults>>

-----------------------------------------------------------------------------
(* Faults and time *)

Crash(p) ==
  /\ proc[p].pc # "idle" /\ faults < MaxFaults
  /\ faults' = faults + 1
  /\ proc' = [proc EXCEPT ![p] = Idle]
  /\ UNCHANGED <<st, t, ledger, inputs, mapping, plan>>

CrashPlanner(q) ==
  /\ plan[q].pc # "idle" /\ faults < MaxFaults
  /\ faults' = faults + 1
  /\ plan' = [plan EXCEPT ![q] = NoPlan]
  /\ UNCHANGED <<st, t, ledger, inputs, mapping, proc>>

(* A read or a command under the claim fails: Apply fails the claim. *)
CallFails(p) ==
  /\ proc[p].pc \in {"execute", "supersede"} /\ faults < MaxFaults
  /\ faults' = faults + 1
  /\ FailClaim(p, st)
  /\ UNCHANGED <<t, ledger, inputs, mapping, plan>>

(* Any other call fails: the error is returned. *)
StepFails(p) ==
  /\ proc[p].pc \in {"claim", "reread", "record", "finish", "resume", "cleanup"} /\ faults < MaxFaults
  /\ faults' = faults + 1
  /\ LeaveWithError(p, st)
  /\ UNCHANGED <<t, ledger, inputs, mapping, plan>>

Working(a) == \E p \in Procs : proc[p].a = a /\ proc[p].pc \in {"execute", "supersede", "record"} /\ st.cont[a].owner = p

(* The lease of an owner that is gone ends; an owner that works outlives   *)
(* its lease only by a fault.                                              *)
LapseClaim(a) ==
  /\ st.cont[a] # None /\ st.cont[a].live
  /\ ~Working(a)
  /\ st' = [st EXCEPT !.cont[a].live = FALSE]
  /\ UNCHANGED <<t, ledger, inputs, mapping, proc, plan, faults>>

OutliveLease(a) ==
  /\ st.cont[a] # None /\ st.cont[a].live
  /\ Working(a) /\ faults < MaxFaults
  /\ faults' = faults + 1
  /\ st' = [st EXCEPT !.cont[a].live = FALSE]
  /\ UNCHANGED <<t, ledger, inputs, mapping, proc, plan>>

(* AvailableAt passes *)
RowDue(r) ==
  /\ st.box[r].status = "waiting"
  /\ st' = [st EXCEPT !.box[r].status = "pending"]
  /\ UNCHANGED <<t, ledger, inputs, mapping, proc, plan, faults>>

-----------------------------------------------------------------------------
Step(p) ==
  \/ Fallback(p) \/ RecordDecision(p) \/ CleanupStale(p) \/ EnqueueResume(p)
  \/ Claim(p) \/ Execute(p) \/ Supersede(p) \/ Record(p) \/ Finish(p)
  \/ Reread(p) \/ CompleteResume(p) \/ FreezeBatch(p)
  \/ \E a \in Approvals : DecideChild(p, a)

Relay(p) == \E r \in DOMAIN st.box : RelayRow(p, r)

Decision(p) ==
  \/ \E a \in Approvals, asked \in Asked : DecideRequest(p, a, asked)
  \/ \E k \in BatchKeys : LoadBatch(p, k)

Planning(q) ==
  SpecRequest(q) \/ SaveSpec(q) \/ PlanRequest(q) \/ SavePlan(q) \/ SpecResult(q) \/ PlanResult(q) \/ CrashPlanner(q)

World ==
  \/ \E n \in Candidates : StartGeneration(n) \/ CommitCandidate(n) \/ EditTarget(n)
  \/ \E key \in Exports, mode \in {"durable", "interrupt"} : CreateExport(key, mode)
  \/ \E key \in Analyses : AnalyzeMaterials(key)
  \/ \E a \in Approvals : BindMapping(a) \/ LapseClaim(a) \/ OutliveLease(a)
  \/ \E r \in DOMAIN st.box : RowDue(r)

Next ==
  \/ \E p \in Procs : Step(p) \/ Relay(p) \/ Decision(p) \/ Crash(p) \/ CallFails(p) \/ StepFails(p)
  \/ \E p \in Procs, a \in Approvals : ResumeApproval(p, a)
  \/ \E q \in Requests : Planning(q)
  \/ World

Spec == Init /\ [][Next]_vars

(* A process that does not crash goes on; the relay ticks and takes every  *)
(* due row; a session input is retried until the processor accepts it;     *)
(* leases end and deferred rows become due.  Nobody has to decide.         *)
Rows == [app : Approvals, type : {"resume", "continuation", "fallback"}, epoch : 1 .. 2]

Fairness ==
  /\ \A p \in Procs : WF_vars(Step(p))
  /\ \A p \in Relays, r \in Rows : WF_vars(r \in DOMAIN st.box /\ RelayRow(p, r))
  /\ \A p \in Agents, a \in Approvals : WF_vars(ResumeApproval(p, a))
  /\ \A a \in Approvals : WF_vars(LapseClaim(a))
  /\ \A r \in Rows : WF_vars(r \in DOMAIN st.box /\ RowDue(r))

FairSpec == Spec /\ Fairness

-----------------------------------------------------------------------------
(* However planners, handlers and recoveries interleave, a session has at  *)
(* most one pending spec or plan review, at most one spec under review and *)
(* one confirmed, and at most one active plan and export result: the gate  *)
(* of the planners is only a read, the stores must keep this.              *)
OneOfEach ==
  /\ AtMostOne(PendingPrimary(st))
  /\ \A status \in {"reviewing", "confirmed"} : AtMostOne(Specs!VersionsIn(t.specs, status))
  /\ AtMostOne({i \in DOMAIN t.board.plans : t.board.plans[i].status = "active"})
  /\ AtMostOne({i \in Arts!OfKind(t.arts, "export") : t.arts.revs[i].status = "active"})

(* What became of a target, "none" while there is none *)
Fate(a) ==
  CASE a[1] = "spec" -> IF a[2] \in DOMAIN t.specs THEN t.specs[a[2]].status ELSE "none"
    [] a[1] = "plan" -> IF a[2] \in DOMAIN t.board.plans THEN t.board.plans[a[2]].status ELSE "none"
    [] a[1] = "cand" -> t.board.cand[a[2]]
    [] a[1] = "export" -> IF a[2] \in DOMAIN t.arts.revs THEN t.arts.revs[a[2]].status ELSE "none"

(* Nothing becomes confirmed, active or adopted unless its approval was    *)
(* approved on the version reviewed; the frozen command is the only way.   *)
OnlyApprovedTakesEffect ==
  \A a \in Approvals :
    Fate(a) \in {"confirmed", "active"} /\ (a[1] = "export" => t.arts.revs[a[2]].kind = "export")
      => st.app[a] # None /\ st.app[a].status = "approved"

(* The command of an approval has run *)
CommandRan(a) ==
  CASE a[1] = "spec" -> Fate(a) \in {"confirmed", "rejected"}
    [] a[1] \in {"plan", "cand"} -> CommandKey(a, st.app[a].status) \in t.board.applied
    [] a[1] = "export" -> CommandKey(a, st.app[a].status) \in t.arts.receipts

(* The ledger row of a command means the command ran, and a decision has   *)
(* one row: a claim that lapsed while its owner went on cannot add a       *)
(* second answer.  A confirmed spec may be superseded later, so a spec's   *)
(* row is judged by its status having left review.                         *)
LedgerTellsTruth ==
  \A a \in Approvals :
    /\ "command" \in ledger[a] => IF a[1] = "spec" THEN Fate(a) # "reviewing" ELSE CommandRan(a)
    /\ AtMostOne(ledger[a])

(* An applied continuation closed its review: the spec, plan or candidate  *)
(* is no longer open, whether the decision ran, was superseded or stale.   *)
(* (A superseded export result stays in review; only the latest counts.)   *)
AppliedIsClosed ==
  \A a \in Approvals : a[1] # "export" /\ st.cont[a] # None /\ st.cont[a].status = "applied" =>
    Fate(a) \notin {"reviewing", "candidate"}

(* The agent only hears of a result that is applied, and a checkpoint is   *)
(* only resumed to its end after the command of its approval committed     *)
(* (prepareResumeCompletion runs before completeResume).                   *)
AgentHearsApplied ==
  \A a \in Approvals :
    <<"result", a>> \in inputs \/ mapping[a] = "resumed" => st.cont[a].status = "applied"

(* A repeated request is answered with what the first one froze: a handler *)
(* that retries its decided request presents the binding the first attempt *)
(* recorded (or it would see a conflict), a batch decides the candidates   *)
(* it froze and never newer ones, and both stores give a known batch back  *)
(* as it is (Decide, loadOrCreateCandidateBatch).                          *)
RetryKeepsFirst ==
  /\ \A p \in Handlers :
       proc[p].pc = "decide" /\ Decided(st, proc[p].a) /\ st.app[proc[p].a].key = proc[p].req.key
         => SameDecisionRequest(st.app[proc[p].a], proc[p].req)
  /\ \A k \in BatchKeys, a \in Approvals :
       st.app[a] # None /\ st.app[a].key = <<k, a>> => st.batch[k] # None /\ a \in st.batch[k]
  /\ \A k \in BatchKeys : st.batch[k] # None =>
       /\ CreateCandidateApprovalBatch(st, k, BatchTargets) = st
       /\ CreateCandidateApprovalBatchPostgres(st, k, BatchTargets) = st

(* Every decision is carried out: whatever crashes or fails after it was   *)
(* recorded, its continuation is applied, unless the row that carries it   *)
(* was given up after MaxDelivery deliveries.  The agent then hears of it, *)
(* with one exception: a relay that was refused the claim and then reads   *)
(* the continuation as applied marks the row as delivered (RelayOnce), and *)
(* if the owner stopped before it told the agent nobody does any more.     *)
CarriedOut(a) ==
  /\ st.cont[a].status = "applied"
  /\ \/ st.cont[a].exec = "runner" \/ <<"result", a>> \in inputs
     \/ st.box[DecisionRow(a, st.cont[a])].status = "published"

DecisionIsCarriedOut ==
  \A a \in Approvals :
    Decided(st, a) ~> Decided(st, a) /\ (CarriedOut(a) \/ st.box[DecisionRow(a, st.cont[a])].status = "dead")

(* The memory store and the Postgres store do the same to every reachable  *)
(* content, for every request: what one of them is tested for holds for    *)
(* the other, and what the migration of the Postgres store repairs never   *)
(* arises.                                                                 *)
StoresAgree == SpecsAgree(t.specs) /\ ArtifactsAgree(t.arts) /\ ApprovalsAgree(st) /\ ContinuationsAgree(st)

=============================================================================
