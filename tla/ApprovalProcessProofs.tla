------------------------ MODULE ApprovalProcessProofs ------------------------
(***************************************************************************)
(* The steps that leave what is reviewed alone keep the invariant of       *)
(* reviews, however processes crash, lose their lease or overtake each     *)
(* other (the other steps: ApprovalRuntimeProofs).                         *)
(***************************************************************************)
EXTENDS ReviewInvariant, ApprovalStoreProofs

-----------------------------------------------------------------------------
(* What steps keep *)

(* The parts of the invariant a step starts from *)
LEMMA Given ==
  ASSUME TypeOK
  PROVE  /\ st \in Stores /\ t \in Targets /\ plan \in [Requests -> PlanLocals] /\ faults \in Nat
         /\ proc \in [Procs -> Locals]
  BY Zenon DEF TypeOK

(* What stays as it is has not moved. *)
LEMMA NoMove ==
  ASSUME NEW u \in Targets, TargetInv(u), NEW S
  PROVE  Moves(u, u, S)
  <1>1. Forward(u, u)
    BY Zenon DEF Forward
  <1> QED BY Zenon, <1>1 DEF Moves, NothingNew

(* Forward, at one approval *)
LEMMA ForwardAt ==
  ASSUME NEW u, NEW w, Forward(u, w), NEW a \in Approvals, Exists(u, a)
  PROVE  /\ Exists(w, a)
         /\ Closed(u, a) => Closed(w, a)
         /\ a[1] # "export" /\ ~Matches(u, a) => ~Matches(w, a)
         /\ \A status \in Statuses : Traced(u, a, status) => Traced(w, a, status)
  BY Zenon DEF Forward, Statuses

(* A continuation exists only for a decided approval. *)
LEMMA DecidedStatus ==
  ASSUME NEW s \in Stores, StoreInv(s), NEW a \in Approvals, s.cont[a] # None
  PROVE  Decided(s, a) /\ s.app[a] # None /\ s.app[a].status \in Statuses
  BY StoreParts DEF StoreInv, Decided, ApprovalRows, Statuses

(* An approval whose outcome is the same keeps its link to a target that   *)
(* moved forward.                                                          *)
LEMMA LinkKept ==
  ASSUME NEW s \in Stores, StoreInv(s), NEW r, NEW u, NEW w, NEW a \in Approvals, Link(s, u, a),
         SameOutcome(s, r, a), Forward(u, w), NothingNew(u, w, a)
  PROVE  Link(r, w, a)
  <1>1. r.app[a] # None => s.app[a] # None /\ r.app[a].status = s.app[a].status
    BY Zenon DEF SameOutcome
  <1>2. s.app[a] # None => r.app[a] # None
    BY Zenon DEF SameOutcome
  <1>3. s.app[a] # None => Exists(u, a)
    BY Zenon DEF Link
  <1>4. s.app[a] # None =>
          /\ Exists(w, a)
          /\ Closed(u, a) => Closed(w, a)
          /\ a[1] # "export" /\ ~Matches(u, a) => ~Matches(w, a)
    BY Zenon, <1>3, ForwardAt
  <1>5. Applied(r, a) => Applied(s, a) /\ s.app[a] # None
    BY Zenon, DecidedStatus DEF SameOutcome, Applied
  <1>6. a[1] = "cand" /\ w.board.cand[a[2]] = "candidate" => r.app[a] # None
    BY Zenon, <1>2 DEF Link, NothingNew
  <1>7. InEffect(w, a) => r.app[a] # None /\ r.app[a].status = "approved"
    BY Zenon, <1>1, <1>2 DEF Link, NothingNew
  <1>8. r.app[a] # None /\ r.app[a].status = "stale" /\ a[1] # "export" => ~Matches(w, a)
    BY Zenon, <1>1, <1>4 DEF Link
  <1>9. Applied(r, a) => Closed(w, a)
    BY Zenon, <1>4, <1>5 DEF Link
  <1>10. ASSUME NEW status \in Statuses, a[1] \in {"plan", "cand"}, CommandKey(a, status) \in w.board.applied
         PROVE  r.app[a] # None /\ Closed(w, a)
    <2>1. CommandKey(a, status) \in u.board.applied
      BY Zenon, <1>10 DEF NothingNew
    <2>2. s.app[a] # None /\ Closed(u, a)
      BY Zenon, <1>10, <2>1 DEF Link, Statuses
    <2> QED BY Zenon, <1>2, <1>4, <2>2
  <1> QED BY ZenonT(60), <1>1, <1>4, <1>6, <1>7, <1>8, <1>9, <1>10 DEF Link, Statuses

(* A step that leaves every outcome and brings nothing new keeps all links. *)
LEMMA AllLinked ==
  ASSUME NEW s \in Stores, StoreInv(s), NEW r, NEW u, NEW w, LinkInv(s, u), Keeps(s, r), Moves(u, w, {})
  PROVE  LinkInv(r, w)
  <1> SUFFICES ASSUME NEW a \in Approvals PROVE Link(r, w, a)
    BY Zenon DEF LinkInv
  <1>1. Link(s, u, a) /\ SameOutcome(s, r, a) /\ Forward(u, w) /\ NothingNew(u, w, a)
    BY Zenon DEF LinkInv, Keeps, Moves
  <1> QED BY Zenon, <1>1, LinkKept

(* What a process knows stays true. *)
LEMMA KnowsKept ==
  ASSUME NEW s \in Stores, StoreInv(s), NEW r, NEW u, NEW w, LinkInv(s, u),
         StoreForward(s, r), Forward(u, w), NEW l \in Locals, Knows(l, s, u)
  PROVE  Knows(l, r, w)
  <1>1. ASSUME l.pc \in {"fallback", "decide"}
        PROVE  /\ l.a # None /\ r.app[l.a] # None /\ l.req \in DecisionRequests
               /\ l.pc = "decide" /\ ~l.req.seen /\ l.a[1] # "export" => ~Matches(w, l.a)
    <2>1. l.a \in Approvals /\ s.app[l.a] # None /\ l.a # None /\ l.req \in DecisionRequests
      BY ZenonT(60), <1>1 DEF Knows, Locals
    <2>2. Exists(u, l.a)
      BY ZenonT(60), <2>1 DEF LinkInv, Link
    <2>3. l.pc = "decide" /\ ~l.req.seen /\ l.a[1] # "export" => ~Matches(u, l.a)
      BY ZenonT(60) DEF Knows
    <2>4. l.a[1] # "export" /\ ~Matches(u, l.a) => ~Matches(w, l.a)
      BY Zenon, <2>1, <2>2, ForwardAt
    <2> QED BY ZenonT(60), <2>1, <2>3, <2>4 DEF StoreForward
  <1>2. ASSUME l.pc \in Carrying
        PROVE  /\ l.a # None /\ r.cont[l.a] # None /\ l.read \in Reads
               /\ l.pc = "execute" => l.verdict = "command" /\ r.app[l.a].status # "stale"
               /\ l.pc = "supersede" /\ l.a[1] = "spec" => Closed(w, l.a)
               /\ l.pc = "record" => l.verdict \in {"command", "noop", "empty"} /\ Closed(w, l.a)
               /\ l.pc = "record" /\ l.verdict = "command" => Traced(w, l.a, r.app[l.a].status)
               /\ l.pc \in {"finish", "complete"} => Applied(r, l.a)
    <2>1. l.a \in Approvals /\ s.cont[l.a] # None /\ l.a # None /\ l.read \in Reads
      BY ZenonT(60), <1>2 DEF Knows, Locals
    <2>2. Decided(s, l.a) /\ s.app[l.a] # None /\ s.app[l.a].status \in Statuses
      BY ZenonT(60), <2>1, DecidedStatus
    <2>3. Exists(u, l.a)
      BY ZenonT(60), <2>1, <2>2 DEF LinkInv, Link
    <2>4. r.cont[l.a] # None /\ r.app[l.a].status = s.app[l.a].status /\ (Applied(s, l.a) => Applied(r, l.a))
      BY ZenonT(60), <2>1, <2>2 DEF StoreForward
    <2>5. (Closed(u, l.a) => Closed(w, l.a)) /\ \A status \in Statuses : Traced(u, l.a, status) => Traced(w, l.a, status)
      BY Zenon, <2>1, <2>3, ForwardAt
    <2> QED BY ZenonT(60), <2>1, <2>2, <2>4, <2>5 DEF Knows
  <1>3. l.pc = "freeze" \/ l.todo # {} => l.batch \in BatchKeys
    BY Zenon DEF Knows
  <1>4. \A a \in l.todo \cap Approvals : r.app[a] # None
    BY ZenonT(60) DEF Knows, StoreForward
  <1> QED BY ZenonT(60), <1>1, <1>2, <1>3, <1>4 DEF Knows, Carrying

(* What a planner relies on stays true. *)
LEMMA PlannerKept ==
  ASSUME NEW u, NEW w, Forward(u, w), NEW q, NEW l, Planner(q, l, u)
  PROVE  Planner(q, l, w)
  <1>1. \A v : WasConfirmed(u.specs, v) => WasConfirmed(w.specs, v)
    BY Zenon DEF Forward, WasConfirmed
  <1> QED BY ZenonT(60), <1>1 DEF Planner, Forward

(* A ledger row, a result or the end of a resume comes with the applied    *)
(* continuation.                                                           *)
LedgerStep ==
  \A a \in Approvals :
    /\ \/ ledger'[a] = ledger[a]
       \/ /\ AtMostOne(ledger'[a]) /\ Applied(st', a)
          /\ "command" \in ledger'[a] => Traced(t', a, st'.app[a].status)
    /\ <<"result", a>> \in inputs' => <<"result", a>> \in inputs \/ Applied(st', a)
    /\ mapping'[a] = "resumed" => mapping[a] = "resumed" \/ Applied(st', a)
    /\ <<"resume", a>> \in inputs' => <<"resume", a>> \in inputs \/ st'.cont[a] # None

(* Ledger, results and resumed mappings keep telling of applied continuations. *)
LEMMA LedgerKept ==
  ASSUME st \in Stores, StoreInv(st), LinkInv(st, t), LedgerInv, StoreForward(st, st'), Forward(t, t'), LedgerStep
  PROVE  LedgerInv'
  <1> SUFFICES ASSUME NEW a \in Approvals
               PROVE  /\ ledger'[a] # {} => Applied(st', a)
                      /\ AtMostOne(ledger'[a])
                      /\ "command" \in ledger'[a] => Traced(t', a, st'.app[a].status)
                      /\ <<"result", a>> \in inputs' \/ mapping'[a] = "resumed" => Applied(st', a)
                      /\ <<"resume", a>> \in inputs' => st'.cont[a] # None
    BY ZenonT(60) DEF LedgerInv, Applied, AtMostOne, Traced, CommandKey
  <1>1. (Applied(st, a) => Applied(st', a)) /\ (st.cont[a] # None => st'.cont[a] # None)
    BY Zenon DEF StoreForward
  <1>2. <<"result", a>> \in inputs' \/ mapping'[a] = "resumed" => Applied(st', a)
    BY Zenon, <1>1 DEF LedgerInv, LedgerStep
  <1>3. <<"resume", a>> \in inputs' => st'.cont[a] # None
    BY ZenonT(60), <1>1 DEF LedgerInv, LedgerStep
  <1>4. CASE ledger'[a] = ledger[a]
    <2>1. "command" \in ledger[a] => Traced(t', a, st'.app[a].status)
      <3> SUFFICES ASSUME "command" \in ledger[a] PROVE Traced(t', a, st'.app[a].status)
        BY Zenon
      <3>1. st.cont[a] # None /\ Traced(t, a, st.app[a].status)
        BY ZenonT(60) DEF LedgerInv, Applied
      <3>2. Decided(st, a) /\ st.app[a] # None /\ st.app[a].status \in Statuses
        BY Zenon, <3>1, DecidedStatus
      <3>3. Exists(t, a)
        BY Zenon, <3>2 DEF LinkInv, Link
      <3>4. st'.app[a].status = st.app[a].status
        BY Zenon, <3>2 DEF StoreForward
      <3> QED BY ZenonT(60), <3>1, <3>2, <3>3, <3>4, ForwardAt
    <2> QED BY Zenon, <1>1, <1>2, <1>3, <1>4, <2>1 DEF LedgerInv
  <1>5. CASE ledger'[a] # ledger[a]
    BY Zenon, <1>2, <1>3, <1>5 DEF LedgerStep
  <1> QED BY Zenon, <1>4, <1>5

-----------------------------------------------------------------------------
(* The steps *)

(* Only p moves, and what it then relies on holds. *)
Moved(p) ==
  /\ proc' \in [Procs -> Locals]
  /\ \A x \in Procs \ {p} : proc'[x] = proc[x]
  /\ Knows(proc'[p], st', t')

(* The parts of a step that keeps the invariant *)
LEMMA StepKeeps ==
  ASSUME TypeOK, ReviewInv,
         st' \in Stores, StoreInv(st'), StoreForward(st, st'),
         t' \in Targets, TargetInv(t'), Forward(t, t'), LinkInv(st', t'), LedgerStep,
         ledger' \in [Approvals -> SUBSET {"command", "noop"}],
         inputs' \subseteq {"resume", "result"} \X Approvals,
         mapping' \in [Approvals -> {"none", "pending", "resuming", "resumed"}],
         faults' \in Nat,
         proc' \in [Procs -> Locals], \A p \in Procs : proc'[p] = proc[p] \/ Knows(proc'[p], st', t'),
         plan' \in [Requests -> PlanLocals], \A q \in Requests : plan'[q] = plan[q] \/ Planner(q, plan'[q], t')
  PROVE  Good
  <1>0. /\ st \in Stores /\ StoreInv(st) /\ LinkInv(st, t) /\ LedgerInv
        /\ \A p \in Procs : proc[p] \in Locals
    BY Zenon DEF TypeOK, ReviewInv
  <1>1. TypeOK'
    BY Zenon DEF TypeOK
  <1>2. LedgerInv'
    BY Zenon, <1>0, LedgerKept
  <1>3. ProcInv'
    <2> SUFFICES ASSUME NEW p \in Procs PROVE Knows(proc'[p], st', t')
      BY Zenon DEF ProcInv
    <2>1. Knows(proc[p], st, t) /\ proc[p] \in Locals
      BY Zenon, <1>0 DEF ReviewInv, ProcInv
    <2>2. Knows(proc[p], st', t')
      BY Zenon, <1>0, <2>1, KnowsKept
    <2> QED BY Zenon, <2>2
  <1>4. PlannerInv'
    <2> SUFFICES ASSUME NEW q \in Requests PROVE Planner(q, plan'[q], t')
      BY Zenon DEF PlannerInv
    <2>1. Planner(q, plan[q], t')
      BY Zenon, PlannerKept DEF ReviewInv, PlannerInv
    <2> QED BY Zenon, <2>1
  <1> QED BY Zenon, <1>1, <1>2, <1>3, <1>4 DEF Good, ReviewInv

(* A step of one process that leaves the outcome of every approval *)
LEMMA ProcessKeeps ==
  ASSUME TypeOK, ReviewInv, NEW p \in Procs, Moved(p), Keeps(st, st'), Moves(t, t', {}), LedgerStep,
         ledger' \in [Approvals -> SUBSET {"command", "noop"}],
         inputs' \subseteq {"resume", "result"} \X Approvals,
         mapping' \in [Approvals -> {"none", "pending", "resuming", "resumed"}],
         faults' \in Nat, plan' = plan
  PROVE  Good
  <1>1. st \in Stores /\ StoreInv(st) /\ LinkInv(st, t) /\ plan' \in [Requests -> PlanLocals]
    BY Zenon DEF TypeOK, ReviewInv
  <1>2. LinkInv(st', t')
    BY Zenon, <1>1, AllLinked
  <1>3. st' \in Stores /\ StoreInv(st') /\ StoreForward(st, st')
    BY Zenon DEF Keeps
  <1>4. t' \in Targets /\ TargetInv(t') /\ Forward(t, t')
    BY Zenon DEF Moves
  <1>5. proc' \in [Procs -> Locals] /\ \A x \in Procs : proc'[x] = proc[x] \/ Knows(proc'[x], st', t')
    BY Zenon DEF Moved
  <1> QED BY Zenon, <1>1, <1>2, <1>3, <1>4, <1>5, StepKeeps

(* A step of one process that changes only the stores *)
LEMMA StoreStepKeeps ==
  ASSUME TypeOK, ReviewInv, NEW p \in Procs, Moved(p), Keeps(st, st'),
         UNCHANGED <<t, ledger, inputs, mapping, plan>>, faults' \in Nat
  PROVE  Good
  <1>1. t \in Targets /\ TargetInv(t)
    BY Zenon DEF TypeOK, ReviewInv
  <1>2. Moves(t, t', {})
    BY Zenon, <1>1, NoMove
  <1>3. LedgerStep
    BY Zenon DEF LedgerStep
  <1>4. /\ ledger' \in [Approvals -> SUBSET {"command", "noop"}]
        /\ inputs' \subseteq {"resume", "result"} \X Approvals
        /\ mapping' \in [Approvals -> {"none", "pending", "resuming", "resumed"}]
    BY Zenon DEF TypeOK
  <1> QED BY Zenon, <1>2, <1>3, <1>4, ProcessKeeps

(* A step that moves no process and no planner, and changes only the stores *)
LEMMA RowStepKeeps ==
  ASSUME TypeOK, ReviewInv, Keeps(st, st'), UNCHANGED <<t, ledger, inputs, proc, plan>>, faults' \in Nat,
         mapping' \in [Approvals -> {"none", "pending", "resuming", "resumed"}],
         \A a \in Approvals : mapping'[a] = "resumed" => mapping[a] = "resumed"
  PROVE  Good
  <1>1. t \in Targets /\ TargetInv(t)
    BY Zenon DEF TypeOK, ReviewInv
  <1>2. Moves(t, t', {})
    BY Zenon, <1>1, NoMove
  <1>3. LedgerStep
    BY Zenon DEF LedgerStep
  <1>4. /\ ledger' \in [Approvals -> SUBSET {"command", "noop"}]
        /\ inputs' \subseteq {"resume", "result"} \X Approvals
        /\ proc' \in [Procs -> Locals] /\ plan' \in [Requests -> PlanLocals]
    BY Zenon DEF TypeOK
  <1>5. st \in Stores /\ StoreInv(st) /\ LinkInv(st, t)
    BY Zenon DEF TypeOK, ReviewInv
  <1>6. LinkInv(st', t')
    BY Zenon, <1>2, <1>5, AllLinked
  <1>7. st' \in Stores /\ StoreInv(st') /\ StoreForward(st, st')
    BY Zenon DEF Keeps
  <1>8. t' \in Targets /\ TargetInv(t') /\ Forward(t, t')
    BY Zenon, <1>2 DEF Moves
  <1> QED BY Zenon, <1>3, <1>4, <1>6, <1>7, <1>8, StepKeeps

(* An idle process relies on nothing. *)
LEMMA IdleKnows ==
  ASSUME NEW s, NEW u
  PROVE  Idle \in Locals /\ Knows(Idle, s, u)
  BY ZenonT(60) DEF Idle, Locals, Pcs, Knows, Carrying

(* A process that leaves its call keeps only its batch. *)
LEMMA LeaveMoves ==
  ASSUME TypeOK, ReviewInv, NEW p \in Procs, Leave(p), StoreForward(st, st')
  PROVE  Moved(p)
  <1> DEFINE k == proc[p].batch
             T == proc[p].todo
             l == [Idle EXCEPT !.pc = "batch", !.batch = k, !.todo = T]
  <1>1. proc \in [Procs -> Locals] /\ proc[p] \in Locals /\ Knows(proc[p], st, t)
    BY Zenon DEF TypeOK, ReviewInv, ProcInv
  <1>2. k \in BatchKeys \cup {None} /\ T \in SUBSET Reviewable
    BY Zenon, <1>1 DEF Locals
  <1>3. T # {} => k \in BatchKeys
    BY ZenonT(60), <1>1 DEF Knows
  <1>4. \A a \in T \cap Approvals : st'.app[a] # None
    BY Zenon, <1>1 DEF Knows, StoreForward
  <1>5. proc' = [proc EXCEPT ![p] = IF T = {} THEN Idle ELSE l]
    BY Zenon DEF Leave
  <1> HIDE DEF k, T
  <1>6. Idle \in Locals /\ Knows(Idle, st', t')
    BY Zenon, IdleKnows
  <1>7. l \in Locals /\ l.pc = "batch" /\ l.batch = k /\ l.todo = T
    BY ZenonT(60), <1>2, <1>6 DEF Locals, Pcs
  <1> HIDE DEF l
  <1>8. Knows(l, st', t')
    BY ZenonT(60), <1>3, <1>4, <1>7 DEF Knows, Carrying
  <1> QED BY Zenon, <1>1, <1>5, <1>6, <1>7, <1>8 DEF Moved

(* Goto moves the process and nothing else of it. *)
LEMMA GotoIs ==
  ASSUME TypeOK, NEW p \in Procs, NEW pc \in Pcs, Goto(p, pc)
  PROVE  /\ proc' \in [Procs -> Locals] /\ \A x \in Procs \ {p} : proc'[x] = proc[x]
         /\ proc'[p].pc = pc /\ proc'[p].a = proc[p].a /\ proc'[p].read = proc[p].read /\ proc'[p].req = proc[p].req
         /\ proc'[p].verdict = proc[p].verdict /\ proc'[p].batch = proc[p].batch /\ proc'[p].todo = proc[p].todo
  <1>1. proc \in [Procs -> Locals] /\ proc[p] \in Locals
    BY Zenon DEF TypeOK
  <1>2. proc' = [proc EXCEPT ![p] = [proc[p] EXCEPT !.pc = pc]]
    BY Zenon DEF Goto
  <1>3. [proc[p] EXCEPT !.pc = pc] \in Locals
    BY Zenon, <1>1 DEF Locals
  <1> QED BY Zenon, <1>1, <1>2, <1>3 DEF Locals

(* An error of a call that has no effect on the outcome *)
LEMMA ErrorKeeps ==
  ASSUME TypeOK, ReviewInv, NEW p \in Procs, NEW s, Keeps(st, s), LeaveWithError(p, s),
         UNCHANGED <<t, ledger, inputs, mapping, plan>>, faults' \in Nat
  PROVE  Good
  <1>1. s \in Stores /\ StoreInv(s)
    BY Zenon DEF Keeps
  <1>2. Keeps(st, st')
    BY Zenon, <1>1, RowFailed, KeepsOn DEF LeaveWithError
  <1>3. Moved(p)
    BY Zenon, <1>2, LeaveMoves DEF Keeps, LeaveWithError
  <1> QED BY Zenon, <1>2, <1>3, StoreStepKeeps

(* A failed call fails the continuation its process holds, and the process leaves. *)
LEMMA FailKeeps ==
  ASSUME TypeOK, ReviewInv, NEW p \in Procs, proc[p].pc \in Carrying, NEW s, Keeps(st, s), FailClaim(p, s),
         UNCHANGED <<t, ledger, inputs, mapping, plan>>, faults' \in Nat
  PROVE  Good
  <1> DEFINE a == proc[p].a
             r == [s EXCEPT !.cont[a] = Conts!FailContinuationPostgres(@, proc[p].read, p)]
  <1>1. s \in Stores /\ StoreInv(s) /\ StoreForward(st, s)
    BY Zenon DEF Keeps
  <1>2. a \in Approvals /\ st.cont[a] # None
    BY ZenonT(60) DEF TypeOK, ReviewInv, ProcInv, Knows, Locals
  <1>3. s.cont[a] # None
    BY Zenon, <1>1, <1>2 DEF StoreForward
  <1>4. Keeps(s, r)
    BY Zenon, <1>1, <1>2, <1>3, FailKept
  <1>5. Keeps(st, r)
    BY Zenon, <1>4, KeepsOn
  <1>6. LeaveWithError(p, r)
    BY Zenon DEF FailClaim
  <1> HIDE DEF r
  <1> QED BY Zenon, <1>5, <1>6, ErrorKeeps

(* The row is marked, or that failed. *)
LEMMA PublishIs ==
  ASSUME TypeOK, ReviewInv, NEW p \in Procs, PublishRow(p)
  PROVE  Keeps(st, st') /\ Moved(p) /\ faults' \in Nat
  <1>1. st \in Stores /\ StoreInv(st) /\ faults \in Nat
    BY Zenon DEF TypeOK, ReviewInv
  <1>2. Keeps(st, st') /\ faults' \in Nat
    BY <1>1, RowPublished, KeepsSame DEF PublishRow
  <1> QED BY Zenon, <1>2, LeaveMoves DEF Keeps, PublishRow

(* The rest of a batch stays with its process. *)
LEMMA QueueKept ==
  ASSUME TypeOK, ReviewInv, NEW p \in Procs, StoreForward(st, st')
  PROVE  /\ proc[p] \in Locals /\ proc[p].todo \subseteq Reviewable
         /\ proc[p].todo # {} => proc[p].batch \in BatchKeys
         /\ \A a \in proc[p].todo \cap Approvals : st'.app[a] # None
  <1>1. proc[p] \in Locals /\ Knows(proc[p], st, t)
    BY Zenon DEF TypeOK, ReviewInv, ProcInv
  <1> QED BY ZenonT(60), <1>1 DEF Knows, Locals, StoreForward

(* A process that carries a decision out has its continuation. *)
LEMMA CarryIs ==
  ASSUME TypeOK, ReviewInv, NEW p \in Procs, proc[p].pc \in Carrying
  PROVE  LET a == proc[p].a
         IN  /\ a \in Approvals /\ a # None /\ st.cont[a] \in ContinuationRows /\ st.cont[a] # None
             /\ Decided(st, a) /\ st.app[a] # None /\ st.app[a].status \in Statuses
             /\ Exists(t, a) /\ proc[p].read \in Reads
  <1> DEFINE a == proc[p].a
  <1>1. a \in Approvals /\ a # None /\ st.cont[a] # None /\ proc[p].read \in Reads
    BY ZenonT(60) DEF TypeOK, ReviewInv, ProcInv, Knows, Locals
  <1>2. st \in Stores /\ StoreInv(st) /\ LinkInv(st, t)
    BY Zenon DEF TypeOK, ReviewInv
  <1> HIDE DEF a
  <1>3. st.cont[a] \in ContinuationRows
    BY Zenon, <1>1, <1>2, StoreParts
  <1>4. Decided(st, a) /\ st.app[a] # None /\ st.app[a].status \in Statuses
    BY Zenon, <1>1, <1>2, DecidedStatus
  <1>5. Exists(t, a)
    BY ZenonT(60), <1>1, <1>2, <1>4 DEF LinkInv, Link
  <1> QED BY Zenon, <1>1, <1>3, <1>4, <1>5 DEF a

(* ResolveBinding answers yes or no. *)
LEMMA MatchesType ==
  ASSUME NEW u, NEW a \in Approvals
  PROVE  Matches(u, a) \in BOOLEAN
  BY ZenonT(60), IdentityAssumption DEF Matches

(* A binding that is found not to match was not matched at the decision    *)
(* either, or does not match now.                                          *)
LEMMA ObservedIs ==
  ASSUME TypeOK, ReviewInv, NEW a \in Approvals, NEW key
  PROVE  Observed(a, key) \in BOOLEAN /\ (~Observed(a, key) /\ a[1] # "export" => ~Matches(t, a))
  <1>1. st \in Stores /\ StoreInv(st) /\ Link(st, t, a)
    BY Zenon DEF TypeOK, ReviewInv, LinkInv
  <1>2. Matches(t, a) \in BOOLEAN
    BY Zenon, MatchesType
  <1>3. CASE Decided(st, a) /\ st.app[a].key = key
    <2>1. Observed(a, key) = st.app[a].seen /\ st.app[a] # None
      BY Zenon, <1>3 DEF Observed, Decided
    <2>2. st.app[a].seen \in BOOLEAN
      BY Zenon, <1>1, <2>1, StoreParts DEF ApprovalRows
    <2>3. ~st.app[a].seen => st.app[a].status = "stale"
      BY Zenon, <1>1, <1>3 DEF StoreInv
    <2> QED BY ZenonT(60), <1>1, <2>1, <2>2, <2>3 DEF Link
  <1>4. CASE ~(Decided(st, a) /\ st.app[a].key = key)
    BY Zenon, <1>2, <1>4 DEF Observed
  <1> QED BY Zenon, <1>3, <1>4

(* A process that has the binding goes on to decide. *)
Deciding(p, a, key, asked, T) ==
  [proc[p] EXCEPT !.pc = "decide", !.a = a, !.todo = T,
                  !.req = [key |-> key, asked |-> asked, seen |-> Observed(a, key)]]

(* The request a process decides with says what its binding check saw. *)
LEMMA DecidingMoves ==
  ASSUME TypeOK, ReviewInv, NEW p \in Procs, NEW a \in Approvals, st.app[a] # None, NEW key \in DecisionKeys,
         NEW asked \in Asked \cup {"approve"}, NEW T \in SUBSET proc[p].todo,
         proc' = [proc EXCEPT ![p] = Deciding(p, a, key, asked, T)], StoreForward(st, st'), t' = t
  PROVE  Moved(p)
  <1> DEFINE seen == Observed(a, key)
             req == [key |-> key, asked |-> asked, seen |-> seen]
             l == [proc[p] EXCEPT !.pc = "decide", !.a = a, !.todo = T, !.req = req]
  <1>1. seen \in BOOLEAN /\ (~seen /\ a[1] # "export" => ~Matches(t, a))
    BY Zenon, ObservedIs
  <1>2. /\ proc[p] \in Locals /\ proc[p].todo \subseteq Reviewable
        /\ proc[p].todo # {} => proc[p].batch \in BatchKeys
        /\ \A x \in proc[p].todo \cap Approvals : st'.app[x] # None
    BY Zenon, QueueKept
  <1>3. proc' = [proc EXCEPT ![p] = l] /\ proc \in [Procs -> Locals]
    BY Zenon DEF TypeOK, Deciding
  <1> HIDE DEF seen
  <1>4. req \in DecisionRequests /\ req.seen = seen /\ a # None
    BY Zenon, <1>1, ApprovalAssumption DEF DecisionRequests
  <1> HIDE DEF req
  <1>5. l \in Locals /\ l.pc = "decide" /\ l.a = a /\ l.todo = T /\ l.req = req /\ l.batch = proc[p].batch
    BY ZenonT(60), <1>2, <1>4 DEF Locals, Pcs
  <1> HIDE DEF l
  <1>6. st'.app[a] # None
    BY Zenon DEF StoreForward
  <1>7. Knows(l, st', t')
    BY ZenonT(60), <1>1, <1>2, <1>4, <1>5, <1>6 DEF Knows, Carrying
  <1> QED BY <1>3, <1>5, <1>7 DEF Moved

(* The binding is resolved before the decision (ResolveBinding). *)
LEMMA ResolveMoves ==
  ASSUME TypeOK, ReviewInv, NEW p \in Procs, NEW a \in Approvals, st.app[a] # None, NEW key \in DecisionKeys,
         NEW asked \in Asked \cup {"approve"}, Resolve(p, a, key, asked), StoreForward(st, st'), t' = t
  PROVE  Moved(p)
  <1>1. proc[p] \in Locals /\ proc \in [Procs -> Locals]
    BY Zenon DEF TypeOK
  <1>2. proc' = [proc EXCEPT ![p] = Deciding(p, a, key, asked, proc[p].todo)]
    BY ZenonT(60), <1>1 DEF Resolve, Deciding, Locals
  <1> QED BY ZenonT(60), <1>2, DecidingMoves

-----------------------------------------------------------------------------
(* Decide *)

(* A request to decide, of the HTTP handler *)
LEMMA DecideRequestGood ==
  ASSUME TypeOK, ReviewInv, NEW p \in Procs, NEW a \in Approvals, NEW asked \in Asked, DecideRequest(p, a, asked)
  PROVE  Good
  <1> DEFINE key == <<a, asked>>
             req == [key |-> key, asked |-> asked, seen |-> FALSE]
             epoch == st.app[a].epoch
             l == [proc[p] EXCEPT !.pc = "fallback", !.a = a, !.epoch = epoch, !.req = req]
  <1>1. st \in Stores /\ StoreInv(st) /\ proc \in [Procs -> Locals] /\ faults' \in Nat
    BY Zenon DEF TypeOK, ReviewInv, DecideRequest, LoadApproval
  <1>2. UNCHANGED <<st, t, ledger, inputs, mapping, plan>> /\ st.app[a] # None /\ LoadApproval(p, a, key, asked)
    BY Zenon DEF DecideRequest, LoadApproval
  <1>3. Keeps(st, st')
    BY Zenon, <1>1, <1>2, KeepsSame
  <1>4. StoreForward(st, st')
    BY Zenon, <1>3 DEF Keeps
  <1>5. key \in DecisionKeys /\ a # None
    BY Zenon, ApprovalAssumption DEF DecisionKeys
  <1>6. CASE NeedsFallback(a)
    <2>1. epoch \in Nat
      BY Zenon, <1>1, <1>2, StoreParts DEF ApprovalRows
    <2>2. /\ proc[p] \in Locals /\ proc[p].todo \subseteq Reviewable
          /\ proc[p].todo # {} => proc[p].batch \in BatchKeys
          /\ \A x \in proc[p].todo \cap Approvals : st'.app[x] # None
      BY Zenon, <1>4, QueueKept
    <2>3. proc' = [proc EXCEPT ![p] = l]
      BY ZenonT(60), <1>2, <1>6 DEF LoadApproval
    <2> HIDE DEF key, epoch
    <2>4. req \in DecisionRequests
      BY Zenon, <1>5 DEF DecisionRequests
    <2> HIDE DEF req
    <2>5. l \in Locals /\ l.pc = "fallback" /\ l.a = a /\ l.todo = proc[p].todo /\ l.req = req /\ l.batch = proc[p].batch
      BY ZenonT(60), <2>1, <2>2, <2>4 DEF Locals, Pcs
    <2> HIDE DEF l
    <2>6. Knows(l, st', t')
      BY ZenonT(60), <1>2, <1>5, <2>2, <2>4, <2>5 DEF Knows, Carrying
    <2>7. Moved(p)
      BY <1>1, <2>3, <2>5, <2>6 DEF Moved
    <2> QED BY Zenon, <1>1, <1>2, <1>3, <2>7, StoreStepKeeps
  <1>7. CASE ~NeedsFallback(a)
    <2>1. Resolve(p, a, key, asked)
      BY Zenon, <1>2, <1>7 DEF LoadApproval
    <2> HIDE DEF key
    <2>2. Moved(p)
      BY Zenon, <1>2, <1>4, <1>5, <2>1, ResolveMoves
    <2> QED BY <1>1, <1>2, <1>3, <2>2, StoreStepKeeps
  <1> QED BY Zenon, <1>6, <1>7

(* The switch to the durable path before a decision (SwitchToDurableFallback) *)
LEMMA FallbackGood ==
  ASSUME TypeOK, ReviewInv, NEW p \in Procs, Fallback(p)
  PROVE  Good
  <1> DEFINE a == proc[p].a
             req == proc[p].req
  <1>1. st \in Stores /\ StoreInv(st) /\ proc[p] \in Locals /\ Knows(proc[p], st, t) /\ faults' \in Nat
    BY Zenon DEF TypeOK, ReviewInv, ProcInv, Fallback
  <1>2. a \in Approvals /\ st.app[a] # None /\ req \in DecisionRequests /\ proc[p].epoch \in Nat
    BY ZenonT(60), <1>1 DEF Knows, Locals, Fallback
  <1>3. req.key \in DecisionKeys /\ req.asked \in Asked \cup {"approve"}
    BY Zenon, <1>2 DEF DecisionRequests
  <1>4. Keeps(st, st')
    BY ZenonT(60), <1>1, <1>2, SwitchKept DEF Fallback
  <1>5. Leave(p) \/ Resolve(p, a, req.key, req.asked)
    BY Zenon DEF Fallback
  <1>6. UNCHANGED <<t, ledger, inputs, mapping, plan>>
    BY Zenon DEF Fallback
  <1>7. StoreForward(st, st')
    BY Zenon, <1>4 DEF Keeps
  <1> HIDE DEF a, req
  <1>8. Moved(p)
    BY Zenon, <1>2, <1>3, <1>5, <1>6, <1>7, LeaveMoves, ResolveMoves
  <1> QED BY Zenon, <1>1, <1>4, <1>6, <1>8, StoreStepKeeps

(* The continuation of the decision is what the process carries on with. *)
LEMMA RoutedIs ==
  ASSUME TypeOK, ReviewInv, NEW p \in Procs, proc[p].a \in Approvals, NEW c \in ContinuationRows,
         NEW pc \in {"cleanup", "resume", "claim"}, StoreForward(st, st'), st'.cont[proc[p].a] # None,
         proc' = [proc EXCEPT ![p] = Routed(p, c, pc)]
  PROVE  Moved(p)
  <1> DEFINE row == DecisionRow(proc[p].a, c)
             read == [exec |-> c.exec, epoch |-> c.epoch]
             l == [proc[p] EXCEPT !.pc = pc, !.req = None, !.row = row, !.read = read]
  <1>1. /\ proc[p] \in Locals /\ proc[p].todo \subseteq Reviewable
        /\ proc[p].todo # {} => proc[p].batch \in BatchKeys
        /\ \A x \in proc[p].todo \cap Approvals : st'.app[x] # None
    BY Zenon, QueueKept
  <1>2. c.exec \in {"runner", "deterministic"} /\ c.epoch \in Nat
    BY Zenon DEF ContinuationRows
  <1>3. row \in RowIds /\ read \in Reads
    BY Zenon, <1>2 DEF RowIds, Reads, DecisionRow
  <1>4. proc' = [proc EXCEPT ![p] = l] /\ proc \in [Procs -> Locals]
    BY Zenon DEF Routed, TypeOK
  <1> HIDE DEF row, read
  <1>5. /\ l \in Locals /\ l.pc = pc /\ l.a = proc[p].a /\ l.read = read
        /\ l.todo = proc[p].todo /\ l.batch = proc[p].batch
    BY ZenonT(60), <1>1, <1>3 DEF Locals, Pcs
  <1> HIDE DEF l
  <1>6. proc[p].a # None
    BY Zenon, ApprovalAssumption
  <1>7. Knows(l, st', t')
    BY ZenonT(60), <1>1, <1>3, <1>5, <1>6 DEF Knows, Carrying
  <1> QED BY Zenon, <1>4, <1>5, <1>7 DEF Moved

(* Decide links the outcome of the approval to its target. *)
LEMMA DecisionLinked ==
  ASSUME TypeOK, ReviewInv, NEW p \in Procs, proc[p].pc = "decide", st' = DecidePostgres(st, proc[p].a, proc[p].req), t' = t
  PROVE  LET a == proc[p].a
         IN  /\ a \in Approvals /\ st' \in Stores /\ StoreInv(st') /\ StoreForward(st, st') /\ LinkInv(st', t')
             /\ DecideOutcome(st, a, proc[p].req) \notin {"conflict", "refused"} => st'.cont[a] # None
  <1> DEFINE a == proc[p].a
             req == proc[p].req
             outcome == DecideOutcome(st, a, req)
  <1>1. /\ st \in Stores /\ StoreInv(st) /\ t \in Targets /\ TargetInv(t) /\ LinkInv(st, t)
        /\ proc[p] \in Locals /\ Knows(proc[p], st, t)
    BY Zenon DEF TypeOK, ReviewInv, ProcInv
  <1>2. a \in Approvals /\ st.app[a] # None /\ req \in DecisionRequests
    BY ZenonT(60), <1>1 DEF Knows, Locals
  <1>3. ~req.seen /\ a[1] # "export" => ~Matches(t, a)
    BY ZenonT(60), <1>1 DEF Knows
  <1>4. st' = DecidePostgres(st, a, req)
    BY Zenon
  <1> HIDE DEF a, req
  <1>5. /\ st' \in Stores /\ StoreInv(st') /\ StoreForward(st, st')
        /\ \A x \in Approvals : x # a => SameOutcome(st, st', x)
        /\ outcome = "decided" => /\ st.app[a].status = "pending" /\ st'.app[a] # None
                                  /\ st'.app[a].status = Effective(req) /\ ~Applied(st', a)
        /\ outcome # "decided" => st' = st
        /\ outcome \notin {"conflict", "refused"} => st'.cont[a] # None
    BY ZenonT(60), <1>1, <1>2, <1>4, DecisionMade
  <1> HIDE DEF outcome
  <1>6. Moves(t, t, {})
    BY Zenon, <1>1, NoMove
  <1>7. ASSUME NEW x \in Approvals, x # a PROVE Link(st', t, x)
    <2>1. Link(st, t, x) /\ SameOutcome(st, st', x) /\ Forward(t, t) /\ NothingNew(t, t, x)
      BY ZenonT(60), <1>1, <1>5, <1>6, <1>7 DEF LinkInv, Moves
    <2> QED BY Zenon, <1>1, <2>1, LinkKept
  <1>8. Link(st', t, a)
    <2>1. Link(st, t, a)
      BY Zenon, <1>1, <1>2 DEF LinkInv
    <2>2. CASE outcome # "decided"
      BY ZenonT(60), <1>5, <2>1, <2>2
    <2>3. CASE outcome = "decided"
      <3>1. st'.app[a].status = "stale" => ~req.seen
        BY ZenonT(60), <1>5, <2>3 DEF Effective
      <3>2. ~InEffect(t, a)
        BY ZenonT(60), <1>5, <2>1, <2>3 DEF Link
      <3> QED BY ZenonT(60), <1>2, <1>3, <1>5, <2>1, <2>3, <3>1, <3>2 DEF Link
    <2> QED BY Zenon, <2>2, <2>3
  <1>9. LinkInv(st', t')
    BY Zenon, <1>7, <1>8 DEF LinkInv
  <1> QED BY ZenonT(60), <1>2, <1>5, <1>9 DEF a, req, outcome

(* Decide, and where the handler goes from there *)
LEMMA RecordDecisionGood ==
  ASSUME TypeOK, ReviewInv, NEW p \in Procs, RecordDecision(p)
  PROVE  Good
  <1> DEFINE a == proc[p].a
             c == st'.cont[a]
             pc == IF st'.app[a].status = "stale" THEN "cleanup" ELSE RoutePc(c)
             outcome == DecideOutcome(st, a, proc[p].req)
  <1>1. /\ proc[p].pc = "decide" /\ st' = DecidePostgres(st, a, proc[p].req)
        /\ UNCHANGED <<t, ledger, inputs, mapping, plan, faults>>
        /\ \/ Leave(p)
           \/ /\ outcome \notin {"conflict", "refused"}
              /\ proc' = [proc EXCEPT ![p] = Routed(p, c, pc)]
    BY ZenonT(60) DEF RecordDecision
  <1>2. /\ a \in Approvals /\ st' \in Stores /\ StoreInv(st') /\ StoreForward(st, st') /\ LinkInv(st', t')
        /\ outcome \notin {"conflict", "refused"} => st'.cont[a] # None
    BY ZenonT(60), <1>1, DecisionLinked
  <1>3. Moved(p)
    <2>1. CASE Leave(p)
      BY Zenon, <1>2, <2>1, LeaveMoves
    <2>2. CASE ~Leave(p)
      <3>1. c \in ContinuationRows /\ c # None
        <4>1. c # None
          BY Zenon, <1>1, <1>2, <2>2
        <4>2. st'.cont[a] \in ContinuationRows \cup {None}
          <5> HIDE DEF a
          <5> QED BY Zenon, <1>2, StoreParts
        <4> QED BY Zenon, <4>1, <4>2
      <3>2. pc \in {"cleanup", "resume", "claim"}
        BY Zenon DEF RoutePc
      <3>3. proc' = [proc EXCEPT ![p] = Routed(p, c, pc)]
        BY ZenonT(60), <1>1, <2>2
      <3> HIDE DEF pc, outcome
      <3> QED BY ZenonT(60), <1>2, <3>1, <3>2, <3>3, RoutedIs
    <2> QED BY Zenon, <2>1, <2>2
  <1> HIDE DEF a, c, pc, outcome
  <1>4. /\ t' \in Targets /\ TargetInv(t') /\ faults' \in Nat
        /\ ledger' \in [Approvals -> SUBSET {"command", "noop"}]
        /\ inputs' \subseteq {"resume", "result"} \X Approvals
        /\ mapping' \in [Approvals -> {"none", "pending", "resuming", "resumed"}]
        /\ plan' \in [Requests -> PlanLocals] /\ \A q \in Requests : plan'[q] = plan[q]
    BY Zenon, <1>1 DEF TypeOK, ReviewInv
  <1>5. LedgerStep
    BY ZenonT(60), <1>1 DEF LedgerStep
  <1>6. Forward(t, t')
    BY Zenon, <1>1, <1>4, NoMove DEF Moves
  <1>7. proc' \in [Procs -> Locals] /\ \A x \in Procs : proc'[x] = proc[x] \/ Knows(proc'[x], st', t')
    BY Zenon, <1>3 DEF Moved
  <1> QED BY ZenonT(60), <1>2, <1>4, <1>5, <1>6, <1>7, StepKeeps

(* The resume of an interrupted run is queued. *)
LEMMA EnqueueResumeGood ==
  ASSUME TypeOK, ReviewInv, NEW p \in Procs, EnqueueResume(p)
  PROVE  Good
  <1> DEFINE a == proc[p].a
  <1>1. /\ proc[p].pc = "resume" /\ inputs' = inputs \cup {<<"resume", a>>} /\ PublishRow(p)
        /\ UNCHANGED <<t, ledger, mapping, plan>>
    BY Zenon DEF EnqueueResume
  <1>2. a \in Approvals /\ st.cont[a] # None
    BY Zenon, <1>1, CarryIs DEF Carrying
  <1>3. Keeps(st, st') /\ Moved(p) /\ faults' \in Nat
    BY Zenon, <1>1, PublishIs
  <1>4. Moves(t, t', {})
    BY Zenon, <1>1, NoMove DEF TypeOK, ReviewInv
  <1> HIDE DEF a
  <1>5. LedgerStep
    <2>1. st'.cont[a] # None
      BY Zenon, <1>2, <1>3 DEF Keeps, StoreForward
    <2> QED BY Zenon, <1>1, <2>1 DEF LedgerStep
  <1>6. /\ ledger' \in [Approvals -> SUBSET {"command", "noop"}]
        /\ inputs' \subseteq {"resume", "result"} \X Approvals
        /\ mapping' \in [Approvals -> {"none", "pending", "resuming", "resumed"}]
    BY <1>1, <1>2 DEF TypeOK
  <1> QED BY Zenon, <1>1, <1>3, <1>4, <1>5, <1>6, ProcessKeeps

-----------------------------------------------------------------------------
(* Apply *)

(* ApplyContinuation: the first owner that still holds its claim records    *)
(* the outcome, the others find it recorded.                               *)
LEMMA RecordGood ==
  ASSUME TypeOK, ReviewInv, NEW p \in Procs, Record(p)
  PROVE  Good
  <1> DEFINE a == proc[p].a
             c == st.cont[a]
             next == Conts!ApplyContinuationPostgres(c, proc[p].read, p)
             v == proc[p].verdict
  <1>1. /\ proc[p].pc = "record" /\ UNCHANGED <<t, inputs, mapping, plan, faults>>
        /\ ledger' = [ledger EXCEPT ![a] = IF next # c /\ v # "empty" THEN @ \cup {v} ELSE @]
        /\ IF next.status = "applied" THEN Goto(p, "finish") /\ st' = [st EXCEPT !.cont[a] = next]
           ELSE LeaveWithError(p, st)
    BY Zenon DEF Record
  <1>2. /\ a \in Approvals /\ a # None /\ st.cont[a] # None /\ proc[p].read \in Reads
        /\ st.app[a] # None /\ st.app[a].status \in Statuses
    BY ZenonT(60), <1>1, CarryIs DEF Carrying
  <1>3. /\ v \in {"command", "noop", "empty"} /\ Closed(t, a)
        /\ v = "command" => Traced(t, a, st.app[a].status)
    BY Zenon, <1>1 DEF ReviewInv, ProcInv, Knows
  <1>4. /\ st \in Stores /\ StoreInv(st) /\ t \in Targets /\ TargetInv(t) /\ LinkInv(st, t) /\ LedgerInv
        /\ faults' \in Nat /\ ledger \in [Approvals -> SUBSET {"command", "noop"}]
    BY Zenon, <1>1 DEF TypeOK, ReviewInv
  <1> HIDE DEF a
  <1>5. LET r == [st EXCEPT !.cont[a] = next]
        IN  /\ r \in Stores /\ StoreInv(r) /\ StoreForward(st, r)
            /\ \A x \in Approvals : x # a => SameOutcome(st, r, x)
            /\ r.app = st.app /\ (next.status = "applied" => Applied(r, a))
            /\ Applied(st, a) => next = c
            /\ next # c => next.status = "applied"
    BY <1>2, <1>4, ApplyKept
  <1> HIDE DEF c, next, v
  <1>6. CASE next.status # "applied"
    <2>1. ledger' = ledger
      BY Zenon, <1>1, <1>4, <1>5, <1>6
    <2>2. Keeps(st, st)
      BY Zenon, <1>4, KeepsSame
    <2>3. LeaveWithError(p, st)
      BY Zenon, <1>1, <1>6
    <2> QED BY Zenon, <1>1, <1>4, <2>1, <2>2, <2>3, ErrorKeeps
  <1>7. CASE next.status = "applied"
    <2>1. Goto(p, "finish") /\ st' = [st EXCEPT !.cont[a] = next]
      BY Zenon, <1>1, <1>7
    <2>2. /\ st' \in Stores /\ StoreInv(st') /\ StoreForward(st, st') /\ st'.app = st.app /\ Applied(st', a)
          /\ \A x \in Approvals : x # a => SameOutcome(st, st', x)
      BY Zenon, <1>5, <1>7, <2>1
    <2>3. Moves(t, t', {}) /\ t' = t
      BY Zenon, <1>1, <1>4, NoMove
    <2>4. LinkInv(st', t')
      <3>1. ASSUME NEW x \in Approvals, x # a PROVE Link(st', t', x)
        <4>1. Link(st, t, x) /\ SameOutcome(st, st', x) /\ Forward(t, t') /\ NothingNew(t, t', x)
          BY Zenon, <1>4, <2>2, <2>3, <3>1 DEF LinkInv, Moves
        <4> QED BY Zenon, <1>4, <4>1, LinkKept
      <3>2. Link(st', t', a)
        <4>1. Link(st, t, a)
          BY Zenon, <1>2, <1>4 DEF LinkInv
        <4> QED BY ZenonT(60), <1>3, <2>2, <2>3, <4>1 DEF Link
      <3> QED BY Zenon, <3>1, <3>2 DEF LinkInv
    <2>5. ledger' \in [Approvals -> SUBSET {"command", "noop"}]
      BY ZenonT(60), <1>1, <1>3, <1>4
    <2>6. LedgerStep
      <3>1. ASSUME NEW x \in Approvals
            PROVE  \/ ledger'[x] = ledger[x]
                   \/ /\ AtMostOne(ledger'[x]) /\ Applied(st', x)
                      /\ "command" \in ledger'[x] => Traced(t', x, st'.app[x].status)
        <4>1. CASE x # a \/ next = c \/ v = "empty"
          BY Zenon, <1>1, <1>2, <1>4, <4>1
        <4>2. CASE x = a /\ next # c /\ v # "empty"
          <5>1. ledger[a] = {}
            BY ZenonT(60), <1>2, <1>4, <1>5, <4>2 DEF LedgerInv
          <5>2. ledger'[a] = {v}
            BY <1>1, <1>2, <1>4, <4>2, <5>1
          <5>3. AtMostOne(ledger'[a])
            BY Zenon, <5>2 DEF AtMostOne
          <5>4. "command" \in ledger'[a] => Traced(t', a, st'.app[a].status)
            BY Zenon, <1>3, <2>2, <2>3, <5>2
          <5> QED BY Zenon, <2>2, <4>2, <5>3, <5>4
        <4> QED BY ZenonT(60), <4>1, <4>2
      <3> QED BY Zenon, <1>1, <3>1 DEF LedgerStep
    <2>7. /\ proc' \in [Procs -> Locals] /\ \A x \in Procs \ {p} : proc'[x] = proc[x]
          /\ proc'[p].pc = "finish" /\ proc'[p].a = a /\ proc'[p].read = proc[p].read
          /\ proc'[p].batch = proc[p].batch /\ proc'[p].todo = proc[p].todo
      BY Zenon, <2>1, GotoIs DEF Pcs, a
    <2>8. /\ proc[p].todo # {} => proc[p].batch \in BatchKeys
          /\ \A x \in proc[p].todo \cap Approvals : st'.app[x] # None
      BY Zenon, <2>2, QueueKept
    <2>9. Knows(proc'[p], st', t')
      BY ZenonT(60), <1>2, <2>2, <2>7, <2>8 DEF Knows, Carrying, Applied
    <2>10. \A x \in Procs : proc'[x] = proc[x] \/ Knows(proc'[x], st', t')
      BY ZenonT(60), <2>7, <2>9
    <2>11. /\ inputs' \subseteq {"resume", "result"} \X Approvals
           /\ mapping' \in [Approvals -> {"none", "pending", "resuming", "resumed"}]
           /\ plan' \in [Requests -> PlanLocals] /\ \A q \in Requests : plan'[q] = plan[q]
           /\ t' \in Targets /\ TargetInv(t') /\ Forward(t, t')
      BY Zenon, <1>1, <2>3 DEF TypeOK, Moves
    <2> QED BY ZenonT(60), <1>4, <2>2, <2>4, <2>5, <2>6, <2>7, <2>10, <2>11, StepKeeps
  <1> QED BY Zenon, <1>6, <1>7

(* The result is told to the agent and the row published. *)
LEMMA FinishGood ==
  ASSUME TypeOK, ReviewInv, NEW p \in Procs, Finish(p)
  PROVE  Good
  <1> DEFINE a == proc[p].a
  <1>1. /\ proc[p].pc = "finish" /\ UNCHANGED <<t, ledger, mapping, plan>>
        /\ \/ LeaveWithError(p, st) /\ UNCHANGED <<inputs, faults>>
           \/ /\ inputs' = inputs \/ inputs' = inputs \cup {<<"result", a>>}
              /\ PublishRow(p) \/ (Goto(p, "complete") /\ UNCHANGED <<st, faults>>)
    BY Zenon DEF Finish
  <1>2. /\ a \in Approvals /\ a # None /\ st.cont[a] # None /\ proc[p].read \in Reads
    BY Zenon, <1>1, CarryIs DEF Carrying
  <1>3. Applied(st, a)
    BY ZenonT(60), <1>1 DEF ReviewInv, ProcInv, Knows
  <1>4. st \in Stores /\ StoreInv(st) /\ t \in Targets /\ TargetInv(t) /\ faults \in Nat
    BY Zenon DEF TypeOK, ReviewInv
  <1>5. Keeps(st, st)
    BY Zenon, <1>4, KeepsSame
  <1> HIDE DEF a
  <1>6. CASE LeaveWithError(p, st) /\ UNCHANGED <<inputs, faults>>
    BY Zenon, <1>1, <1>4, <1>5, <1>6, ErrorKeeps
  <1>7. CASE ~(LeaveWithError(p, st) /\ UNCHANGED <<inputs, faults>>)
    <2>1. inputs' = inputs \/ inputs' = inputs \cup {<<"result", a>>}
      BY Zenon, <1>1, <1>7
    <2>2. Keeps(st, st') /\ Moved(p) /\ faults' \in Nat
      <3>1. CASE PublishRow(p)
        BY Zenon, <3>1, PublishIs
      <3>2. CASE Goto(p, "complete") /\ UNCHANGED <<st, faults>>
        <4>1. /\ proc' \in [Procs -> Locals] /\ \A x \in Procs \ {p} : proc'[x] = proc[x]
              /\ proc'[p].pc = "complete" /\ proc'[p].a = a /\ proc'[p].read = proc[p].read
              /\ proc'[p].batch = proc[p].batch /\ proc'[p].todo = proc[p].todo
          BY Zenon, <3>2, GotoIs DEF Pcs, a
        <4>2. /\ proc[p].todo # {} => proc[p].batch \in BatchKeys
              /\ \A x \in proc[p].todo \cap Approvals : st'.app[x] # None
          BY ZenonT(60), <1>5, <3>2, QueueKept DEF Keeps
        <4>3. Knows(proc'[p], st', t')
          BY ZenonT(60), <1>2, <1>3, <3>2, <4>1, <4>2 DEF Knows, Carrying
        <4> QED BY Zenon, <1>4, <1>5, <3>2, <4>1, <4>3 DEF Moved
      <3> QED BY Zenon, <1>1, <1>7, <3>1, <3>2
    <2>3. Moves(t, t', {})
      BY Zenon, <1>1, <1>4, NoMove
    <2>4. Applied(st', a)
      BY ZenonT(60), <1>2, <1>3, <2>2 DEF Keeps, StoreForward
    <2>5. LedgerStep
      <3>1. ledger' = ledger /\ mapping' = mapping
        BY Zenon, <1>1
      <3>2. \A x \in Approvals : /\ <<"result", x>> \in inputs' => <<"result", x>> \in inputs \/ x = a
                                 /\ <<"resume", x>> \in inputs' => <<"resume", x>> \in inputs
        BY <2>1
      <3>3. \A x \in Approvals : <<"result", x>> \in inputs' => <<"result", x>> \in inputs \/ Applied(st', x)
        BY Zenon, <2>4, <3>2
      <3> QED BY Zenon, <3>1, <3>2, <3>3 DEF LedgerStep
    <2>6. /\ ledger' \in [Approvals -> SUBSET {"command", "noop"}]
          /\ inputs' \subseteq {"resume", "result"} \X Approvals
          /\ mapping' \in [Approvals -> {"none", "pending", "resuming", "resumed"}]
      <3>1. ledger' = ledger /\ mapping' = mapping
        BY <1>1
      <3>2. <<"result", a>> \in {"resume", "result"} \X Approvals
        BY Zenon, <1>2
      <3>3. inputs \subseteq {"resume", "result"} \X Approvals
        BY Zenon DEF TypeOK
      <3>4. inputs' \subseteq {"resume", "result"} \X Approvals
        BY Zenon, <2>1, <3>2, <3>3
      <3> QED BY Zenon, <3>1, <3>4 DEF TypeOK
    <2> QED BY ZenonT(60), <1>1, <2>2, <2>3, <2>5, <2>6, ProcessKeeps
  <1> QED BY Zenon, <1>6, <1>7

-----------------------------------------------------------------------------
(* The relay, the agent, the batch and the faults *)

(* A process takes up a continuation. *)
TakingUp(p, pc, a, row, read) == [proc[p] EXCEPT !.pc = pc, !.a = a, !.row = row, !.read = read]

(* A process that takes up a row has read its continuation. *)
LEMMA TakeUpMoves ==
  ASSUME TypeOK, ReviewInv, NEW p \in Procs, NEW pc \in {"resume", "claim"}, NEW a \in Approvals, st.cont[a] # None,
         NEW row \in RowIds \cup {None}, NEW c, c = st.cont[a],
         proc' = [proc EXCEPT ![p] = TakingUp(p, pc, a, row, [exec |-> c.exec, epoch |-> c.epoch])],
         StoreForward(st, st')
  PROVE  Moved(p)
  <1> DEFINE read == [exec |-> c.exec, epoch |-> c.epoch]
             l == TakingUp(p, pc, a, row, read)
  <1>1. /\ proc[p] \in Locals /\ proc \in [Procs -> Locals]
        /\ proc[p].todo # {} => proc[p].batch \in BatchKeys
        /\ \A x \in proc[p].todo \cap Approvals : st'.app[x] # None
    BY ZenonT(60), QueueKept DEF TypeOK
  <1>2. c \in ContinuationRows
    BY StoreParts DEF TypeOK
  <1>3. read \in Reads
    BY Zenon, <1>2 DEF Reads, ContinuationRows
  <1> HIDE DEF read
  <1>4. /\ l \in Locals /\ l.pc = pc /\ l.a = a /\ l.read = read
        /\ l.todo = proc[p].todo /\ l.batch = proc[p].batch
    BY ZenonT(60), <1>1, <1>3 DEF Locals, Pcs, TakingUp
  <1>5. st'.cont[a] # None /\ a # None
    BY ZenonT(60), ApprovalAssumption DEF StoreForward
  <1>6. proc' = [proc EXCEPT ![p] = l]
    BY Zenon DEF read
  <1> HIDE DEF l
  <1>7. Knows(l, st', t')
    BY ZenonT(60), <1>1, <1>3, <1>4, <1>5 DEF Knows, Carrying
  <1> QED BY ZenonT(60), <1>1, <1>4, <1>6, <1>7 DEF Moved

(* The relay takes up an outbox row. *)
LEMMA RelayGood ==
  ASSUME TypeOK, ReviewInv, NEW p \in Procs, NEW r \in DOMAIN st.box, RelayRow(p, r)
  PROVE  Good
  <1>1. st \in Stores /\ StoreInv(st) /\ proc \in [Procs -> Locals] /\ proc[p] \in Locals
    BY Zenon DEF TypeOK, ReviewInv
  <1>2. r \in RowIds /\ r.app \in Approvals /\ (r.type # "fallback" => st.cont[r.app] # None)
    BY <1>1, StoreParts, BoxParts DEF StoreInv, RowIds
  <1>3. UNCHANGED <<t, ledger, inputs, mapping, plan, faults>> /\ faults' \in Nat
    BY Zenon DEF RelayRow, TypeOK
  <1>4. CASE r.type = "fallback"
    <2>1. st' = MarkOutboxPublishedPostgres(st, r) /\ UNCHANGED proc
      BY Zenon, <1>4 DEF RelayRow
    <2>2. Keeps(st, st')
      BY Zenon, <1>1, <2>1, RowPublished
    <2>3. mapping' \in [Approvals -> {"none", "pending", "resuming", "resumed"}]
      BY Zenon, <1>3 DEF TypeOK
    <2> QED BY Zenon, <1>3, <2>1, <2>2, <2>3, RowStepKeeps
  <1>5. CASE r.type # "fallback"
    <2> DEFINE c == st.cont[r.app]
               a == r.app
               pc == IF r.type = "resume" THEN "resume" ELSE "claim"
               read == [exec |-> c.exec, epoch |-> c.epoch]
    <2>1. st' = st /\ proc' = [proc EXCEPT ![p].a = a, ![p].row = r, ![p].read = read, ![p].pc = pc]
      BY Zenon, <1>5 DEF RelayRow
    <2>2. proc' = [proc EXCEPT ![p] = TakingUp(p, pc, a, r, read)]
      <3> HIDE DEF c, a, pc, read
      <3> QED BY ZenonT(60), <1>1, <2>1 DEF TakingUp, Locals
    <2>3. Keeps(st, st')
      BY Zenon, <1>1, <2>1, KeepsSame
    <2>4. a \in Approvals /\ c # None /\ pc \in {"resume", "claim"}
      BY Zenon, <1>2, <1>5
    <2> HIDE DEF pc, a
    <2>5. Moved(p)
      BY ZenonT(60), <1>2, <2>2, <2>3, <2>4, TakeUpMoves DEF Keeps, a
    <2> QED BY Zenon, <1>3, <2>3, <2>5, StoreStepKeeps
  <1> QED BY Zenon, <1>4, <1>5

(* The agent resumes the interrupted run. *)
LEMMA ResumeGood ==
  ASSUME TypeOK, ReviewInv, NEW p \in Procs, NEW a \in Approvals, ResumeApproval(p, a)
  PROVE  Good
  <1> DEFINE c == st.cont[a]
             read == [exec |-> c.exec, epoch |-> c.epoch]
  <1>1. /\ proc' = [proc EXCEPT ![p].pc = "claim", ![p].a = a, ![p].read = read]
        /\ mapping' = [mapping EXCEPT ![a] = "resuming"] /\ <<"resume", a>> \in inputs
        /\ UNCHANGED <<st, t, ledger, inputs, plan, faults>>
    BY Zenon DEF ResumeApproval
  <1>2. st \in Stores /\ StoreInv(st) /\ t \in Targets /\ TargetInv(t) /\ proc \in [Procs -> Locals] /\ proc[p] \in Locals
    BY Zenon DEF TypeOK, ReviewInv
  <1>3. st.cont[a] # None
    BY Zenon, <1>1 DEF ReviewInv, LedgerInv
  <1>4. proc' = [proc EXCEPT ![p] = TakingUp(p, "claim", a, proc[p].row, read)] /\ proc[p].row \in RowIds \cup {None}
    <2> HIDE DEF read
    <2> QED BY ZenonT(60), <1>1, <1>2 DEF TakingUp, Locals
  <1>5. Keeps(st, st') /\ Moves(t, t', {})
    BY Zenon, <1>1, <1>2, KeepsSame, NoMove
  <1>6. Moved(p)
    BY ZenonT(60), <1>3, <1>4, <1>5, TakeUpMoves DEF Keeps
  <1> HIDE DEF c, read
  <1>7. LedgerStep
    <2>1. \A x \in Approvals : mapping'[x] = "resumed" => mapping[x] = "resumed"
      BY Zenon, <1>1 DEF TypeOK
    <2> QED BY Zenon, <1>1, <2>1 DEF LedgerStep
  <1>8. /\ faults' \in Nat
        /\ ledger' \in [Approvals -> SUBSET {"command", "noop"}]
        /\ inputs' \subseteq {"resume", "result"} \X Approvals
        /\ mapping' \in [Approvals -> {"none", "pending", "resuming", "resumed"}]
    BY Zenon, <1>1 DEF TypeOK
  <1> QED BY Zenon, <1>1, <1>5, <1>6, <1>7, <1>8, ProcessKeeps

(* The resumed run completes. *)
LEMMA CompleteGood ==
  ASSUME TypeOK, ReviewInv, NEW p \in Procs, CompleteResume(p)
  PROVE  Good
  <1> DEFINE a == proc[p].a
  <1>1. /\ proc[p].pc = "complete" /\ Leave(p) /\ mapping' = [mapping EXCEPT ![a] = "resumed"]
        /\ UNCHANGED <<st, t, ledger, inputs, plan, faults>>
    BY Zenon DEF CompleteResume
  <1>2. a \in Approvals /\ st.cont[a] # None
    BY ZenonT(60), <1>1, CarryIs DEF Carrying
  <1>3. Applied(st, a)
    BY ZenonT(60), <1>1 DEF ReviewInv, ProcInv, Knows
  <1>4. st \in Stores /\ StoreInv(st) /\ t \in Targets /\ TargetInv(t)
    BY Zenon DEF TypeOK, ReviewInv
  <1>5. Keeps(st, st') /\ Moves(t, t', {})
    BY ZenonT(60), <1>1, <1>4, KeepsSame, NoMove
  <1>6. Moved(p)
    BY Zenon, <1>1, <1>5, LeaveMoves DEF Keeps
  <1> HIDE DEF a
  <1>7. LedgerStep
    <2>1. \A x \in Approvals : mapping'[x] = "resumed" => mapping[x] = "resumed" \/ x = a
      BY Zenon, <1>1 DEF TypeOK
    <2> QED BY Zenon, <1>1, <1>3, <2>1 DEF LedgerStep
  <1>8. /\ faults' \in Nat
        /\ ledger' \in [Approvals -> SUBSET {"command", "noop"}]
        /\ inputs' \subseteq {"resume", "result"} \X Approvals
        /\ mapping' \in [Approvals -> {"none", "pending", "resuming", "resumed"}]
    BY Zenon, <1>1, <1>2 DEF TypeOK
  <1> QED BY ZenonT(60), <1>1, <1>5, <1>6, <1>7, <1>8, ProcessKeeps

(* A handler takes up a batch. *)
Batching(p, pc, k, T) == [proc[p] EXCEPT !.pc = pc, !.batch = k, !.todo = T]

(* A process that goes on with its batch *)
LEMMA BatchMoves ==
  ASSUME TypeOK, ReviewInv, NEW p \in Procs, NEW pc \in {"batch", "freeze"}, NEW k \in BatchKeys,
         NEW T \in SUBSET Reviewable, \A a \in T \cap Approvals : st'.app[a] # None,
         proc' = [proc EXCEPT ![p] = Batching(p, pc, k, T)]
  PROVE  Moved(p)
  <1> DEFINE l == Batching(p, pc, k, T)
  <1>1. proc[p] \in Locals /\ proc \in [Procs -> Locals]
    BY Zenon DEF TypeOK
  <1>2. l \in Locals /\ l.pc = pc /\ l.batch = k /\ l.todo = T
    BY ZenonT(60), <1>1 DEF Locals, Pcs, Batching
  <1> HIDE DEF l
  <1>3. Knows(l, st', t')
    BY Zenon, <1>2 DEF Knows, Carrying
  <1> QED BY Zenon, <1>1, <1>2, <1>3 DEF Moved, l

(* A batch request finds its candidates, or a batch it froze before. *)
LEMMA LoadBatchGood ==
  ASSUME TypeOK, ReviewInv, NEW p \in Procs, NEW k \in BatchKeys, LoadBatch(p, k)
  PROVE  Good
  <1>1. st \in Stores /\ StoreInv(st) /\ LinkInv(st, t) /\ proc \in [Procs -> Locals] /\ proc[p] \in Locals
    BY Zenon DEF TypeOK, ReviewInv
  <1>2. UNCHANGED <<st, t, ledger, inputs, mapping, plan, faults>> /\ faults' \in Nat
    BY Zenon DEF LoadBatch, TypeOK
  <1>3. Keeps(st, st')
    BY Zenon, <1>1, <1>2, KeepsSame
  <1>4. Moved(p)
    <2>1. CASE st.batch[k] # None
      <3> DEFINE T == st.batch[k]
      <3>1. proc' = [proc EXCEPT ![p].pc = "batch", ![p].batch = k, ![p].todo = T]
        BY Zenon, <2>1 DEF LoadBatch
      <3>2. T \in SUBSET Reviewable /\ \A a \in T \cap Approvals : st'.app[a] # None
        BY Zenon, <1>1, <1>2, <2>1, StoreParts DEF StoreInv
      <3> HIDE DEF T
      <3>3. proc' = [proc EXCEPT ![p] = [proc[p] EXCEPT !.pc = "batch", !.batch = k, !.todo = T]]
        BY ZenonT(60), <1>1, <3>1 DEF Locals
      <3>4. proc' = [proc EXCEPT ![p] = Batching(p, "batch", k, T)]
        BY Zenon, <3>3 DEF Batching
      <3> QED BY ZenonT(60), <3>2, <3>4, BatchMoves
    <2>2. CASE st.batch[k] = None
      <3>1. proc' = [proc EXCEPT ![p].pc = "freeze", ![p].batch = k, ![p].todo = BatchTargets]
        BY Zenon, <2>2 DEF LoadBatch
      <3>2. ASSUME NEW a \in BatchTargets PROVE a \in Reviewable
        <4>1. PICK n \in Candidates : a = <<"cand", n>>
          BY ZenonT(60) DEF BatchTargets, OpenCandidates
        <4> QED BY Zenon, <4>1 DEF Reviewable
      <3>3. ASSUME NEW a \in BatchTargets \cap Approvals PROVE st'.app[a] # None
        <4>1. PICK n \in Candidates : a = <<"cand", n>> /\ t.board.cand[n] = "candidate"
          BY ZenonT(60), <3>3 DEF BatchTargets, OpenCandidates
        <4>2. a[1] = "cand" /\ a[2] = n
          BY Zenon, <4>1
        <4> QED BY Zenon, <1>1, <1>2, <4>1, <4>2 DEF LinkInv, Link
      <3>4. proc' = [proc EXCEPT ![p] = [proc[p] EXCEPT !.pc = "freeze", !.batch = k, !.todo = BatchTargets]]
        BY ZenonT(60), <1>1, <3>1 DEF Locals
      <3>5. proc' = [proc EXCEPT ![p] = Batching(p, "freeze", k, BatchTargets)]
        BY Zenon, <3>4 DEF Batching
      <3> QED BY ZenonT(60), <3>2, <3>3, <3>5, BatchMoves
    <2> QED BY Zenon, <2>1, <2>2
  <1> QED BY Zenon, <1>2, <1>3, <1>4, StoreStepKeeps

(* The candidates of a batch are frozen. *)
LEMMA FreezeGood ==
  ASSUME TypeOK, ReviewInv, NEW p \in Procs, FreezeBatch(p)
  PROVE  Good
  <1> DEFINE k == proc[p].batch
             T == proc[p].todo
             next == CreateCandidateApprovalBatchPostgres(st, k, T)
             S == next.batch[k]
  <1>1. /\ proc[p].pc = "freeze" /\ st' = next /\ proc' = [proc EXCEPT ![p].pc = "batch", ![p].todo = S]
        /\ UNCHANGED <<t, ledger, inputs, mapping, plan, faults>>
    BY Zenon DEF FreezeBatch
  <1>2. /\ st \in Stores /\ StoreInv(st) /\ proc \in [Procs -> Locals] /\ proc[p] \in Locals
        /\ Knows(proc[p], st, t) /\ faults' \in Nat
    BY Zenon, <1>1 DEF TypeOK, ReviewInv, ProcInv
  <1>3. k \in BatchKeys /\ T \in SUBSET Reviewable /\ \A a \in T \cap Approvals : st.app[a] # None
    BY Zenon, <1>1, <1>2 DEF Knows, Locals
  <1> HIDE DEF k, T
  <1>4. Keeps(st, next) /\ next.app = st.app /\ S = IF st.batch[k] = None THEN T ELSE st.batch[k]
    BY ZenonT(60), <1>2, <1>3, BatchKept
  <1> HIDE DEF next, S
  <1>5. S \in SUBSET Reviewable /\ \A a \in S \cap Approvals : st.app[a] # None
    BY <1>2, <1>3, <1>4, StoreParts DEF StoreInv
  <1>6. proc' = [proc EXCEPT ![p] = Batching(p, "batch", k, S)]
    <2>1. proc' = [proc EXCEPT ![p] = [proc[p] EXCEPT !.pc = "batch", !.batch = k, !.todo = S]]
      BY ZenonT(60), <1>1, <1>2 DEF Locals, k
    <2> QED BY Zenon, <2>1 DEF Batching
  <1>7. Moved(p)
    <2>1. \A a \in S \cap Approvals : st'.app[a] # None
      BY Zenon, <1>1, <1>4, <1>5
    <2> QED BY ZenonT(60), <1>3, <1>5, <1>6, <2>1, BatchMoves
  <1> QED BY <1>1, <1>2, <1>4, <1>7, StoreStepKeeps

(* The next candidate of the batch is decided. *)
LEMMA DecideChildGood ==
  ASSUME TypeOK, ReviewInv, NEW p \in Procs, NEW a \in Approvals, DecideChild(p, a)
  PROVE  Good
  <1> DEFINE k == proc[p].batch
             key == <<k, a>>
             T == proc[p].todo \ {a}
             req == [key |-> key, asked |-> "approve", seen |-> Observed(a, key)]
  <1>1. /\ a \in proc[p].todo
        /\ proc' = [proc EXCEPT ![p].pc = "decide", ![p].a = a, ![p].todo = T, ![p].req = req]
        /\ UNCHANGED <<st, t, ledger, inputs, mapping, plan, faults>>
    BY Zenon DEF DecideChild
  <1>2. /\ st \in Stores /\ StoreInv(st) /\ proc \in [Procs -> Locals] /\ proc[p] \in Locals
        /\ Knows(proc[p], st, t) /\ faults' \in Nat
    BY Zenon, <1>1 DEF TypeOK, ReviewInv, ProcInv
  <1>3. k \in BatchKeys /\ st.app[a] # None
    BY Zenon, <1>1, <1>2 DEF Knows
  <1>4. key \in DecisionKeys /\ T \in SUBSET proc[p].todo
    BY Zenon, <1>3 DEF DecisionKeys
  <1>5. Keeps(st, st')
    BY Zenon, <1>1, <1>2, KeepsSame
  <1> HIDE DEF k, key, T
  <1>6. proc' = [proc EXCEPT ![p] = Deciding(p, a, key, "approve", T)]
    <2> HIDE DEF req
    <2>1. proc' = [proc EXCEPT ![p] = [proc[p] EXCEPT !.pc = "decide", !.a = a, !.todo = T, !.req = req]]
      BY ZenonT(60), <1>1, <1>2 DEF Locals
    <2> QED BY Zenon, <2>1 DEF req, Deciding
  <1> HIDE DEF req
  <1>7. Moved(p)
    BY ZenonT(60), <1>1, <1>3, <1>4, <1>5, <1>6, DecidingMoves DEF Keeps
  <1> QED BY Zenon, <1>1, <1>2, <1>5, <1>7, StoreStepKeeps

(* A process crashes or one of its calls fails. *)
LEMMA FaultGood ==
  ASSUME TypeOK, ReviewInv, NEW p \in Procs, Crash(p) \/ CallFails(p) \/ StepFails(p)
  PROVE  Good
  <1>1. UNCHANGED <<t, ledger, inputs, mapping, plan>> /\ faults' \in Nat
    BY DEF TypeOK, Crash, CallFails, StepFails
  <1>2. Keeps(st, st)
    BY Zenon, KeepsSame DEF TypeOK, ReviewInv
  <1>3. CASE Crash(p)
    <2>1. proc' = [proc EXCEPT ![p] = Idle] /\ st' = st /\ proc \in [Procs -> Locals]
      BY Zenon, <1>3 DEF Crash, TypeOK
    <2>2. Moved(p)
      BY Zenon, <2>1, IdleKnows DEF Moved
    <2> QED BY Zenon, <1>1, <1>2, <2>1, <2>2, StoreStepKeeps
  <1>4. CASE CallFails(p)
    BY Zenon, <1>1, <1>2, <1>4, FailKeeps DEF CallFails, Carrying
  <1>5. CASE StepFails(p)
    BY Zenon, <1>1, <1>2, <1>5, ErrorKeeps DEF StepFails
  <1> QED BY Zenon, <1>3, <1>4, <1>5

-----------------------------------------------------------------------------
(* The planners *)

(* Only the planner of q moves, and what it then relies on holds. *)
Replanned(q) ==
  /\ plan' \in [Requests -> PlanLocals]
  /\ \A x \in Requests \ {q} : plan'[x] = plan[x]
  /\ Planner(q, plan'[q], t')

(* A step of a planner, on the targets or on the approval it asks for *)
LEMMA PlannerKeeps ==
  ASSUME TypeOK, ReviewInv, NEW q \in Requests, Replanned(q),
         st' \in Stores, StoreInv(st'), StoreForward(st, st'), Moves(t, t', {}), LinkInv(st', t'),
         UNCHANGED <<ledger, inputs, mapping, proc>>, faults' \in Nat
  PROVE  Good
  <1>1. /\ ledger' \in [Approvals -> SUBSET {"command", "noop"}]
        /\ inputs' \subseteq {"resume", "result"} \X Approvals
        /\ mapping' \in [Approvals -> {"none", "pending", "resuming", "resumed"}]
        /\ proc' \in [Procs -> Locals]
    BY Zenon DEF TypeOK
  <1>2. LedgerStep
    BY Zenon DEF LedgerStep
  <1>3. t' \in Targets /\ TargetInv(t') /\ Forward(t, t')
    BY Zenon DEF Moves
  <1>4. plan' \in [Requests -> PlanLocals] /\ \A x \in Requests : plan'[x] = plan[x] \/ Planner(x, plan'[x], t')
    BY Zenon DEF Replanned
  <1> QED BY Zenon, <1>1, <1>2, <1>3, <1>4, StepKeeps

(* A step of a planner that leaves the stores of the approvals *)
LEMMA PlannerMoves ==
  ASSUME TypeOK, ReviewInv, NEW q \in Requests, Replanned(q), Moves(t, t', {}),
         UNCHANGED <<st, ledger, inputs, mapping, proc>>, faults' \in Nat
  PROVE  Good
  <1>1. st \in Stores /\ StoreInv(st) /\ LinkInv(st, t)
    BY Zenon DEF TypeOK, ReviewInv
  <1>2. Keeps(st, st')
    BY Zenon, <1>1, KeepsSame
  <1>3. LinkInv(st', t')
    BY Zenon, <1>1, <1>2, AllLinked
  <1> QED BY Zenon, <1>2, <1>3, PlannerKeeps DEF Keeps

(* An idle planner relies on nothing. *)
LEMMA PlanIdle ==
  ASSUME NEW q, NEW u
  PROVE  NoPlan \in PlanLocals /\ Planner(q, NoPlan, u)
  BY Zenon DEF NoPlan, PlanLocals, Planner

(* An approval is created for a target that exists and is not in effect. *)
LEMMA CreatedLinked ==
  ASSUME NEW s \in Stores, StoreInv(s), NEW u, NEW w, LinkInv(s, u), NEW a \in Approvals, NEW S \in SUBSET {a},
         Moves(u, w, S), Exists(w, a), InEffect(w, a) => InEffect(u, a),
         \A status \in Statuses : CommandKey(a, status) \in w.board.applied => CommandKey(a, status) \in u.board.applied,
         NEW mode \in {"durable", "interrupt"}
  PROVE  LinkInv(CreatePostgres(s, a, mode), w)
  <1> DEFINE r == CreatePostgres(s, a, mode)
  <1>1. /\ r \in Stores /\ StoreInv(r) /\ StoreForward(s, r)
        /\ \A x \in Approvals : x # a => SameOutcome(s, r, x)
        /\ Applied(r, a) => Applied(s, a)
        /\ \/ s.app[a] # None /\ r = s
           \/ s.app[a] = None /\ r.app[a] = None
           \/ s.app[a] = None /\ r.app[a] # None /\ r.app[a].status = "pending"
        /\ ~Primary(a) => r.app[a] # None
    BY ZenonT(60), ApprovalCreated
  <1> HIDE DEF r
  <1>2. Forward(u, w) /\ \A x \in Approvals \ S : NothingNew(u, w, x)
    BY ZenonT(60) DEF Moves
  <1>3. ASSUME NEW x \in Approvals, x # a PROVE Link(r, w, x)
    <2>1. Link(s, u, x) /\ SameOutcome(s, r, x) /\ NothingNew(u, w, x)
      BY ZenonT(60), <1>1, <1>2, <1>3 DEF LinkInv
    <2> QED BY ZenonT(60), <1>2, <2>1, LinkKept
  <1>4. Link(s, u, a)
    BY ZenonT(60) DEF LinkInv
  <1>5. s.app[a] # None => Exists(u, a)
    BY ZenonT(60), <1>4 DEF Link
  <1>6. s.app[a] # None => /\ Closed(u, a) => Closed(w, a)
                           /\ a[1] # "export" /\ ~Matches(u, a) => ~Matches(w, a)
    BY ZenonT(60), <1>2, <1>5, ForwardAt
  <1>7. a[1] = "cand" => r.app[a] # None
    BY Zenon, <1>1 DEF Primary
  <1>8. InEffect(w, a) => r.app[a] # None /\ r.app[a].status = "approved"
    BY ZenonT(60), <1>1, <1>4 DEF Link
  <1>9. ASSUME r.app[a] # None, r.app[a].status = "stale", a[1] # "export"
        PROVE  ~Matches(w, a)
    <2>1. s.app[a] # None /\ r = s
      BY ZenonT(60), <1>1, <1>9
    <2> QED BY ZenonT(60), <1>4, <1>6, <1>9, <2>1 DEF Link
  <1>10. Applied(r, a) => Closed(w, a)
    <2>1. Applied(s, a) => s.app[a] # None
      BY ZenonT(60), DecidedStatus DEF Applied
    <2> QED BY ZenonT(60), <1>1, <1>4, <1>6, <2>1 DEF Link
  <1>11. ASSUME NEW status \in Statuses, a[1] \in {"plan", "cand"}, CommandKey(a, status) \in w.board.applied
         PROVE  r.app[a] # None /\ Closed(w, a)
    <2>1. s.app[a] # None /\ Closed(u, a)
      BY ZenonT(60), <1>4, <1>11 DEF Link, Statuses
    <2> QED BY ZenonT(60), <1>1, <1>6, <2>1
  <1>12. Link(r, w, a)
    BY ZenonT(60), <1>7, <1>8, <1>9, <1>10, <1>11 DEF Link, Statuses
  <1> QED BY Zenon, <1>3, <1>12 DEF LinkInv, r

(* The review of what was saved is asked for. *)
LEMMA CreateApprovalGood ==
  ASSUME TypeOK, ReviewInv, NEW q \in Requests, NEW a, CreateApproval(q, a), a \in Approvals => Exists(t, a)
  PROVE  Good
  <1>1. /\ st' = CreatePostgres(st, a, "durable") /\ plan' = [plan EXCEPT ![q] = NoPlan]
        /\ UNCHANGED <<t, ledger, inputs, mapping, proc, faults>>
    BY Zenon DEF CreateApproval
  <1>2. st \in Stores /\ StoreInv(st) /\ LinkInv(st, t) /\ t \in Targets /\ TargetInv(t) /\ faults' \in Nat
    BY Zenon, <1>1, Given DEF ReviewInv
  <1>3. Replanned(q)
    BY Zenon, <1>1, Given, PlanIdle DEF Replanned
  <1>4. Moves(t, t, {})
    BY Zenon, <1>2, NoMove
  <1>5. st' \in Stores /\ StoreInv(st') /\ StoreForward(st, st') /\ LinkInv(st', t)
    <2>1. CASE a \in Approvals
      <3>1. LinkInv(CreatePostgres(st, a, "durable"), t)
        BY ZenonT(60), <1>2, <1>4, <2>1, CreatedLinked
      <3>2. LET r == CreatePostgres(st, a, "durable") IN r \in Stores /\ StoreInv(r) /\ StoreForward(st, r)
        BY ZenonT(60), <1>2, <2>1, ApprovalCreated
      <3> QED BY Zenon, <1>1, <3>1, <3>2
    <2>2. CASE a \notin Approvals
      <3>1. st' = st
        BY Zenon, <1>1, <1>2, <2>2, NothingCreated
      <3>2. StoreForward(st, st)
        BY Zenon, <1>2, KeepsSame DEF Keeps
      <3> QED BY Zenon, <1>2, <3>1, <3>2
    <2> QED BY Zenon, <2>1, <2>2
  <1> QED BY <1>1, <1>2, <1>3, <1>4, <1>5, PlannerKeeps

(* The planner ends with its result. *)
LEMMA ResultGood ==
  ASSUME TypeOK, ReviewInv, NEW q \in Requests, SpecResult(q) \/ PlanResult(q)
  PROVE  Good
  <1>1. Planner(q, plan[q], t)
    BY Zenon DEF ReviewInv, PlannerInv
  <1>2. CASE SpecResult(q)
    <2> DEFINE a == <<"spec", plan[q].ref>>
    <2>1. CreateApproval(q, a) /\ plan[q].ref \in DOMAIN t.specs
      BY Zenon, <1>1, <1>2 DEF SpecResult, CreateApproval, Planner
    <2>2. Exists(t, a)
      BY Zenon, <2>1 DEF Exists
    <2> HIDE DEF a
    <2> QED BY Zenon, <2>1, <2>2, CreateApprovalGood
  <1>3. CASE PlanResult(q)
    <2> DEFINE a == <<"plan", plan[q].ref>>
    <2>1. CreateApproval(q, a) /\ plan[q].ref \in DOMAIN t.board.plans
      BY Zenon, <1>1, <1>3 DEF PlanResult, CreateApproval, Planner
    <2>2. Exists(t, a)
      BY Zenon, <2>1 DEF Exists
    <2> HIDE DEF a
    <2> QED BY Zenon, <2>1, <2>2, CreateApprovalGood
  <1> QED BY Zenon, <1>2, <1>3

(* A planner crashes. *)
LEMMA CrashPlannerGood ==
  ASSUME TypeOK, ReviewInv, NEW q \in Requests, CrashPlanner(q)
  PROVE  Good
  <1>1. faults' = faults + 1 /\ plan' = [plan EXCEPT ![q] = NoPlan] /\ UNCHANGED <<st, t, ledger, inputs, mapping, proc>>
    BY Zenon DEF CrashPlanner
  <1>2. faults' \in Nat /\ t \in Targets /\ TargetInv(t)
    BY <1>1, Given DEF ReviewInv
  <1>3. Replanned(q)
    BY Zenon, <1>1, Given, PlanIdle DEF Replanned
  <1>4. Moves(t, t', {})
    BY Zenon, <1>1, <1>2, NoMove
  <1> QED BY Zenon, <1>1, <1>2, <1>3, <1>4, PlannerMoves

-----------------------------------------------------------------------------
(* Clients of the stores outside the review *)

(* A step that moves no process and no planner *)
LEMMA WorldKeeps ==
  ASSUME TypeOK, ReviewInv, st' \in Stores, StoreInv(st'), StoreForward(st, st'),
         t' \in Targets, TargetInv(t'), Forward(t, t'), LinkInv(st', t'),
         UNCHANGED <<ledger, inputs, mapping, proc, plan, faults>>
  PROVE  Good
  <1>1. /\ ledger' \in [Approvals -> SUBSET {"command", "noop"}]
        /\ inputs' \subseteq {"resume", "result"} \X Approvals
        /\ mapping' \in [Approvals -> {"none", "pending", "resuming", "resumed"}]
        /\ proc' \in [Procs -> Locals] /\ plan' \in [Requests -> PlanLocals] /\ faults' \in Nat
    BY Zenon DEF TypeOK
  <1>2. LedgerStep
    BY ZenonT(60) DEF LedgerStep
  <1> QED BY Zenon, <1>1, <1>2, StepKeeps

(* A step on what is reviewed that brings nothing new for any approval *)
LEMMA TargetStepGood ==
  ASSUME TypeOK, ReviewInv, Moves(t, t', {}), UNCHANGED <<st, ledger, inputs, mapping, proc, plan, faults>>
  PROVE  Good
  <1>1. st \in Stores /\ StoreInv(st) /\ LinkInv(st, t)
    BY Zenon, Given DEF ReviewInv
  <1>2. Keeps(st, st')
    BY Zenon, <1>1, KeepsSame
  <1>3. LinkInv(st', t')
    BY Zenon, <1>1, <1>2, AllLinked
  <1>4. /\ st' \in Stores /\ StoreInv(st') /\ StoreForward(st, st')
        /\ t' \in Targets /\ TargetInv(t') /\ Forward(t, t')
    BY Zenon, <1>2 DEF Keeps, Moves
  <1> QED BY Zenon, <1>3, <1>4, WorldKeeps

(* A target and the approval that asks for its review *)
LEMMA AskedGood ==
  ASSUME TypeOK, ReviewInv, NEW a \in Approvals, NEW S \in SUBSET {a}, Moves(t, t', S), Exists(t', a),
         InEffect(t', a) => InEffect(t, a),
         \A status \in Statuses : CommandKey(a, status) \in t'.board.applied => CommandKey(a, status) \in t.board.applied,
         NEW mode \in {"durable", "interrupt"}, st' = CreatePostgres(st, a, mode),
         UNCHANGED <<ledger, inputs, mapping, proc, plan, faults>>
  PROVE  Good
  <1>1. st \in Stores /\ StoreInv(st) /\ LinkInv(st, t)
    BY ZenonT(60), Given DEF ReviewInv
  <1>2. LinkInv(CreatePostgres(st, a, mode), t')
    BY ZenonT(60), <1>1, CreatedLinked
  <1>3. LET r == CreatePostgres(st, a, mode) IN r \in Stores /\ StoreInv(r) /\ StoreForward(st, r)
    BY ZenonT(60), <1>1, ApprovalCreated
  <1>4. t' \in Targets /\ TargetInv(t') /\ Forward(t, t')
    BY ZenonT(60) DEF Moves
  <1> QED BY ZenonT(60), <1>2, <1>3, <1>4, WorldKeeps

(* The checkpoint of an interrupted run is bound to its approval. *)
LEMMA BindMappingGood ==
  ASSUME TypeOK, ReviewInv, NEW a \in Approvals, BindMapping(a)
  PROVE  Good
  <1>1. /\ st.app[a] # None /\ st' = BindInterruptMappingPostgres(st, a) /\ mapping' = [mapping EXCEPT ![a] = "pending"]
        /\ UNCHANGED <<t, ledger, inputs, proc, plan, faults>>
    BY Zenon DEF BindMapping
  <1>2. st \in Stores /\ StoreInv(st) /\ faults' \in Nat /\ mapping \in [Approvals -> {"none", "pending", "resuming", "resumed"}]
    BY Zenon, <1>1 DEF TypeOK, ReviewInv
  <1>3. Keeps(st, st')
    BY Zenon, <1>1, <1>2, BindKept
  <1>4. /\ mapping' \in [Approvals -> {"none", "pending", "resuming", "resumed"}]
        /\ \A b \in Approvals : mapping'[b] = "resumed" => mapping[b] = "resumed"
    BY Zenon, <1>1, <1>2
  <1> QED BY Zenon, <1>1, <1>2, <1>3, <1>4, RowStepKeeps

(* The lease of a claimed continuation ends. *)
LEMMA LeaseEndGood ==
  ASSUME TypeOK, ReviewInv, NEW a \in Approvals, LapseClaim(a) \/ OutliveLease(a)
  PROVE  Good
  <1>1. /\ st.cont[a] # None /\ st' = [st EXCEPT !.cont[a].live = FALSE]
        /\ UNCHANGED <<t, ledger, inputs, mapping, proc, plan>> /\ faults' \in {faults, faults + 1}
    BY Zenon DEF LapseClaim, OutliveLease
  <1>2. /\ st \in Stores /\ StoreInv(st) /\ faults' \in Nat
        /\ mapping' \in [Approvals -> {"none", "pending", "resuming", "resumed"}]
    BY <1>1 DEF TypeOK, ReviewInv
  <1>3. Keeps(st, st')
    BY Zenon, <1>1, <1>2, LapseKept
  <1> QED BY Zenon, <1>1, <1>2, <1>3, RowStepKeeps

(* A deferred outbox row is due again. *)
LEMMA RowDueGood ==
  ASSUME TypeOK, ReviewInv, NEW r \in DOMAIN st.box, RowDue(r)
  PROVE  Good
  <1>1. st' = [st EXCEPT !.box[r].status = "pending"] /\ UNCHANGED <<t, ledger, inputs, mapping, proc, plan, faults>>
    BY Zenon DEF RowDue
  <1>2. /\ st \in Stores /\ StoreInv(st) /\ faults' \in Nat
        /\ mapping' \in [Approvals -> {"none", "pending", "resuming", "resumed"}]
    BY Zenon, <1>1 DEF TypeOK, ReviewInv
  <1>3. Keeps(st, st')
    BY Zenon, <1>1, <1>2, RowIsDue
  <1> QED BY Zenon, <1>1, <1>2, <1>3, RowStepKeeps

(* The empty store *)
LEMMA EmptyIsSound ==
  EmptyStore \in Stores /\ StoreInv(EmptyStore) /\ \A a \in Approvals : EmptyStore.app[a] = None /\ ~Applied(EmptyStore, a)
  <1> DEFINE s == EmptyStore
  <1>1. s.box \in Boxes /\ DOMAIN s.box = {}
    <2> DEFINE B == [r \in {} |-> None]
    <2>1. B \in [{} -> OutboxRows]
      BY Zenon
    <2> HIDE DEF B
    <2>2. B \in Boxes /\ DOMAIN B = {}
      BY ZenonT(60), <2>1, BoxIs
    <2> QED BY Zenon, <2>2 DEF EmptyStore, B
  <1>2. /\ s = [app |-> s.app, cont |-> s.cont, box |-> s.box, batch |-> s.batch]
        /\ s.app \in [Approvals -> {None}] /\ s.cont \in [Approvals -> {None}] /\ s.batch \in [BatchKeys -> {None}]
    BY ZenonT(60) DEF EmptyStore
  <1> HIDE DEF s
  <1>3. /\ s.app \in [Approvals -> ApprovalRows \cup {None}] /\ s.cont \in [Approvals -> ContinuationRows \cup {None}]
        /\ s.batch \in [BatchKeys -> (SUBSET Reviewable) \cup {None}]
    BY Zenon, <1>2
  <1>4. s \in Stores
    BY Zenon, <1>1, <1>2, <1>3 DEF Stores
  <1>5. PendingPrimary(s) = {}
    BY Zenon, <1>2 DEF PendingPrimary, Existing
  <1>6. StoreInv(s)
    BY Zenon, <1>1, <1>2, <1>5 DEF StoreInv, Decided, AtMostOne
  <1> QED BY Zenon, <1>2, <1>4, <1>6 DEF s, Applied

=============================================================================
