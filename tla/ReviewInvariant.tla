--------------------------- MODULE ReviewInvariant ---------------------------
(***************************************************************************)
(* The inductive invariant of reviews (ApprovalRuntime), for any number of *)
(* handlers, relays, agents, requests and approvals.                       *)
(*                                                                         *)
(* The argument: what is reviewed only moves forward (Forward).  A closed  *)
(* review never opens again, what no longer matches its binding never      *)
(* matches again, the trace of a command is never lost.  So what a process *)
(* found out before it lost its lease or was overtaken still holds when it *)
(* acts on it (ProcInv), and the rows agree (StoreInv, LinkInv).           *)
(***************************************************************************)
EXTENDS ApprovalRuntime, StoreInvariant, TargetInvariant

-----------------------------------------------------------------------------
(* Types *)

Pcs == {"idle", "fallback", "decide", "cleanup", "resume", "claim", "execute", "supersede", "record", "finish",
        "reread", "complete", "batch", "freeze"}
Reads == [exec : {"runner", "deterministic"}, epoch : Nat]
Locals == [pc : Pcs, a : Approvals \cup {None}, req : DecisionRequests \cup {None}, read : Reads \cup {None},
           row : RowIds \cup {None}, epoch : Nat, verdict : {"command", "noop", "empty", None},
           batch : BatchKeys \cup {None}, todo : SUBSET Reviewable]
PlanLocals == [pc : {"idle", "model", "saved"}, ref : Nat, spec : Nat, version : Nat]

TypeOK ==
  /\ st \in Stores
  /\ t \in Targets
  /\ ledger \in [Approvals -> SUBSET {"command", "noop"}]
  /\ inputs \subseteq {"resume", "result"} \X Approvals
  /\ mapping \in [Approvals -> {"none", "pending", "resuming", "resumed"}]
  /\ proc \in [Procs -> Locals]
  /\ plan \in [Requests -> PlanLocals]
  /\ faults \in Nat

-----------------------------------------------------------------------------
(* The approvals, the continuations and their targets *)

(* The outcome of one approval *)
Link(s, u, a) ==
  /\ s.app[a] # None => Exists(u, a)
  /\ a[1] = "cand" /\ u.board.cand[a[2]] = "candidate" => s.app[a] # None
  /\ InEffect(u, a) => s.app[a] # None /\ s.app[a].status = "approved"
  /\ s.app[a] # None /\ s.app[a].status = "stale" /\ a[1] # "export" => ~Matches(u, a)
  /\ Applied(s, a) => Closed(u, a)
  /\ \A status \in {"approved", "rejected", "stale"} :
       a[1] \in {"plan", "cand"} /\ CommandKey(a, status) \in u.board.applied => s.app[a] # None /\ Closed(u, a)

LinkInv(s, u) == \A a \in Approvals : Link(s, u, a)

LedgerInv ==
  \A a \in Approvals :
    /\ ledger[a] # {} => Applied(st, a)
    /\ AtMostOne(ledger[a])
    /\ "command" \in ledger[a] => Traced(t, a, st.app[a].status)
    /\ <<"result", a>> \in inputs \/ mapping[a] = "resumed" => Applied(st, a)
    /\ <<"resume", a>> \in inputs => st.cont[a] # None

-----------------------------------------------------------------------------
(* What a process knows *)

Carrying == {"cleanup", "resume", "claim", "execute", "supersede", "record", "finish", "reread", "complete"}

Knows(l, s, u) ==
  /\ l.pc \in {"fallback", "decide"} => l.a # None /\ s.app[l.a] # None /\ l.req \in DecisionRequests
  /\ l.pc = "decide" /\ ~l.req.seen /\ l.a[1] # "export" => ~Matches(u, l.a)
  /\ l.pc \in Carrying => l.a # None /\ s.cont[l.a] # None /\ l.read \in Reads
  /\ l.pc = "execute" => l.verdict = "command" /\ s.app[l.a].status # "stale"
  /\ l.pc = "supersede" /\ l.a[1] = "spec" => Closed(u, l.a)
  /\ l.pc = "record" => l.verdict \in {"command", "noop", "empty"} /\ Closed(u, l.a)
  /\ l.pc = "record" /\ l.verdict = "command" => Traced(u, l.a, s.app[l.a].status)
  /\ l.pc \in {"finish", "complete"} => Applied(s, l.a)
  /\ l.pc = "freeze" \/ l.todo # {} => l.batch \in BatchKeys
  /\ \A a \in l.todo \cap Approvals : s.app[a] # None

ProcInv == \A p \in Procs : Knows(proc[p], st, t)

Planner(q, l, u) ==
  /\ l.pc = "saved" => IF Kind[q] = "spec" THEN l.ref \in DOMAIN u.specs ELSE l.ref \in DOMAIN u.board.plans
  /\ l.pc = "model" /\ Kind[q] = "plan" => WasConfirmed(u.specs, l.spec)

PlannerInv == \A q \in Requests : Planner(q, plan[q], t)

ReviewInv == TargetInv(t) /\ StoreInv(st) /\ LinkInv(st, t) /\ LedgerInv /\ ProcInv /\ PlannerInv

(* What is shown of every step *)
Good == TypeOK' /\ ReviewInv' /\ Forward(t, t')

=============================================================================
