---------------------------- MODULE ApprovalStore ----------------------------
(***************************************************************************)
(* Approvals, their one decision, the continuation that carries the        *)
(* decision out and the outbox rows that make it happen                    *)
(* (internal/aigc/approval), with the continuation operations of           *)
(* internal/aigc/sessionruntime, as functions of the stored rows            *)
(*   st.app[a]   the approval with its decision, None before Create        *)
(*   st.cont[a]  the continuation of the decision                          *)
(*   st.box      the outbox rows, by [app, type, epoch]                    *)
(*   st.batch    the frozen candidate batch of each request key            *)
(* Approval ids are derived from the reviewed revision: <<kind, number>>.  *)
(* An approval is decided once, so the decision version is 0 or 1 and      *)
(* `decided` stands for it.  A binding is only ever compared with the      *)
(* approval's, so `seen` keeps the result of the comparison.  `live` says  *)
(* that LeaseUntil lies in the future, "waiting" that AvailableAt does.    *)
(***************************************************************************)
EXTENDS ReviewIds

CONSTANTS
  Handlers,    \* HTTP handlers of POST decision and candidate batch
  Relays,      \* approval outbox relays
  Agents,      \* session processors resuming a checkpoint
  Asked,       \* what users ask for: "approve", "reject"
  MaxDelivery  \* failed deliveries after which an outbox row is dead (10 in the code)

ASSUME ApprovalAssumption == None \notin Approvals /\ MaxDelivery \in Nat \ {0}

Conts == INSTANCE ContinuationStore

Procs == Handlers \cup Relays \cup Agents

(* The rows of the two tables; no row and no key is taken for a missing one. *)
DecisionKeys == (Approvals \X Asked) \cup (BatchKeys \X Approvals)
ApprovalRows ==
  [status : {"pending", "approved", "rejected", "stale"}, mode : {"durable", "interrupt", "fallback"}, epoch : Nat,
   mapped : BOOLEAN, key : DecisionKeys \cup {None}, asked : Asked \cup {"approve", None}, seen : BOOLEAN]
ContinuationRows ==
  [status : {"requested", "claimed", "failed", "applied"}, exec : {"runner", "deterministic"}, epoch : Nat,
   owner : Procs \cup {None}, live : BOOLEAN]

ASSUME RowAssumption == None \notin ApprovalRows \cup ContinuationRows \cup DecisionKeys

(* isPrimaryReviewApproval *)
Primary(a) == a[1] \in {"spec", "plan"}

EmptyStore ==
  [app |-> [a \in Approvals |-> None], cont |-> [a \in Approvals |-> None],
   box |-> [r \in {} |-> None], batch |-> [k \in BatchKeys |-> None]]

Existing(st) == {a \in Approvals : st.app[a] # None}
Decided(st, a) == st.app[a] # None /\ st.app[a].status # "pending"
PendingPrimary(st) == {a \in Existing(st) : Primary(a) /\ st.app[a].status = "pending"}

(* normalizeApproval *)
NewApproval(mode) ==
  [status |-> "pending", mode |-> mode, epoch |-> 1, mapped |-> FALSE,
   key |-> None, asked |-> None, seen |-> FALSE]

-----------------------------------------------------------------------------
(* What a decision writes, shared by both stores (approval/store.go) *)

Effective(req) ==
  IF ~req.seen THEN "stale" ELSE IF req.asked = "approve" THEN "approved" ELSE "rejected"

(* Mutant: a decided approval is decided again under another key. *)
CanPrepareAgain(rec) == rec.mode = "interrupt" => rec.mapped

(* An undecided interrupt approval without a mapping cannot be decided. *)
CanPrepare(rec) == rec.status = "pending" /\ (rec.mode = "interrupt" => rec.mapped)

PrepareDecision(rec, req) ==
  [rec EXCEPT !.status = Effective(req), !.key = req.key, !.asked = req.asked, !.seen = req.seen]

NewContinuation(rec) ==
  [status |-> "requested", exec |-> IF rec.mode = "interrupt" THEN "runner" ELSE "deterministic",
   epoch |-> rec.epoch, owner |-> None, live |-> FALSE]

NewRow == [status |-> "pending", attempts |-> 0]
DecisionRow(a, cont) ==
  [app |-> a, type |-> IF cont.exec = "runner" THEN "resume" ELSE "continuation", epoch |-> cont.epoch]
FallbackRow(a, rec) == [app |-> a, type |-> "fallback", epoch |-> rec.epoch]
AddRow(box, r) == IF r \in DOMAIN box THEN box ELSE [x \in DOMAIN box \cup {r} |-> IF x = r THEN NewRow ELSE box[x]]

SameDecisionRequest(rec, req) == rec.asked = req.asked /\ rec.seen = req.seen

-----------------------------------------------------------------------------
(* The memory store *)

CreateOutcome(st, a) ==
  CASE st.app[a] # None -> "replay"
    [] st.app[a] = None /\ Primary(a) /\ PendingPrimary(st) # {} -> "primary pending"
    [] OTHER -> "created"

Create(st, a, mode) ==
  IF CreateOutcome(st, a) = "created" THEN [st EXCEPT !.app[a] = NewApproval(mode)] ELSE st

DecideOutcome(st, a, req) ==
  LET owners == {b \in Existing(st) : st.app[b].key = req.key}
  IN  CASE owners # {} -> IF a \in owners /\ SameDecisionRequest(st.app[a], req) THEN "replay" ELSE "conflict"
        [] owners = {} /\ ~CanPrepare(st.app[a]) -> "refused"
        [] OTHER -> "decided"

Decide(st, a, req) ==
  LET rec == PrepareDecision(st.app[a], req)
      cont == NewContinuation(rec)
  IN  IF DecideOutcome(st, a, req) # "decided" THEN st
      ELSE [st EXCEPT !.app[a] = rec, !.cont[a] = cont, !.box = AddRow(@, DecisionRow(a, cont))]

CanBind(rec) == rec.mode = "interrupt" /\ rec.status = "pending" /\ ~rec.mapped

BindInterruptMapping(st, a) ==
  IF CanBind(st.app[a]) THEN [st EXCEPT !.app[a].mapped = TRUE] ELSE st

(* Fenced by the execution epoch and the decision version the caller read; *)
(* a switch that was made already is answered as it was.                   *)
FallbackOutcome(st, a, epoch, decided) ==
  LET rec == st.app[a]
      same == Decided(st, a) <=> decided
  IN  IF rec.mode = "fallback" /\ rec.epoch = epoch + 1 /\ same THEN "replay"
      ELSE IF rec.mode # "interrupt" \/ rec.epoch # epoch \/ ~same THEN "fenced"
      ELSE IF decided /\ st.cont[a].status = "applied" THEN "fenced"
      ELSE IF decided /\ st.cont[a].status = "claimed" /\ st.cont[a].live THEN "busy"
      ELSE "switched"

(* A decision that was recorded goes on with the deterministic executor. *)
FallbackContinuation(cont, epoch) ==
  [cont EXCEPT !.status = "requested", !.exec = "deterministic", !.epoch = epoch, !.owner = None, !.live = FALSE]

SwitchToDurableFallback(st, a, epoch, decided) ==
  LET rec == [st.app[a] EXCEPT !.mode = "fallback", !.epoch = @ + 1]
      cont == FallbackContinuation(st.cont[a], rec.epoch)
  IN  IF FallbackOutcome(st, a, epoch, decided) # "switched" THEN st
      ELSE IF decided
           THEN [st EXCEPT !.app[a] = rec, !.cont[a] = cont, !.box = AddRow(st.box, DecisionRow(a, cont))]
           ELSE [st EXCEPT !.app[a] = rec, !.box = AddRow(st.box, FallbackRow(a, rec))]

(* A deferred row is a pending one whose AvailableAt lies ahead. *)
Undelivered(row) == row.status \in {"pending", "waiting"}

MarkOutboxPublished(st, r) ==
  IF Undelivered(st.box[r]) THEN [st EXCEPT !.box[r].status = "published"] ELSE st

(* max = 0: the row is deferred, not dead; the attempt counts all the same. *)
(* Attempts are only compared with MaxDelivery and saturate there.          *)
MarkOutboxFailed(st, r, max) ==
  LET n == st.box[r].attempts + 1
  IN  IF ~Undelivered(st.box[r]) THEN st
      ELSE [st EXCEPT !.box[r] = [status |-> IF max > 0 /\ n >= max THEN "dead" ELSE "waiting",
                                  attempts |-> IF n > MaxDelivery THEN MaxDelivery ELSE n]]

CreateCandidateApprovalBatch(st, k, targets) ==
  IF st.batch[k] = None THEN [st EXCEPT !.batch[k] = targets] ELSE st

-----------------------------------------------------------------------------
(* The Postgres store: one transaction each, under the lock of the         *)
(* approval row.  The partial unique index of pending primary reviews and  *)
(* the unique decision key decide between concurrent transactions.         *)

PrimaryIndex(app) ==
  {a \in DOMAIN app : app[a] # None /\ app[a].status = "pending" /\ a[1] \in {"spec", "plan"}}

CreatePostgres(st, a, mode) ==
  LET inserted == [st.app EXCEPT ![a] = NewApproval(mode)]
  IN  IF st.app[a] # None \/ ~AtMostOne(PrimaryIndex(inserted)) THEN st
      ELSE [st EXCEPT !.app = inserted]

DecidePostgres(st, a, req) ==
  LET known == \E b \in Approvals : st.app[b] # None /\ st.app[b].key = req.key
      rec == PrepareDecision(st.app[a], req)
      cont == NewContinuation(rec)
  IN  IF known \/ ~CanPrepare(st.app[a]) THEN st
      ELSE [app |-> [st.app EXCEPT ![a] = rec], cont |-> [st.cont EXCEPT ![a] = cont],
            box |-> AddRow(st.box, DecisionRow(a, cont)), batch |-> st.batch]

(* UPDATE ... WHERE execution_mode, epoch, status and the empty mapping match *)
BindInterruptMappingPostgres(st, a) ==
  LET row == st.app[a]
  IN  IF row.mode = "interrupt" /\ row.status = "pending" /\ ~row.mapped
      THEN [st EXCEPT !.app = [@ EXCEPT ![a] = [row EXCEPT !.mapped = TRUE]]] ELSE st

(* The row as the transaction found it, under the lock of the approval and *)
(* of its continuation.                                                    *)
SwitchToDurableFallbackPostgres(st, a, epoch, decided) ==
  LET row == st.app[a]
      next == [row EXCEPT !.mode = "fallback", !.epoch = epoch + 1]
      open == decided => st.cont[a].status \in {"requested", "failed"} \/ (st.cont[a].status = "claimed" /\ ~st.cont[a].live)
      cont == IF decided THEN [st.cont EXCEPT ![a] = FallbackContinuation(@, epoch + 1)] ELSE st.cont
  IN  IF row.mode = "interrupt" /\ row.epoch = epoch /\ (row.status # "pending" <=> decided) /\ open
      THEN [app |-> [st.app EXCEPT ![a] = next], cont |-> cont, batch |-> st.batch,
            box |-> AddRow(st.box, IF decided THEN DecisionRow(a, cont[a]) ELSE FallbackRow(a, next))]
      ELSE st

MarkOutboxPublishedPostgres(st, r) ==
  [st EXCEPT !.box = [x \in DOMAIN st.box |->
     IF x = r /\ Undelivered(st.box[x]) THEN [st.box[x] EXCEPT !.status = "published"] ELSE st.box[x]]]

MarkOutboxFailedPostgres(st, r, max) ==
  LET row == st.box[r]
      tried == IF row.attempts < MaxDelivery THEN row.attempts + 1 ELSE MaxDelivery
      dead == max > 0 /\ row.attempts + 1 >= max
  IN  IF Undelivered(row)
      THEN [st EXCEPT !.box[r] = [attempts |-> tried, status |-> IF dead THEN "dead" ELSE "waiting"]]
      ELSE st

(* INSERT ... ON CONFLICT DO NOTHING *)
CreateCandidateApprovalBatchPostgres(st, k, targets) ==
  [st EXCEPT !.batch = [x \in BatchKeys |-> IF x = k /\ st.batch[x] = None THEN targets ELSE st.batch[x]]]

-----------------------------------------------------------------------------
(* The two approval stores *)
ApprovalsAgree(s) ==
  /\ \A a \in Approvals, mode \in {"durable", "interrupt"} : Create(s, a, mode) = CreatePostgres(s, a, mode)
  /\ \A a \in Existing(s), asked \in Asked, seen \in BOOLEAN :
       LET req == [key |-> <<a, asked>>, asked |-> asked, seen |-> seen]
       IN  Decide(s, a, req) = DecidePostgres(s, a, req)
  /\ \A a \in Existing(s) :
       /\ BindInterruptMapping(s, a) = BindInterruptMappingPostgres(s, a)
       /\ \A e \in 1 .. 2, decided \in BOOLEAN :
            SwitchToDurableFallback(s, a, e, decided) = SwitchToDurableFallbackPostgres(s, a, e, decided)
  /\ \A r \in DOMAIN s.box :
       /\ MarkOutboxPublished(s, r) = MarkOutboxPublishedPostgres(s, r)
       /\ \A max \in {0, MaxDelivery} : MarkOutboxFailed(s, r, max) = MarkOutboxFailedPostgres(s, r, max)

(* The two session runtime stores, on a continuation *)
ContinuationsAgree(s) ==
  \A a \in Approvals, p \in Procs : s.cont[a] # None =>
    LET c == s.cont[a]
    IN  /\ Conts!ClaimContinuation(c, c, p) = Conts!ClaimContinuationPostgres(c, c, p)
        /\ Conts!ApplyContinuation(c, c, p) = Conts!ApplyContinuationPostgres(c, c, p)
        /\ Conts!FailContinuation(c, c, p) = Conts!FailContinuationPostgres(c, c, p)
=============================================================================
