------------------------- MODULE ApprovalStoreProofs -------------------------
(***************************************************************************)
(* What every call of the Postgres stores of approvals and continuations   *)
(* preserves, and that the memory stores do the same.                      *)
(***************************************************************************)
EXTENDS StoreInvariant, TLAPS

-----------------------------------------------------------------------------
(* What the stores do to the approvals, the continuations and the outbox *)

WithBox(s, B) == [s EXCEPT !.box = B]
WithCont(s, a, c) == [s EXCEPT !.cont[a] = c]
WithApp(s, a, rec) == [s EXCEPT !.app[a] = rec]
WithRows(s, a, rec, cont, box) == [s EXCEPT !.app[a] = rec, !.cont[a] = cont, !.box = box]
WithAppRow(s, a, rec, box) == [s EXCEPT !.app[a] = rec, !.box = box]
Tables(app, cont, box, batch) == [app |-> app, cont |-> cont, box |-> box, batch |-> batch]

(* The parts of a store *)
LEMMA StoreParts ==
  ASSUME NEW s \in Stores
  PROVE  /\ s.app \in [Approvals -> ApprovalRows \cup {None}] /\ s.cont \in [Approvals -> ContinuationRows \cup {None}]
         /\ s.box \in Boxes /\ s.batch \in [BatchKeys -> (SUBSET Reviewable) \cup {None}]
         /\ s = [app |-> s.app, cont |-> s.cont, box |-> s.box, batch |-> s.batch]
  BY Zenon DEF Stores

(* The rows of an outbox *)
LEMMA BoxParts ==
  ASSUME NEW B \in Boxes
  PROVE  /\ DOMAIN B \subseteq RowIds /\ \A r \in DOMAIN B : B[r] \in OutboxRows
         /\ B = [r \in DOMAIN B |-> B[r]]
  BY Zenon DEF Boxes

(* What is an outbox *)
LEMMA BoxIs ==
  ASSUME NEW S \in SUBSET RowIds, NEW B \in [S -> OutboxRows]
  PROVE  B \in Boxes /\ DOMAIN B = S
  BY Zenon DEF Boxes

(* A store that does not change keeps its outcomes. *)
LEMMA KeepsSame ==
  ASSUME NEW s \in Stores, StoreInv(s)
  PROVE  Keeps(s, s)
  BY Zenon DEF Keeps, StoreForward, SameOutcome

(* Two steps that keep the outcomes keep them together. *)
LEMMA KeepsOn ==
  ASSUME NEW s, NEW r, NEW q, Keeps(s, r), Keeps(r, q)
  PROVE  Keeps(s, q)
  <1>1. StoreForward(s, q)
    BY Zenon DEF Keeps, StoreForward
  <1>2. \A a \in Approvals : SameOutcome(s, q, a)
    BY Zenon DEF Keeps, SameOutcome
  <1> QED BY Zenon, <1>1, <1>2 DEF Keeps

(* A change of the outbox only *)
LEMMA BoxKept ==
  ASSUME NEW s \in Stores, StoreInv(s), NEW B \in Boxes, \A r \in DOMAIN B : r.type # "fallback" => s.cont[r.app] # None
  PROVE  LET r == WithBox(s, B)
         IN  Keeps(s, r) /\ r.app = s.app /\ r.cont = s.cont /\ r.batch = s.batch /\ r.box = B
  <1> DEFINE r == WithBox(s, B)
  <1>1. r \in Stores /\ r.app = s.app /\ r.cont = s.cont /\ r.batch = s.batch /\ r.box = B
    BY Zenon DEF Stores, WithBox
  <1> HIDE DEF r
  <1>2. StoreInv(r)
    BY <1>1 DEF StoreInv, Decided, PendingPrimary, Existing
  <1>3. StoreForward(s, r) /\ \A a \in Approvals : SameOutcome(s, r, a)
    BY Zenon, <1>1 DEF StoreForward, SameOutcome, Decided, Applied
  <1> QED BY Zenon, <1>1, <1>2, <1>3 DEF Keeps, r

(* A change of one continuation that does not take its application back *)
LEMMA ContKept ==
  ASSUME NEW s \in Stores, StoreInv(s), NEW a \in Approvals, s.cont[a] # None, NEW c \in ContinuationRows,
         s.cont[a].status = "applied" => c.status = "applied"
  PROVE  LET r == WithCont(s, a, c)
         IN  /\ r \in Stores /\ StoreInv(r) /\ StoreForward(s, r)
             /\ \A x \in Approvals : x # a \/ c.status # "applied" \/ Applied(s, a) => SameOutcome(s, r, x)
             /\ r.app = s.app /\ r.cont[a] = c /\ r.box = s.box /\ r.batch = s.batch
             /\ \A x \in Approvals : x # a => r.cont[x] = s.cont[x]
  <1> DEFINE r == WithCont(s, a, c)
  <1>1. /\ r \in Stores /\ r.app = s.app /\ r.cont[a] = c /\ r.box = s.box /\ r.batch = s.batch
        /\ \A x \in Approvals : x # a => r.cont[x] = s.cont[x]
    BY Zenon DEF Stores, WithCont
  <1>2. c # None
    BY Zenon, RowAssumption
  <1> HIDE DEF r
  <1>3. StoreInv(r)
    <2>1. \A x \in Approvals : r.cont[x] # None <=> Decided(r, x)
      BY <1>1, <1>2 DEF StoreInv, Decided
    <2>2. \A x \in DOMAIN r.box : x.type # "fallback" => r.cont[x.app] # None
      <3>1. \A x \in DOMAIN r.box : x.app \in Approvals
        BY <1>1, StoreParts, BoxParts DEF RowIds
      <3> QED BY Zenon, <1>1, <1>2, <3>1 DEF StoreInv
    <2>3. \A x \in Approvals : /\ Decided(r, x) => (r.app[x].status = "stale" <=> ~r.app[x].seen)
                               /\ r.app[x] # None => Decided(r, x) \/ r.app[x].key = None
      BY <1>1 DEF StoreInv, Decided
    <2>4. PendingPrimary(r) = PendingPrimary(s)
      BY Zenon, <1>1 DEF PendingPrimary, Existing
    <2> QED BY <1>1, <2>1, <2>2, <2>3, <2>4 DEF StoreInv
  <1>4. StoreForward(s, r)
    BY Zenon, <1>1, <1>2 DEF StoreForward, Decided, Applied
  <1>5. \A x \in Approvals : x # a \/ c.status # "applied" \/ Applied(s, a) => SameOutcome(s, r, x)
    BY Zenon, <1>1 DEF SameOutcome, Applied
  <1> QED BY Zenon, <1>1, <1>3, <1>4, <1>5 DEF r

(* A change of an undecided approval that leaves it undecided *)
LEMMA AppKept ==
  ASSUME NEW s \in Stores, StoreInv(s), NEW a \in Approvals, s.app[a] # None, NEW rec \in ApprovalRows,
         s.app[a].status = "pending", rec.status = "pending", rec.key = None
  PROVE  LET r == WithApp(s, a, rec)
         IN  Keeps(s, r) /\ r.app[a] = rec /\ r.cont = s.cont /\ r.batch = s.batch /\ r.box = s.box
  <1> DEFINE r == WithApp(s, a, rec)
  <1>1. /\ r \in Stores /\ r.app[a] = rec /\ r.cont = s.cont /\ r.box = s.box /\ r.batch = s.batch
        /\ \A x \in Approvals : x # a => r.app[x] = s.app[x]
    BY Zenon DEF Stores, WithApp
  <1>2. rec # None
    BY Zenon, RowAssumption
  <1> HIDE DEF r
  <1>3. \A x \in Approvals : Decided(r, x) <=> Decided(s, x)
    BY Zenon, <1>1, <1>2 DEF Decided
  <1>4. PendingPrimary(r) = PendingPrimary(s)
    BY Zenon, <1>1, <1>2 DEF PendingPrimary, Existing
  <1>5. \A x \in Approvals : Decided(r, x) => x # a
    BY Zenon, <1>1 DEF Decided
  <1>6. StoreInv(r)
    BY <1>1, <1>2, <1>3, <1>4, <1>5 DEF StoreInv
  <1>7. StoreForward(s, r) /\ \A x \in Approvals : SameOutcome(s, r, x)
    BY Zenon, <1>1, <1>2 DEF StoreForward, SameOutcome, Decided, Applied
  <1> QED BY Zenon, <1>1, <1>6, <1>7 DEF Keeps, r

(* The outbox: a row is marked, or a new one added. *)
LEMMA RowsMarked ==
  ASSUME NEW s \in Stores, StoreInv(s), NEW B \in [DOMAIN s.box -> OutboxRows]
  PROVE  Keeps(s, WithBox(s, B))
  <1>1. DOMAIN s.box \subseteq RowIds
    BY Zenon, StoreParts, BoxParts
  <1>2. B \in Boxes /\ DOMAIN B = DOMAIN s.box
    BY Zenon, <1>1, BoxIs
  <1> QED BY Zenon, <1>2, BoxKept DEF StoreInv

(* MarkOutboxPublished *)
LEMMA RowPublished ==
  ASSUME NEW s \in Stores, StoreInv(s), NEW r
  PROVE  Keeps(s, MarkOutboxPublishedPostgres(s, r))
  <1> DEFINE B == [x \in DOMAIN s.box |->
                     IF x = r /\ Undelivered(s.box[x]) THEN [s.box[x] EXCEPT !.status = "published"] ELSE s.box[x]]
  <1>1. MarkOutboxPublishedPostgres(s, r) = WithBox(s, B)
    BY Zenon DEF MarkOutboxPublishedPostgres, WithBox
  <1>2. ASSUME NEW x \in DOMAIN s.box PROVE B[x] \in OutboxRows
    <2>1. s.box[x] \in OutboxRows
      BY Zenon, StoreParts, BoxParts
    <2>2. [s.box[x] EXCEPT !.status = "published"] \in OutboxRows
      BY Zenon, <2>1 DEF OutboxRows
    <2> QED BY Zenon, <2>1, <2>2
  <1>3. B \in [DOMAIN s.box -> OutboxRows]
    BY Zenon, <1>2
  <1> HIDE DEF B
  <1> QED BY Zenon, <1>1, <1>3, RowsMarked

(* MarkOutboxFailed *)
LEMMA RowFailed ==
  ASSUME NEW s \in Stores, StoreInv(s), NEW r, NEW max
  PROVE  Keeps(s, MarkOutboxFailedPostgres(s, r, max))
  <1> DEFINE row == s.box[r]
             new == [attempts |-> IF row.attempts < MaxDelivery THEN row.attempts + 1 ELSE MaxDelivery,
                     status |-> IF max > 0 /\ row.attempts + 1 >= max THEN "dead" ELSE "waiting"]
             B == [s.box EXCEPT ![r] = new]
  <1>1. MarkOutboxFailedPostgres(s, r, max) = IF Undelivered(row) THEN WithBox(s, B) ELSE s
    BY Zenon DEF MarkOutboxFailedPostgres, WithBox
  <1>2. s.box = [x \in DOMAIN s.box |-> s.box[x]] /\ \A x \in DOMAIN s.box : s.box[x] \in OutboxRows
    BY Zenon, StoreParts, BoxParts
  <1>3. r \in DOMAIN s.box => new \in OutboxRows
    <2>1. r \in DOMAIN s.box => row.attempts \in Nat /\ MaxDelivery \in Nat
      BY Zenon, <1>2, ApprovalAssumption DEF OutboxRows
    <2> QED BY <2>1 DEF OutboxRows
  <1> HIDE DEF new
  <1>4. B \in [DOMAIN s.box -> OutboxRows]
    BY Zenon, <1>2, <1>3
  <1> HIDE DEF B
  <1> QED BY Zenon, <1>1, <1>4, RowsMarked, KeepsSame

(* A waiting row is pending again. *)
LEMMA RowIsDue ==
  ASSUME NEW s \in Stores, StoreInv(s), NEW r \in DOMAIN s.box
  PROVE  Keeps(s, [s EXCEPT !.box[r].status = "pending"])
  <1> DEFINE new == [s.box[r] EXCEPT !.status = "pending"]
             B == [s.box EXCEPT ![r] = new]
  <1>1. [s EXCEPT !.box[r].status = "pending"] = WithBox(s, B)
    BY Zenon DEF WithBox
  <1>2. s.box = [x \in DOMAIN s.box |-> s.box[x]] /\ \A x \in DOMAIN s.box : s.box[x] \in OutboxRows
    BY Zenon, StoreParts, BoxParts
  <1>3. new \in OutboxRows
    BY Zenon, <1>2 DEF OutboxRows
  <1> HIDE DEF new
  <1>4. B \in [DOMAIN s.box -> OutboxRows]
    BY Zenon, <1>2, <1>3
  <1> HIDE DEF B
  <1> QED BY Zenon, <1>1, <1>4, RowsMarked

(* A row is added once. *)
LEMMA RowAdded ==
  ASSUME NEW B \in Boxes, NEW r \in RowIds
  PROVE  AddRow(B, r) \in Boxes /\ DOMAIN AddRow(B, r) = DOMAIN B \cup {r}
  <1>1. DOMAIN B \subseteq RowIds /\ \A x \in DOMAIN B : B[x] \in OutboxRows
    BY Zenon, BoxParts
  <1>2. CASE r \in DOMAIN B
    BY Zenon, <1>2 DEF AddRow
  <1>3. CASE r \notin DOMAIN B
    <2> DEFINE S == DOMAIN B \cup {r}
               C == [x \in S |-> IF x = r THEN NewRow ELSE B[x]]
    <2>1. AddRow(B, r) = C
      BY Zenon, <1>3 DEF AddRow
    <2>2. NewRow \in OutboxRows
      BY Zenon DEF NewRow, OutboxRows
    <2>3. C \in [S -> OutboxRows] /\ S \subseteq RowIds
      BY Zenon, <1>1, <2>2
    <2> HIDE DEF C, S
    <2>4. C \in Boxes /\ DOMAIN C = S
      BY Zenon, <2>3, BoxIs
    <2> QED BY Zenon, <2>1, <2>4 DEF S
  <1> QED BY Zenon, <1>2, <1>3

(* The continuation: claimed, failed, or its lease lapsed *)
LEMMA NotApplied ==
  ASSUME NEW s \in Stores, StoreInv(s), NEW a \in Approvals, s.cont[a] # None, NEW c \in ContinuationRows,
         c = s.cont[a] \/ (s.cont[a].status # "applied" /\ c.status # "applied")
  PROVE  Keeps(s, WithCont(s, a, c)) /\ WithCont(s, a, c).app = s.app
  <1>1. s.cont[a].status = "applied" => c.status = "applied"
    BY Zenon
  <1>2. c.status # "applied" \/ Applied(s, a)
    BY Zenon DEF Applied
  <1> QED BY <1>1, <1>2, ContKept DEF Keeps

(* ClaimContinuation *)
LEMMA ClaimKept ==
  ASSUME NEW s \in Stores, StoreInv(s), NEW a \in Approvals, s.cont[a] # None, NEW read, NEW p \in Procs
  PROVE  Keeps(s, [s EXCEPT !.cont[a] = Conts!ClaimContinuationPostgres(@, read, p)])
  <1> DEFINE old == s.cont[a]
             c == Conts!ClaimContinuationPostgres(old, read, p)
  <1>1. [s EXCEPT !.cont[a] = Conts!ClaimContinuationPostgres(@, read, p)] = WithCont(s, a, c)
    BY Zenon, StoreParts DEF WithCont
  <1>2. old \in ContinuationRows
    BY Zenon, StoreParts
  <1>3. c \in ContinuationRows /\ (c = old \/ (old.status # "applied" /\ c.status # "applied"))
    BY Zenon, <1>2 DEF ContinuationRows, Conts!ClaimContinuationPostgres
  <1> HIDE DEF c
  <1> QED BY <1>1, <1>3, NotApplied

(* FailContinuation *)
LEMMA FailKept ==
  ASSUME NEW s \in Stores, StoreInv(s), NEW a \in Approvals, s.cont[a] # None, NEW read, NEW p \in Procs
  PROVE  Keeps(s, [s EXCEPT !.cont[a] = Conts!FailContinuationPostgres(@, read, p)])
  <1> DEFINE old == s.cont[a]
             c == Conts!FailContinuationPostgres(old, read, p)
  <1>1. [s EXCEPT !.cont[a] = Conts!FailContinuationPostgres(@, read, p)] = WithCont(s, a, c)
    BY StoreParts DEF WithCont
  <1>2. old \in ContinuationRows
    BY StoreParts
  <1>3. c \in ContinuationRows /\ (c = old \/ (old.status # "applied" /\ c.status # "applied"))
    BY Zenon, <1>2 DEF ContinuationRows, Conts!FailContinuationPostgres, Conts!FinishContinuation
  <1> HIDE DEF c
  <1> QED BY Zenon, <1>1, <1>3, NotApplied

(* The lease of a claim ends. *)
LEMMA LapseKept ==
  ASSUME NEW s \in Stores, StoreInv(s), NEW a \in Approvals, s.cont[a] # None
  PROVE  Keeps(s, [s EXCEPT !.cont[a].live = FALSE])
  <1> DEFINE old == s.cont[a]
             c == [old EXCEPT !.live = FALSE]
  <1>1. [s EXCEPT !.cont[a].live = FALSE] = WithCont(s, a, c)
    BY Zenon, StoreParts DEF WithCont
  <1>2. old \in ContinuationRows
    BY Zenon, StoreParts
  <1>3. c \in ContinuationRows /\ c.status = old.status
    BY Zenon, <1>2 DEF ContinuationRows
  <1> HIDE DEF c
  <1>4. c.status # "applied" \/ Applied(s, a)
    BY Zenon, <1>3 DEF Applied
  <1>5. Keeps(s, WithCont(s, a, c))
    BY <1>3, <1>4, ContKept DEF Keeps
  <1> QED BY Zenon, <1>1, <1>5

(* ApplyContinuation applies the row its caller still holds, once. *)
LEMMA ApplyKept ==
  ASSUME NEW s \in Stores, StoreInv(s), NEW a \in Approvals, s.cont[a] # None, NEW read, NEW p
  PROVE  LET c == Conts!ApplyContinuationPostgres(s.cont[a], read, p)
             r == [s EXCEPT !.cont[a] = c]
         IN  /\ r \in Stores /\ StoreInv(r) /\ StoreForward(s, r)
             /\ \A x \in Approvals : x # a => SameOutcome(s, r, x)
             /\ r.app = s.app /\ (c.status = "applied" => Applied(r, a))
             /\ Applied(s, a) => c = s.cont[a]
             /\ c # s.cont[a] => c.status = "applied"
  <1> DEFINE old == s.cont[a]
             c == Conts!ApplyContinuationPostgres(old, read, p)
             r == WithCont(s, a, c)
  <1>1. [s EXCEPT !.cont[a] = c] = r
    BY Zenon DEF WithCont
  <1>2. old \in ContinuationRows
    BY StoreParts
  <1>3. c \in ContinuationRows /\ (c = old \/ (old.status # "applied" /\ c.status = "applied"))
    BY Zenon, <1>2 DEF ContinuationRows, Conts!ApplyContinuationPostgres, Conts!FinishContinuation
  <1>4. c # None
    BY Zenon, <1>3, RowAssumption
  <1> HIDE DEF c
  <1>5. s.cont[a].status = "applied" => c.status = "applied"
    BY Zenon, <1>3
  <1>6. /\ r \in Stores /\ StoreInv(r) /\ StoreForward(s, r)
        /\ \A x \in Approvals : x # a => SameOutcome(s, r, x)
        /\ r.app = s.app /\ r.cont[a] = c
    BY <1>3, <1>5, ContKept
  <1>7. c.status = "applied" => Applied(r, a)
    BY Zenon, <1>4, <1>6 DEF Applied
  <1>8. Applied(s, a) => c = old
    BY Zenon, <1>3 DEF Applied
  <1> HIDE DEF r
  <1> QED BY Zenon, <1>1, <1>3, <1>6, <1>7, <1>8 DEF c

(* The mapping of an interrupt, and the switch away from it *)
LEMMA BindKept ==
  ASSUME NEW s \in Stores, StoreInv(s), NEW a \in Approvals, s.app[a] # None
  PROVE  Keeps(s, BindInterruptMappingPostgres(s, a))
  <1> DEFINE row == s.app[a]
             rec == [row EXCEPT !.mapped = TRUE]
  <1>1. CASE row.mode = "interrupt" /\ row.status = "pending" /\ ~row.mapped
    <2>1. BindInterruptMappingPostgres(s, a) = WithApp(s, a, rec)
      BY Zenon, <1>1 DEF BindInterruptMappingPostgres, WithApp
    <2>2. row \in ApprovalRows
      BY Zenon, StoreParts
    <2>3. rec \in ApprovalRows /\ rec.status = "pending" /\ rec.key = row.key
      BY Zenon, <1>1, <2>2 DEF ApprovalRows
    <2> HIDE DEF rec
    <2>4. row.key = None
      BY Zenon, <1>1 DEF StoreInv, Decided
    <2> QED BY <1>1, <2>1, <2>3, <2>4, AppKept
  <1>2. CASE ~(row.mode = "interrupt" /\ row.status = "pending" /\ ~row.mapped)
    BY Zenon, <1>2, KeepsSame DEF BindInterruptMappingPostgres
  <1> QED BY Zenon, <1>1, <1>2

(* The transaction writes the approval and the outbox, as the memory store does. *)
LEMMA AppRowWritten ==
  ASSUME NEW s \in Stores, NEW a, NEW rec, NEW box
  PROVE  WithAppRow(s, a, rec, box) = Tables([s.app EXCEPT ![a] = rec], s.cont, box, s.batch)
  <1> DEFINE A == [s.app EXCEPT ![a] = rec]
  <1>1. WithAppRow(s, a, rec, box) = [s EXCEPT !.app = A, !.box = box]
    BY Zenon DEF WithAppRow
  <1> HIDE DEF A
  <1> DEFINE X == [app : {A}, cont : {s.cont}, box : {box}, batch : {s.batch}]
             l == [s EXCEPT !.app = A, !.box = box]
             r == Tables(A, s.cont, box, s.batch)
  <1>2. l \in X /\ r \in X
    BY Zenon DEF Stores, Tables
  <1> HIDE DEF l, r
  <1>3. l = r
    BY <1>2
  <1> QED BY Zenon, <1>1, <1>3 DEF A, l, r

(* So it does with the continuation. *)
LEMMA RowsWritten ==
  ASSUME NEW s \in Stores, NEW a, NEW rec, NEW cont, NEW box
  PROVE  WithRows(s, a, rec, cont, box) = Tables([s.app EXCEPT ![a] = rec], [s.cont EXCEPT ![a] = cont], box, s.batch)
  <1> DEFINE A == [s.app EXCEPT ![a] = rec]
             C == [s.cont EXCEPT ![a] = cont]
  <1>1. [s EXCEPT !.app[a] = rec] = WithApp(s, a, rec) /\ WithApp(s, a, rec).cont = s.cont
    BY Zenon DEF WithApp, Stores
  <1>2. WithRows(s, a, rec, cont, box) = [s EXCEPT !.app = A, !.cont = C, !.box = box]
    BY Zenon, <1>1 DEF WithApp, WithRows
  <1> HIDE DEF A, C
  <1> DEFINE X == [app : {A}, cont : {C}, box : {box}, batch : {s.batch}]
             l == [s EXCEPT !.app = A, !.cont = C, !.box = box]
             r == Tables(A, C, box, s.batch)
  <1>3. l \in X /\ r \in X
    BY Zenon DEF Stores, Tables
  <1> HIDE DEF l, r
  <1>4. l = r
    BY <1>3
  <1> QED BY Zenon, <1>2, <1>4 DEF A, C, l, r

(* SwitchToDurableFallback, before the decision *)
LEMMA SwitchKept ==
  ASSUME NEW s \in Stores, StoreInv(s), NEW a \in Approvals, s.app[a] # None, NEW epoch \in Nat
  PROVE  Keeps(s, SwitchToDurableFallbackPostgres(s, a, epoch, FALSE))
  <1> DEFINE row == s.app[a]
             rec == [row EXCEPT !.mode = "fallback", !.epoch = epoch + 1]
             id == FallbackRow(a, rec)
             q == WithApp(s, a, rec)
  <1>1. CASE row.mode = "interrupt" /\ row.epoch = epoch /\ row.status = "pending"
    <2>1. SwitchToDurableFallbackPostgres(s, a, epoch, FALSE) = WithBox(q, AddRow(s.box, id))
      <3>1. SwitchToDurableFallbackPostgres(s, a, epoch, FALSE)
              = Tables([s.app EXCEPT ![a] = rec], s.cont, AddRow(s.box, id), s.batch)
        BY Zenon, <1>1 DEF SwitchToDurableFallbackPostgres, Tables
      <3> HIDE DEF rec, id
      <3> DEFINE box == AddRow(s.box, id)
      <3> HIDE DEF box
      <3>2. WithAppRow(s, a, rec, box) = Tables([s.app EXCEPT ![a] = rec], s.cont, box, s.batch)
        BY AppRowWritten
      <3> QED BY Zenon, <3>1, <3>2 DEF WithAppRow, WithApp, WithBox, box
    <2>2. row \in ApprovalRows
      BY Zenon, StoreParts
    <2>3. rec \in ApprovalRows /\ rec.status = "pending" /\ rec.epoch \in Nat /\ rec.key = None
      <3>1. row.status = "pending" /\ epoch + 1 \in Nat /\ row.key = None
        BY <1>1 DEF StoreInv, Decided
      <3> HIDE DEF row
      <3> QED BY Zenon, <2>2, <3>1 DEF ApprovalRows
    <2> HIDE DEF rec
    <2>4. id \in RowIds /\ id.type = "fallback"
      BY Zenon, <2>3 DEF FallbackRow, RowIds
    <2> HIDE DEF id
    <2>5. Keeps(s, q) /\ q.cont = s.cont /\ q.box = s.box
      BY Zenon, <1>1, <2>3, AppKept
    <2> HIDE DEF q
    <2>6. s.box \in Boxes
      BY Zenon, StoreParts
    <2>7. AddRow(s.box, id) \in Boxes /\ DOMAIN AddRow(s.box, id) = DOMAIN s.box \cup {id}
      BY Zenon, <2>4, <2>6, RowAdded
    <2>8. \A x \in DOMAIN AddRow(s.box, id) : x.type # "fallback" => q.cont[x.app] # None
      BY Zenon, <2>4, <2>5, <2>7 DEF StoreInv
    <2>9. Keeps(q, WithBox(q, AddRow(s.box, id)))
      BY Zenon, <2>5, <2>7, <2>8, BoxKept DEF Keeps
    <2> QED BY Zenon, <2>1, <2>5, <2>9, KeepsOn
  <1>2. CASE ~(row.mode = "interrupt" /\ row.epoch = epoch /\ row.status = "pending")
    BY Zenon, <1>2, KeepsSame DEF SwitchToDurableFallbackPostgres
  <1> QED BY Zenon, <1>1, <1>2

(* CreateCandidateApprovalBatch *)
LEMMA BatchKept ==
  ASSUME NEW s \in Stores, StoreInv(s), NEW k \in BatchKeys, NEW S \in SUBSET Reviewable,
         \A a \in S \cap Approvals : s.app[a] # None
  PROVE  LET r == CreateCandidateApprovalBatchPostgres(s, k, S)
         IN  Keeps(s, r) /\ r.app = s.app /\ r.cont = s.cont /\ r.batch[k] = IF s.batch[k] = None THEN S ELSE s.batch[k]
  <1> DEFINE F == [x \in BatchKeys |-> IF x = k /\ s.batch[x] = None THEN S ELSE s.batch[x]]
             r == CreateCandidateApprovalBatchPostgres(s, k, S)
  <1>1. r = [s EXCEPT !.batch = F]
    BY Zenon DEF CreateCandidateApprovalBatchPostgres
  <1>2. F \in [BatchKeys -> (SUBSET Reviewable) \cup {None}] /\ F[k] = IF s.batch[k] = None THEN S ELSE s.batch[k]
    BY Zenon, StoreParts
  <1>6. \A x \in BatchKeys : F[x] # None => \A a \in F[x] \cap Approvals : s.app[a] # None
    BY Zenon DEF StoreInv
  <1> HIDE DEF F
  <1>3. r \in Stores /\ r.app = s.app /\ r.cont = s.cont /\ r.box = s.box /\ r.batch = F
    BY Zenon, <1>1, <1>2 DEF Stores
  <1> HIDE DEF r
  <1>4. StoreInv(r)
    BY <1>3, <1>6 DEF StoreInv, Decided, PendingPrimary, Existing
  <1>5. StoreForward(s, r) /\ \A a \in Approvals : SameOutcome(s, r, a)
    BY Zenon, <1>3 DEF StoreForward, SameOutcome, Decided, Applied
  <1> QED BY Zenon, <1>2, <1>3, <1>4, <1>5 DEF Keeps, r

(* Create: the partial unique index lets one pending primary review in. *)
LEMMA ApprovalCreated ==
  ASSUME NEW s \in Stores, StoreInv(s), NEW a \in Approvals, NEW mode \in {"durable", "interrupt"}
  PROVE  LET r == CreatePostgres(s, a, mode)
         IN  /\ r \in Stores /\ StoreInv(r) /\ StoreForward(s, r)
             /\ \A x \in Approvals : x # a => SameOutcome(s, r, x)
             /\ Applied(r, a) => Applied(s, a)
             /\ \/ s.app[a] # None /\ r = s
                \/ s.app[a] = None /\ r.app[a] = None
                \/ s.app[a] = None /\ r.app[a] # None /\ r.app[a].status = "pending"
             /\ ~Primary(a) => r.app[a] # None
  <1> DEFINE rec == NewApproval(mode)
             new == [s.app EXCEPT ![a] = rec]
             r == CreatePostgres(s, a, mode)
  <1>0. StoreForward(s, s) /\ \A x \in Approvals : SameOutcome(s, s, x)
    BY Zenon, KeepsSame DEF Keeps
  <1>1. rec \in ApprovalRows /\ rec.status = "pending" /\ rec.key = None
    BY Zenon DEF NewApproval, ApprovalRows
  <1>2. rec # None
    BY Zenon, <1>1, RowAssumption
  <1> HIDE DEF rec
  <1>3. s.app \in [Approvals -> ApprovalRows \cup {None}]
    BY Zenon, StoreParts
  <1>4. /\ new \in [Approvals -> ApprovalRows \cup {None}] /\ new[a] = rec
        /\ \A x \in Approvals : x # a => new[x] = s.app[x]
    BY Zenon, <1>1, <1>3
  <1>5. r = IF s.app[a] # None \/ ~AtMostOne(PrimaryIndex(new)) THEN s ELSE [s EXCEPT !.app = new]
    BY Zenon DEF CreatePostgres, rec
  <1> HIDE DEF new
  <1> DEFINE old == PendingPrimary(s)
  <1>6. AtMostOne(old) /\ (s.app[a] = None => a \notin old)
    BY Zenon DEF StoreInv, PendingPrimary, Existing
  <1>7. s.app[a] = None => PrimaryIndex(new) = IF Primary(a) THEN old \cup {a} ELSE old
    BY <1>1, <1>2, <1>3, <1>4 DEF PrimaryIndex, PendingPrimary, Existing, Primary
  <1> HIDE DEF old
  <1>8. s.app[a] = None /\ ~Primary(a) => AtMostOne(PrimaryIndex(new))
    BY Zenon, <1>6, <1>7
  <1>9. CASE s.app[a] # None
    BY Zenon, <1>0, <1>5, <1>9
  <1>10. CASE s.app[a] = None /\ ~AtMostOne(PrimaryIndex(new))
    <2>1. r = s
      BY Zenon, <1>5, <1>10
    <2> HIDE DEF r
    <2> QED BY Zenon, <1>0, <1>8, <1>10, <2>1 DEF r
  <1>11. CASE s.app[a] = None /\ AtMostOne(PrimaryIndex(new))
    <2>1. r = [s EXCEPT !.app = new]
      BY Zenon, <1>5, <1>11
    <2>2. r \in Stores /\ r.app = new /\ r.cont = s.cont /\ r.box = s.box /\ r.batch = s.batch
      BY Zenon, <1>4, <2>1 DEF Stores
    <2> HIDE DEF r
    <2>3. \A x \in Approvals : Decided(r, x) <=> Decided(s, x)
      BY Zenon, <1>1, <1>4, <1>11, <2>2 DEF Decided
    <2>4. PendingPrimary(r) = PrimaryIndex(new)
      BY Zenon, <1>4, <2>2 DEF PendingPrimary, PrimaryIndex, Existing, Primary
    <2>6. \A x \in Approvals : Decided(r, x) => x # a
      BY Zenon, <1>1, <1>4, <2>2 DEF Decided
    <2>7. StoreInv(r)
      BY SMTT(30), <1>1, <1>2, <1>4, <1>11, <2>2, <2>3, <2>4, <2>6 DEF StoreInv
    <2>8. StoreForward(s, r)
      BY Zenon, <1>2, <1>4, <1>11, <2>2 DEF StoreForward, Decided, Applied
    <2>9. \A x \in Approvals : x # a => SameOutcome(s, r, x)
      BY Zenon, <1>4, <2>2 DEF SameOutcome, Applied
    <2>10. Applied(r, a) => Applied(s, a)
      BY Zenon, <2>2 DEF Applied
    <2>11. r.app[a] # None /\ r.app[a].status = "pending"
      BY Zenon, <1>1, <1>2, <1>4, <2>2
    <2> QED BY Zenon, <1>11, <2>2, <2>7, <2>8, <2>9, <2>10, <2>11 DEF r
  <1> QED BY Zenon, <1>9, <1>10, <1>11

(* An approval of nothing this session reviews is nobody's. *)
LEMMA NothingCreated ==
  ASSUME NEW s \in Stores, NEW a, a \notin Approvals, NEW mode
  PROVE  CreatePostgres(s, a, mode) = s
  <1>1. [s.app EXCEPT ![a] = NewApproval(mode)] = s.app
    BY Zenon, StoreParts
  <1>2. [s EXCEPT !.app = s.app] = s
    BY Zenon DEF Stores
  <1> QED BY Zenon, <1>1, <1>2 DEF CreatePostgres

(* Decide: the decision and its continuation in one transaction *)
LEMMA DecisionMade ==
  ASSUME NEW s \in Stores, StoreInv(s), NEW a \in Approvals, s.app[a] # None, NEW req \in DecisionRequests
  PROVE  LET r == DecidePostgres(s, a, req)
             outcome == DecideOutcome(s, a, req)
         IN  /\ r \in Stores /\ StoreInv(r) /\ StoreForward(s, r)
             /\ \A x \in Approvals : x # a => SameOutcome(s, r, x)
             /\ outcome = "decided" => /\ s.app[a].status = "pending" /\ r.app[a] # None
                                       /\ r.app[a].status = Effective(req) /\ ~Applied(r, a)
             /\ outcome # "decided" => r = s
             /\ outcome \notin {"conflict", "refused"} => r.cont[a] # None
  <1> DEFINE owners == {x \in Existing(s) : s.app[x].key = req.key}
             row == s.app[a]
             rec == PrepareDecision(row, req)
             c == NewContinuation(rec)
             id == DecisionRow(a, c)
             r == DecidePostgres(s, a, req)
             outcome == DecideOutcome(s, a, req)
  <1>0. row \in ApprovalRows /\ StoreForward(s, s) /\ \A x \in Approvals : SameOutcome(s, s, x)
    BY Zenon, StoreParts, KeepsSame DEF Keeps
  <1>k. req.key \in DecisionKeys /\ req.asked \in Asked \cup {"approve"} /\ req.seen \in BOOLEAN
    BY Zenon DEF DecisionRequests
  <1>1. outcome = CASE owners # {} -> IF a \in owners /\ SameDecisionRequest(row, req) THEN "replay" ELSE "conflict"
                    [] owners = {} /\ ~CanPrepare(row) -> "refused"
                    [] OTHER -> "decided"
    BY Zenon DEF DecideOutcome
  <1>2. (\E b \in Approvals : s.app[b] # None /\ s.app[b].key = req.key) <=> owners # {}
    BY Zenon DEF Existing
  <1>3. CASE outcome # "decided"
    <2>1. r = s
      BY Zenon, <1>1, <1>2, <1>3 DEF DecidePostgres
    <2>2. outcome \notin {"conflict", "refused"} => s.cont[a] # None
      <3> SUFFICES ASSUME outcome \notin {"conflict", "refused"} PROVE s.cont[a] # None
        BY Zenon
      <3>1. row.key = req.key /\ SameDecisionRequest(row, req)
        BY Zenon, <1>1, <1>3
      <3>2. row.key # None
        BY Zenon, <1>k, <3>1, RowAssumption
      <3> QED BY Zenon, <3>2 DEF StoreInv
    <2> HIDE DEF r, outcome
    <2> QED BY Zenon, <1>0, <1>3, <2>1, <2>2 DEF r, outcome
  <1>4. CASE outcome = "decided"
    <2>1. owners = {} /\ CanPrepare(row)
      BY Zenon, <1>1, <1>4
    <2>2. r = [app |-> [s.app EXCEPT ![a] = rec], cont |-> [s.cont EXCEPT ![a] = c],
               box |-> AddRow(s.box, id), batch |-> s.batch]
      BY Zenon, <1>2, <2>1 DEF DecidePostgres
    <2>3. /\ rec \in ApprovalRows /\ rec.status = Effective(req) /\ rec.status # "pending"
          /\ rec.seen = req.seen /\ rec.epoch \in Nat
      <3>1. Effective(req) \in {"approved", "rejected", "stale"}
        BY Zenon DEF Effective
      <3>2. rec = [row EXCEPT !.status = Effective(req), !.key = req.key, !.asked = req.asked, !.seen = req.seen]
        BY Zenon DEF PrepareDecision
      <3> HIDE DEF row, rec
      <3> QED BY Zenon, <1>0, <1>k, <3>1, <3>2 DEF ApprovalRows
    <2> HIDE DEF rec
    <2>4. c \in ContinuationRows /\ c.status = "requested" /\ c.epoch \in Nat
      BY Zenon, <2>3 DEF NewContinuation, ContinuationRows
    <2> HIDE DEF c
    <2>5. id \in RowIds /\ id.app = a
      BY Zenon, <2>4 DEF DecisionRow, RowIds
    <2> HIDE DEF id
    <2>6. rec # None /\ c # None
      BY Zenon, <2>3, <2>4, RowAssumption
    <2>7. AddRow(s.box, id) \in Boxes /\ DOMAIN AddRow(s.box, id) = DOMAIN s.box \cup {id}
      BY ZenonT(60), <2>5, StoreParts, RowAdded
    <2>8. /\ s.app \in [Approvals -> ApprovalRows \cup {None}] /\ s.cont \in [Approvals -> ContinuationRows \cup {None}]
          /\ s.batch \in [BatchKeys -> (SUBSET Reviewable) \cup {None}]
      BY Zenon, StoreParts
    <2>9. /\ r \in Stores /\ r.box = AddRow(s.box, id) /\ r.app[a] = rec /\ r.cont[a] = c
          /\ \A x \in Approvals : x # a => r.app[x] = s.app[x] /\ r.cont[x] = s.cont[x]
          /\ r.batch = s.batch
      BY <2>2, <2>3, <2>4, <2>7, <2>8 DEF Stores
    <2> HIDE DEF r
    <2>10. row.status = "pending" /\ ~Decided(s, a) /\ s.cont[a] = None
      BY Zenon, <2>1 DEF CanPrepare, Decided, StoreInv
    <2>11. StoreInv(r)
      <3>1. \A x \in Approvals : r.cont[x] # None <=> Decided(r, x)
        BY <2>3, <2>6, <2>9 DEF StoreInv, Decided
      <3>2. \A x \in Approvals : Decided(r, x) => (r.app[x].status = "stale" <=> ~r.app[x].seen)
        BY <2>3, <2>9 DEF StoreInv, Decided, Effective
      <3>3. \A x \in Approvals : r.app[x] # None => Decided(r, x) \/ r.app[x].key = None
        BY <2>3, <2>9 DEF StoreInv, Decided
      <3>4. \A x \in DOMAIN r.box : x.type # "fallback" => r.cont[x.app] # None
        <4>1. \A x \in DOMAIN s.box : x.app \in Approvals
          BY StoreParts, BoxParts DEF RowIds
        <4> QED BY Zenon, <2>5, <2>6, <2>7, <2>9, <4>1 DEF StoreInv
      <3>5. PendingPrimary(r) \subseteq PendingPrimary(s)
        BY Zenon, <2>3, <2>9 DEF PendingPrimary, Existing
      <3>6. \A x \in Approvals : s.app[x] # None => r.app[x] # None
        BY Zenon, <2>6, <2>9
      <3> QED BY <2>9, <3>1, <3>2, <3>3, <3>4, <3>5, <3>6 DEF StoreInv, AtMostOne
    <2>12. StoreForward(s, r)
      BY Zenon, <2>6, <2>9, <2>10 DEF StoreForward, Decided, Applied
    <2>13. \A x \in Approvals : x # a => SameOutcome(s, r, x)
      BY Zenon, <2>9 DEF SameOutcome, Applied
    <2>14. ~Applied(r, a)
      BY Zenon, <2>4, <2>9 DEF Applied
    <2> HIDE DEF outcome
    <2> QED BY Zenon, <1>4, <2>3, <2>6, <2>9, <2>10, <2>11, <2>12, <2>13, <2>14 DEF r, outcome
  <1> QED BY Zenon, <1>3, <1>4

-----------------------------------------------------------------------------
(* The memory store and the Postgres store *)

(* Create: the unique index refuses what the memory store counts. *)
LEMMA CreatesAgree ==
  ASSUME NEW s \in Stores, StoreInv(s), NEW a \in Approvals, NEW mode \in {"durable", "interrupt"}
  PROVE  Create(s, a, mode) = CreatePostgres(s, a, mode)
  <1> DEFINE rec == NewApproval(mode)
             app == [s.app EXCEPT ![a] = rec]
  <1>1. rec.status = "pending" /\ rec # None
    <2>1. rec \in ApprovalRows /\ rec.status = "pending"
      BY Zenon DEF NewApproval, ApprovalRows
    <2> QED BY Zenon, <2>1, RowAssumption
  <1> HIDE DEF rec
  <1>2. /\ DOMAIN app = Approvals /\ app[a] = rec /\ \A x \in Approvals \ {a} : app[x] = s.app[x]
    BY Zenon, StoreParts
  <1>3. [s EXCEPT !.app[a] = rec] = [s EXCEPT !.app = app]
    BY Zenon
  <1> HIDE DEF app
  <1>4. CASE s.app[a] # None
    BY Zenon, <1>4 DEF Create, CreatePostgres, CreateOutcome
  <1>5. CASE s.app[a] = None /\ Primary(a) /\ PendingPrimary(s) # {}
    <2>1. PICK b \in PendingPrimary(s) : TRUE
      BY Zenon, <1>5
    <2>2. b \in Approvals /\ b # a /\ s.app[b] # None /\ s.app[b].status = "pending" /\ b[1] \in {"spec", "plan"}
      BY Zenon, <1>5, <2>1 DEF PendingPrimary, Existing, Primary
    <2>3. a \in PrimaryIndex(app) /\ b \in PrimaryIndex(app)
      BY Zenon, <1>1, <1>2, <1>5, <2>2 DEF PrimaryIndex, Primary
    <2>4. ~AtMostOne(PrimaryIndex(app))
      BY Zenon, <2>2, <2>3 DEF AtMostOne
    <2>5. CreateOutcome(s, a) # "created"
      BY Zenon, <1>5 DEF CreateOutcome
    <2> QED BY Zenon, <2>4, <2>5 DEF Create, CreatePostgres, app, rec
  <1>6. CASE s.app[a] = None /\ ~(Primary(a) /\ PendingPrimary(s) # {})
    <2>1. \A x \in PrimaryIndex(app) : x \in PendingPrimary(s) \/ (x = a /\ PendingPrimary(s) = {})
      BY Zenon, <1>2, <1>6 DEF PrimaryIndex, PendingPrimary, Existing, Primary
    <2>2. AtMostOne(PrimaryIndex(app))
      BY Zenon, <2>1 DEF AtMostOne, StoreInv
    <2>3. CreateOutcome(s, a) = "created"
      BY Zenon, <1>6 DEF CreateOutcome
    <2> QED BY Zenon, <1>3, <1>6, <2>2, <2>3 DEF Create, CreatePostgres, app, rec
  <1> QED BY Zenon, <1>4, <1>5, <1>6

(* Decide finds the key, or prepares the same rows. *)
LEMMA DecidesAgree ==
  ASSUME NEW s \in Stores, NEW a \in Existing(s), NEW req
  PROVE  Decide(s, a, req) = DecidePostgres(s, a, req)
  <1> DEFINE known == \E b \in Approvals : s.app[b] # None /\ s.app[b].key = req.key
             rec == PrepareDecision(s.app[a], req)
             cont == NewContinuation(rec)
             box == AddRow(s.box, DecisionRow(a, cont))
  <1>1. {b \in Existing(s) : s.app[b].key = req.key} # {} <=> known
    BY Zenon DEF Existing
  <1>2. DecideOutcome(s, a, req) = "decided" <=> ~known /\ CanPrepare(s.app[a])
    BY Zenon, <1>1 DEF DecideOutcome
  <1>3. Decide(s, a, req) = IF DecideOutcome(s, a, req) # "decided" THEN s
                            ELSE WithRows(s, a, rec, cont, box)
    BY Zenon DEF Decide, WithRows
  <1>4. DecidePostgres(s, a, req) = IF known \/ ~CanPrepare(s.app[a]) THEN s
          ELSE Tables([s.app EXCEPT ![a] = rec], [s.cont EXCEPT ![a] = cont], box, s.batch)
    BY Zenon DEF DecidePostgres, Tables
  <1> HIDE DEF known, rec, cont, box
  <1>5. WithRows(s, a, rec, cont, box) = Tables([s.app EXCEPT ![a] = rec], [s.cont EXCEPT ![a] = cont], box, s.batch)
    BY RowsWritten
  <1> QED BY Zenon, <1>2, <1>3, <1>4, <1>5

(* An outbox row is marked alike. *)
LEMMA RowsAgree ==
  ASSUME NEW s \in Stores, NEW r \in DOMAIN s.box, NEW max \in Nat
  PROVE  /\ MarkOutboxPublished(s, r) = MarkOutboxPublishedPostgres(s, r)
         /\ MarkOutboxFailed(s, r, max) = MarkOutboxFailedPostgres(s, r, max)
  <1> DEFINE B == s.box
             M == [x \in DOMAIN B |-> IF x = r /\ Undelivered(B[x]) THEN [B[x] EXCEPT !.status = "published"] ELSE B[x]]
             n == B[r].attempts
  <1>1. B = [x \in DOMAIN B |-> B[x]] /\ n \in Nat /\ MaxDelivery \in Nat
    BY Zenon, StoreParts, BoxParts, ApprovalAssumption DEF OutboxRows
  <1>2. M = IF Undelivered(B[r]) THEN [B EXCEPT ![r].status = "published"] ELSE B
    BY Zenon, <1>1
  <1>3. s = [s EXCEPT !.box = B]
    BY StoreParts
  <1>4. MarkOutboxPublished(s, r) = MarkOutboxPublishedPostgres(s, r)
    BY Zenon, <1>2, <1>3 DEF MarkOutboxPublished, MarkOutboxPublishedPostgres
  <1>5. (IF n + 1 > MaxDelivery THEN MaxDelivery ELSE n + 1) = (IF n < MaxDelivery THEN n + 1 ELSE MaxDelivery)
    BY <1>1
  <1>6. MarkOutboxFailed(s, r, max) = MarkOutboxFailedPostgres(s, r, max)
    BY Zenon, <1>5 DEF MarkOutboxFailed, MarkOutboxFailedPostgres
  <1> QED BY Zenon, <1>4, <1>6

(* The switch to the durable path *)
LEMMA SwitchesAgree ==
  ASSUME NEW s \in Stores, StoreInv(s), NEW a \in Existing(s), NEW e \in Nat, NEW decided \in BOOLEAN
  PROVE  SwitchToDurableFallback(s, a, e, decided) = SwitchToDurableFallbackPostgres(s, a, e, decided)
  <1> DEFINE row == s.app[a]
             c == s.cont[a]
             open == decided => c.status \in {"requested", "failed"} \/ (c.status = "claimed" /\ ~c.live)
             fits == row.mode = "interrupt" /\ row.epoch = e /\ (row.status # "pending" <=> decided) /\ open
             next == [row EXCEPT !.mode = "fallback", !.epoch = e + 1]
             cont == FallbackContinuation(c, e + 1)
             id == IF decided THEN DecisionRow(a, cont) ELSE FallbackRow(a, next)
             box == AddRow(s.box, id)
  <1>1. a \in Approvals /\ row # None /\ (Decided(s, a) <=> row.status # "pending") /\ row \in ApprovalRows
    BY Zenon, StoreParts DEF Existing, Decided
  <1>2. c # None => c.status \in {"requested", "claimed", "applied", "failed"}
    BY Zenon, <1>1, StoreParts DEF ContinuationRows
  <1>3. FallbackOutcome(s, a, e, decided) = "switched" <=> fits
    <2>1. decided /\ row.status # "pending" => c.status \in {"requested", "claimed", "applied", "failed"}
      BY Zenon, <1>1, <1>2 DEF StoreInv
    <2> HIDE DEF row, c
    <2>2. FallbackOutcome(s, a, e, decided)
            = IF row.mode = "fallback" /\ row.epoch = e + 1 /\ (Decided(s, a) <=> decided) THEN "replay"
              ELSE IF row.mode # "interrupt" \/ row.epoch # e \/ ~(Decided(s, a) <=> decided) THEN "fenced"
              ELSE IF decided /\ c.status = "applied" THEN "fenced"
              ELSE IF decided /\ c.status = "claimed" /\ c.live THEN "busy"
              ELSE "switched"
      BY Zenon DEF FallbackOutcome, row, c
    <2> QED BY ZenonT(60), <1>1, <2>1, <2>2
  <1>4. CASE ~fits
    BY Zenon, <1>3, <1>4 DEF SwitchToDurableFallback, SwitchToDurableFallbackPostgres
  <1>5. CASE fits
    <2>1. next = [row EXCEPT !.mode = "fallback", !.epoch = @ + 1] /\ next.epoch = e + 1
      BY ZenonT(60), <1>1, <1>5 DEF ApprovalRows
    <2>2. SwitchToDurableFallback(s, a, e, decided)
            = IF decided THEN WithRows(s, a, next, cont, box) ELSE WithAppRow(s, a, next, box)
      <3> HIDE DEF fits
      <3>1. FallbackOutcome(s, a, e, decided) = "switched"
        BY Zenon, <1>3, <1>5
      <3> DEFINE new == [row EXCEPT !.mode = "fallback", !.epoch = @ + 1]
                 goes == FallbackContinuation(c, new.epoch)
      <3>2. SwitchToDurableFallback(s, a, e, decided)
              = IF decided THEN WithRows(s, a, new, goes, AddRow(s.box, DecisionRow(a, goes)))
                           ELSE WithAppRow(s, a, new, AddRow(s.box, FallbackRow(a, new)))
        BY Zenon, <3>1 DEF SwitchToDurableFallback, WithRows, WithAppRow
      <3>3. new = next /\ goes = cont
        BY Zenon, <2>1
      <3> HIDE DEF new, goes, next, cont
      <3> QED BY Zenon, <3>2, <3>3
    <2>3. SwitchToDurableFallbackPostgres(s, a, e, decided)
            = Tables([s.app EXCEPT ![a] = next], IF decided THEN [s.cont EXCEPT ![a] = cont] ELSE s.cont, box, s.batch)
      BY Zenon, <1>1, <1>5, StoreParts DEF SwitchToDurableFallbackPostgres, Tables
    <2> HIDE DEF next, cont, box
    <2>4. /\ WithRows(s, a, next, cont, box) = Tables([s.app EXCEPT ![a] = next], [s.cont EXCEPT ![a] = cont], box, s.batch)
          /\ WithAppRow(s, a, next, box) = Tables([s.app EXCEPT ![a] = next], s.cont, box, s.batch)
      BY RowsWritten, AppRowWritten
    <2> QED BY Zenon, <2>2, <2>3, <2>4
  <1> QED BY Zenon, <1>4, <1>5

(* The two approval stores, and the two session runtime stores, do the same. *)
LEMMA ApprovalStoresAgree ==
  ASSUME NEW s \in Stores, StoreInv(s)
  PROVE  ApprovalsAgree(s) /\ ContinuationsAgree(s)
  <1>1. ASSUME NEW a \in Existing(s)
        PROVE  BindInterruptMapping(s, a) = BindInterruptMappingPostgres(s, a)
    BY Zenon DEF BindInterruptMapping, BindInterruptMappingPostgres, CanBind
  <1>2. ASSUME NEW a \in Existing(s), NEW e \in Nat, NEW decided \in BOOLEAN
        PROVE  SwitchToDurableFallback(s, a, e, decided) = SwitchToDurableFallbackPostgres(s, a, e, decided)
    BY Zenon, SwitchesAgree
  <1>3. ApprovalsAgree(s)
    BY <1>1, <1>2, CreatesAgree, DecidesAgree, RowsAgree, ApprovalAssumption DEF ApprovalsAgree
  <1>4. ASSUME NEW a \in Approvals, NEW p \in Procs, s.cont[a] # None
        PROVE  LET c == s.cont[a]
               IN  /\ Conts!ClaimContinuation(c, c, p) = Conts!ClaimContinuationPostgres(c, c, p)
                   /\ Conts!ApplyContinuation(c, c, p) = Conts!ApplyContinuationPostgres(c, c, p)
                   /\ Conts!FailContinuation(c, c, p) = Conts!FailContinuationPostgres(c, c, p)
    <2> DEFINE c == s.cont[a]
    <2>1. c \in ContinuationRows
      BY Zenon, <1>4, StoreParts
    <2> HIDE DEF c
    <2>2. Conts!ClaimContinuation(c, c, p) = Conts!ClaimContinuationPostgres(c, c, p)
      <3>1. Conts!ClaimOutcome(c, c) = "claimed" <=> c.status # "applied" /\ (c.status = "claimed" => ~c.live)
        <4>1. CASE c.status = "applied"
          BY Zenon, <4>1 DEF Conts!ClaimOutcome, Conts!Fits
        <4>2. CASE c.status = "claimed" /\ c.live
          BY Zenon, <4>2 DEF Conts!ClaimOutcome, Conts!Fits
        <4>3. CASE c.status # "applied" /\ ~(c.status = "claimed" /\ c.live)
          BY Zenon, <4>3 DEF Conts!ClaimOutcome, Conts!Fits
        <4> QED BY Zenon, <4>1, <4>2, <4>3
      <3>2. ASSUME NEW live
            PROVE  [c EXCEPT !.status = "claimed", !.owner = p, !.live = live]
                     = [status |-> "claimed", exec |-> c.exec, epoch |-> c.epoch, owner |-> p, live |-> live]
        <4> DEFINE X == [status : {"claimed"}, exec : {c.exec}, epoch : {c.epoch}, owner : {p}, live : {live}]
                   l == [c EXCEPT !.status = "claimed", !.owner = p, !.live = live]
                   r == [status |-> "claimed", exec |-> c.exec, epoch |-> c.epoch, owner |-> p, live |-> live]
        <4>1. l \in X /\ r \in X
          BY Zenon, <2>1 DEF ContinuationRows
        <4> HIDE DEF l, r
        <4>2. l = r
          BY <4>1
        <4> QED BY Zenon, <4>2 DEF l, r
      <3> QED BY Zenon, <3>1, <3>2 DEF Conts!ClaimContinuation, Conts!ClaimContinuationPostgres
    <2>3. /\ Conts!ApplyContinuation(c, c, p) = Conts!ApplyContinuationPostgres(c, c, p)
          /\ Conts!FailContinuation(c, c, p) = Conts!FailContinuationPostgres(c, c, p)
      BY Zenon DEF Conts!ApplyContinuation, Conts!ApplyContinuationPostgres, Conts!FailContinuation,
             Conts!FailContinuationPostgres, Conts!FinishContinuation, Conts!HoldsClaim, Conts!Fits
    <2> QED BY Zenon, <2>2, <2>3 DEF c
  <1> QED BY Zenon, <1>3, <1>4 DEF ContinuationsAgree
=============================================================================
