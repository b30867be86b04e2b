--------------------------- MODULE StoreInvariant ---------------------------
(***************************************************************************)
(* The types of the approval tables (ApprovalStore), the invariant they    *)
(* keep, and what no operation on them takes back.                         *)
(***************************************************************************)
EXTENDS ApprovalStore

RowIds == [app : Approvals, type : {"resume", "continuation", "fallback"}, epoch : Nat]
OutboxRows == [status : {"pending", "published", "waiting", "dead"}, attempts : Nat]
Boxes == UNION {[S -> OutboxRows] : S \in SUBSET RowIds}
Stores == [app : [Approvals -> ApprovalRows \cup {None}], cont : [Approvals -> ContinuationRows \cup {None}],
           box : Boxes, batch : [BatchKeys -> (SUBSET Reviewable) \cup {None}]]
DecisionRequests == [key : DecisionKeys, asked : Asked \cup {"approve"}, seen : BOOLEAN]

StoreInv(s) ==
  /\ \A a \in Approvals : s.cont[a] # None <=> Decided(s, a)
  /\ \A a \in Approvals : Decided(s, a) => (s.app[a].status = "stale" <=> ~s.app[a].seen)
  /\ \A a \in Approvals : s.app[a] # None => Decided(s, a) \/ s.app[a].key = None
  /\ \A k \in BatchKeys : s.batch[k] # None => \A a \in s.batch[k] \cap Approvals : s.app[a] # None
  /\ \A r \in DOMAIN s.box : r.type # "fallback" => s.cont[r.app] # None
  /\ AtMostOne(PendingPrimary(s))

Applied(s, a) == s.cont[a] # None /\ s.cont[a].status = "applied"

(* No approval, decision, continuation or application is taken back. *)
StoreForward(s, r) ==
  \A a \in Approvals :
    /\ s.app[a] # None => r.app[a] # None
    /\ Decided(s, a) => Decided(r, a) /\ r.app[a].status = s.app[a].status
    /\ s.cont[a] # None => r.cont[a] # None
    /\ Applied(s, a) => Applied(r, a)

(* The approvals have the statuses they had, and nothing more is applied. *)
SameOutcome(s, r, a) ==
  /\ s.app[a] = None <=> r.app[a] = None
  /\ s.app[a] # None => r.app[a].status = s.app[a].status
  /\ Applied(r, a) => Applied(s, a)

Keeps(s, r) ==
  /\ r \in Stores /\ StoreInv(r) /\ StoreForward(s, r)
  /\ \A a \in Approvals : SameOutcome(s, r, a)
=============================================================================
