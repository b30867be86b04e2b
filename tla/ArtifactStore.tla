---------------------------- MODULE ArtifactStore ----------------------------
(***************************************************************************)
(* The artifact revisions of one session and the receipts of review        *)
(* commands (internal/aigc/artifact), as functions from the stored rows to *)
(* the stored rows.  a.revs is the sequence of revisions in creation       *)
(* order, a.receipts the command keys that have a receipt.  Contents are   *)
(* abstracted to the key that made them.                                   *)
(***************************************************************************)
EXTENDS Naturals, Sequences

NoArtifacts == [revs |-> <<>>, receipts |-> {}]

OfKind(a, kind) == {i \in DOMAIN a.revs : a.revs[i].kind = kind}
ByKey(a, key) == {i \in DOMAIN a.revs : a.revs[i].key = key}

(* GetLatest: versions of a kind grow with creation; 0 is ErrNotFound *)
LatestOf(a, kind) ==
  LET S == OfKind(a, kind)
  IN  IF S = {} THEN 0 ELSE CHOOSE i \in S : \A j \in S : j <= i

(* sameCreateRequest compares the status as well, so the replay of a       *)
(* creation conflicts once the revision was reviewed.                      *)
SameCreateRequest(rev, kind, status) == rev.kind = kind /\ rev.status = status

-----------------------------------------------------------------------------
(* The memory store *)

CreateOutcome(a, key, kind, status) ==
  IF ByKey(a, key) = {} THEN "created"
  ELSE IF \A i \in ByKey(a, key) : SameCreateRequest(a.revs[i], kind, status) THEN "replay"
  ELSE "conflict"

CreateRevision(a, key, kind, status) ==
  IF ByKey(a, key) # {} THEN a
  ELSE [a EXCEPT !.revs = Append(@, [key |-> key, kind |-> kind, status |-> status])]


(* The revisions after a review: approval retires the other active ones. *)
Reviewed(a, i, approve) ==
  [j \in DOMAIN a.revs |->
     CASE j = i -> [a.revs[j] EXCEPT !.status = IF approve THEN "active" ELSE "rejected"]
       [] j # i /\ approve /\ a.revs[j].kind = a.revs[i].kind /\ a.revs[j].status = "active"
            -> [a.revs[j] EXCEPT !.status = "superseded"]
       [] OTHER -> a.revs[j]]

(* ErrNotReviewable and ErrStale lose the race for good. *)
ReviewOutcome(a, key, i) ==
  CASE key \in a.receipts -> "replay"
    [] key \notin a.receipts /\ a.revs[i].status # "reviewing" -> "lost"
    [] key \notin a.receipts /\ a.revs[i].status = "reviewing" /\ LatestOf(a, a.revs[i].kind) # i -> "lost"
    [] OTHER -> "ok"

ApplyReview(a, key, i, approve) ==
  IF ReviewOutcome(a, key, i) = "ok"
  THEN [revs |-> Reviewed(a, i, approve), receipts |-> a.receipts \cup {key}]
  ELSE a

-----------------------------------------------------------------------------
(* The Postgres store: one transaction under the advisory lock of the      *)
(* session and kind; the receipt is looked up again under the row lock,    *)
(* and after a failed insert the winner's row is read.                     *)

CreateRevisionPostgres(a, key, kind, status) ==
  IF \E i \in DOMAIN a.revs : a.revs[i].key = key THEN a
  ELSE [a EXCEPT !.revs = @ \o <<[key |-> key, kind |-> kind, status |-> status]>>]

ApplyReviewPostgres(a, key, i, approve) ==
  LET rev == a.revs[i]
      others == {j \in OfKind(a, rev.kind) \ {i} : a.revs[j].status = "active"}
      retired == [j \in DOMAIN a.revs |->
                    IF approve /\ j \in others THEN [a.revs[j] EXCEPT !.status = "superseded"]
                    ELSE a.revs[j]]
  IN  IF key \in a.receipts \/ rev.status # "reviewing" \/ LatestOf(a, rev.kind) # i THEN a
      ELSE [revs |-> [retired EXCEPT ![i].status = IF approve THEN "active" ELSE "rejected"],
            receipts |-> a.receipts \cup {key}]

=============================================================================
