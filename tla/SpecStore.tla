------------------------------ MODULE SpecStore ------------------------------
(***************************************************************************)
(* The creation spec revisions of one session (internal/aigc/spec), as     *)
(* functions from the stored rows to the stored rows.  A session has one   *)
(* spec id, so the rows are a sequence and the index is the version; both  *)
(* stores order by creation time and then by version, which is the same.   *)
(* Each operation exists twice: as the memory store loops over its map and *)
(* as the SQL of the Postgres store selects rows.                          *)
(***************************************************************************)
EXTENDS Naturals, Sequences

Reviewing(key) == [key |-> key, status |-> "reviewing"]

VersionsIn(s, status) == {v \in DOMAIN s : s[v].status = status}
KeyRow(s, key) == {v \in DOMAIN s : s[v].key = key}

(* The row "ORDER BY ... DESC" finds first; 0 is ErrNotFound. *)
First(S) == IF S = {} THEN 0 ELSE CHOOSE v \in S : \A w \in S : w <= v

(* UPDATE ... SET status WHERE the row is in S *)
Update(s, S, status) ==
  [v \in DOMAIN s |-> IF v \in S THEN [s[v] EXCEPT !.status = status] ELSE s[v]]

-----------------------------------------------------------------------------
(* The memory store *)

GetLatest(s) == Len(s)
LatestReviewing(s) == First(VersionsIn(s, "reviewing"))
GetConfirmed(s) == First(VersionsIn(s, "confirmed"))

(* A known key returns the revision it made; a new revision under review   *)
(* supersedes the one under review.                                        *)
Save(s, key) ==
  IF KeyRow(s, key) # {} THEN s
  ELSE Append([v \in DOMAIN s |-> IF s[v].status = "reviewing"
                                   THEN [s[v] EXCEPT !.status = "superseded"] ELSE s[v]],
              Reviewing(key))

SavedVersion(s, key) == IF KeyRow(s, key) # {} THEN First(KeyRow(s, key)) ELSE Len(s) + 1

DecisionStatus(approve) == IF approve THEN "confirmed" ELSE "rejected"

(* What DecideRevision answers: done before, refused, or decided now *)
DecideOutcome(s, v, approve) ==
  CASE s[v].status = DecisionStatus(approve) -> "replay"
    [] s[v].status # DecisionStatus(approve) /\ s[v].status # "reviewing" -> "error"
    [] s[v].status = "reviewing" /\ LatestReviewing(s) # v -> "error"
    [] OTHER -> "ok"

DecideRevision(s, v, approve) ==
  IF DecideOutcome(s, v, approve) # "ok" THEN s
  ELSE [w \in DOMAIN s |->
          CASE w = v -> [s[w] EXCEPT !.status = DecisionStatus(approve)]
            [] w # v /\ approve /\ s[w].status = "confirmed" -> [s[w] EXCEPT !.status = "superseded"]
            [] OTHER -> s[w]]

-----------------------------------------------------------------------------
(* The Postgres store: each operation is one transaction under the         *)
(* session's advisory lock or the row lock.                                *)

NextVersion(s) == First(DOMAIN s) + 1
GetLatestPostgres(s) == First(DOMAIN s)
GetLatestReviewingPostgres(s) == First({v \in DOMAIN s : s[v].status = "reviewing"})
GetConfirmedPostgres(s) == First({v \in DOMAIN s : s[v].status = "confirmed"})

(* Mutant: the revision under review is not superseded. *)
SaveBeside(s, key) == IF KeyRow(s, key) # {} THEN s ELSE Append(s, Reviewing(key))

(* The key is looked up again under the lock. *)
SavePostgres(s, key) ==
  LET retired == Update(s, VersionsIn(s, "reviewing"), "superseded")
  IN  IF KeyRow(s, key) # {} THEN s
      ELSE [v \in 1 .. NextVersion(s) |-> IF v = NextVersion(s) THEN Reviewing(key) ELSE retired[v]]

DecideRevisionPostgres(s, v, approve) ==
  IF s[v].status = "reviewing" /\ GetLatestReviewingPostgres(s) = v
  THEN Update(Update(s, IF approve THEN VersionsIn(s, "confirmed") \ {v} ELSE {}, "superseded"),
              {v}, DecisionStatus(approve))
  ELSE s

(* AutoMigrate: of the rows under review only the newest stays, before the *)
(* unique index is created.                                                *)
ReconcileReviewing(s) ==
  Update(s, VersionsIn(s, "reviewing") \ {GetLatestReviewingPostgres(s)}, "superseded")

=============================================================================
