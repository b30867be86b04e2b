----------------------------- MODULE SessionLog -----------------------------
(***************************************************************************)
(* The append-only records of a session, as functions on their values: the *)
(* event log that clients tail (events), the receipts of the model's       *)
(* answers (modelreceipt), the messages of the conversation with the       *)
(* window a turn reads of them, and the checkpoint mapping of an           *)
(* interrupted run (session).  The stores are the PostgreSQL ones, which   *)
(* the agent process builds.                                               *)
(*                                                                         *)
(* A row of the event log is [id, src, body, by]: the event id, the source *)
(* key (both unique), what it says, and the transaction that holds it      *)
(* open, or None once committed.  Its position is its seq.  A message is   *)
(* [id, run, role, body]; its position is its seq as well.                 *)
(***************************************************************************)
EXTENDS Naturals, FiniteSets, SequencesExt

CONSTANT None

\* The members of S, a set of seqs up to n, in the order of seq.
InOrder(S, n) == SelectSeq([s \in 1..n |-> s], LAMBDA s : s \in S)

------------------------------------------------------------------------------
(* The event log. *)

\* The index on session: rows another transaction has not committed are not
\* seen by a reader.
Committed(log) == {s \in DOMAIN log : log[s].by = None}

\* Two writers agree on an event when everything but seq and time is equal.
sameIdentity(row, e) == row.id = e.id /\ row.src = e.src /\ row.body = e.body

Row(e, w) == [id |-> e.id, src |-> e.src, body |-> e.body, by |-> w]

\* The counter row is locked from the first statement of the append to the
\* commit, so that one transaction at a time has a seq that is not visible.
CounterIsFree(log) == \A s \in DOMAIN log : log[s].by = None

\* appendSessionEventOnceTx by w, once w holds the counter row.
AppendSessionEventOnce(log, e, w) ==
  LET existing == SelectSeq(log, LAMBDA row : row.id = e.id)
      source == SelectSeq(log, LAMBDA row : row.src = e.src)
  IN IF existing # <<>> THEN [log |-> log, ok |-> sameIdentity(Head(existing), e)]
     ELSE IF source # <<>> THEN [log |-> log, ok |-> sameIdentity(Head(source), e)]
     ELSE [log |-> Append(log, Row(e, w)), ok |-> TRUE]

CommitRow(log, w) ==
  [s \in DOMAIN log |-> IF log[s].by = w THEN [log[s] EXCEPT !.by = None] ELSE log[s]]

\* The transaction ends without a commit: its row and its seq are free again.
RollbackRow(log, w) == SelectSeq(log, LAMBDA row : row.by # w)

\* Tail reads at most limit committed rows after a cursor, in the order of seq.
TailAfter(log, after, limit) ==
  LET rows == InOrder({s \in Committed(log) : s > after}, Len(log))
  IN SubSeq(rows, 1, IF Len(rows) < limit THEN Len(rows) ELSE limit)

CurrentSeq(log) == Cardinality(Committed(log))

------------------------------------------------------------------------------
(* The receipts of the model's answers, by turn and ordinal. *)

\* What the slot holds, None when the call has not been answered.
GetReceipt(receipts, slot) == receipts[slot]

\* INSERT ... ON CONFLICT DO NOTHING, then read what is there.
PutOnce(receipts, slot, output) ==
  LET inserted == IF receipts[slot] = None THEN [receipts EXCEPT ![slot] = output]
                  ELSE receipts
  IN [receipts |-> inserted, output |-> inserted[slot]]

------------------------------------------------------------------------------
(* The messages and the window of them a turn reads. *)

\* appendMessageTx: an id that is there keeps its seq and must say the same.
AppendMessage(messages, m) ==
  LET existing == {s \in DOMAIN messages : messages[s].id = m.id}
  IN IF existing # {}
     THEN [messages |-> messages, ok |-> \A s \in existing : messages[s] = m]
     ELSE [messages |-> Append(messages, m), ok |-> TRUE]

SeqsOf(messages, run) == {s \in DOMAIN messages : messages[s].run = run}
UserSeqs(messages, run) == {s \in SeqsOf(messages, run) : messages[s].role = "user"}

\* Where a run stands in the conversation: at its user's message, or where it
\* first wrote when no user started it.
Place(messages, run) ==
  LET user == UserSeqs(messages, run)
  IN IF user # {} THEN Min(user) ELSE Min(SeqsOf(messages, run))

\* One run's messages, the user's before what the agent wrote.
GroupOf(messages, run) ==
  LET user == InOrder(UserSeqs(messages, run), Len(messages))
      written == InOrder(SeqsOf(messages, run) \ UserSeqs(messages, run), Len(messages))
  IN [i \in 1..Len(user \o written) |-> messages[(user \o written)[i]]]

\* ApplyMessageWindow: whole runs, those of later users left out, the current
\* one last, and of these as many from the end as the limit has room for.
ApplyMessageWindow(messages, through, current, limit) ==
  LET runs == {messages[s].run : s \in DOMAIN messages}
      visible == {r \in runs : UserSeqs(messages, r) = {} \/ Place(messages, r) <= through}
      others == InOrder({Place(messages, r) : r \in visible \ {current}}, Len(messages))
      ordered == [j \in DOMAIN others |-> messages[others[j]].run]
                 \o (IF current \in visible THEN <<current>> ELSE <<>>)
      Size(i) == Cardinality({s \in DOMAIN messages :
                                \E j \in i..Len(ordered) : messages[s].run = ordered[j]})
      kept == {i \in DOMAIN ordered : i = Len(ordered) \/ Size(i) <= limit}
  IN FlattenSeq([j \in 1..Cardinality(kept) |->
                   GroupOf(messages, ordered[Len(ordered) - Cardinality(kept) + j])])

------------------------------------------------------------------------------
(* The checkpoint mapping of an interrupted run. *)

NoMapping == [st |-> "none", n |-> 0]

\* SaveCheckpointMapping: once there, a mapping is never written over.
SaveCheckpointMapping(mapping, n) ==
  IF mapping.st # "none" THEN [mapping |-> mapping, ok |-> mapping.n = n]
  ELSE [mapping |-> [st |-> "pending", n |-> n], ok |-> TRUE]

\* TransitionCheckpointMapping: compare and set on the status.
TransitionCheckpointMapping(mapping, expected, next) ==
  IF mapping.st # expected THEN [mapping |-> mapping, ok |-> FALSE]
  ELSE [mapping |-> [mapping EXCEPT !.st = next], ok |-> TRUE]
==============================================================================
