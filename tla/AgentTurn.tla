------------------------------ MODULE AgentTurn ------------------------------
(***************************************************************************)
(* What one turn of the agent makes durable, and what the user's client    *)
(* gets to see of it.  A worker claims an input, reads the transcript,     *)
(* asks the model, runs the tools the model calls, freezes the whole       *)
(* output on the turn, and only then projects it: events, messages and the *)
(* checkpoint of an interrupt.  Any attempt may fail, crash or lose its    *)
(* lease (and then go on, unaware), and the next one starts over from what *)
(* is durable.  The lease and the queue are SessionRuntime's; here an      *)
(* input has an owner or none.                                             *)
(*                                                                         *)
(* The model's answer is a call of generate_media ("media"), of            *)
(* assemble_output ("film") or of a tool that interrupts the run ("ask"),  *)
(* or a closing message ("say").  Calls of one turn are numbered, and      *)
(* <<input, number>> is both the slot of the model's receipt and the       *)
(* idempotency key of the tool call it holds.                              *)
(***************************************************************************)
EXTENDS SessionLog

CONSTANTS
  Workers,      \* attempts that can run at the same time
  Inputs,       \* the inputs of the session
  Kind,         \* Inputs -> {"user", "continuation", "resume"}
  Rounds,       \* answers of the model in a turn; the last one closes it
  Window,       \* the soft limit of messages in a transcript
  Faults,       \* which faults happen: "fail", "lapse", "live", "drop"
  Sessions      \* the bounds of a session: the inputs that arrive, what the
                \* model may answer, how often the storyboard changes, how many
                \* faults happen, and whether a client watches:
                \* [arrive, replies, edits, faults, watched]

VARIABLES
  input,        \* [Inputs -> [st, owner, seq, of]]: seq is the frozen context
                \* boundary, of the run a resume answers
  frozen,       \* [Inputs -> the output frozen on the turn, or None]
  receipts,     \* [Slots -> the model's answer, or None]
  works,        \* [Slots -> the workflow created under the key, or NoWork]
  notes,        \* [Slots -> the artifact kept under the key, or NoNote]
  board,        \* [v, open]: the storyboard's version and whether a slot is open
  messages, log,
  mapping,      \* [Inputs -> the checkpoint mapping of its turn's interrupt]
  at,           \* [Workers -> the attempt it runs]
  ran,          \* history: the inputs in the order their turns ended
  client,       \* [on, cursor, seen]: the event stream of one client
  session       \* one of Sessions, less the faults that have happened

durable == <<input, frozen, receipts, works, notes, board, messages, log, mapping>>
vars == <<durable, at, ran, client, session>>

Slots == Inputs \X (1..Rounds)
Calls == {"media", "film", "ask"}
NoWork == [v |-> 0, st |-> "none"]
NoNote == [kind |-> "none", v |-> 0, missing |-> FALSE]
NotFrozen == <<[what |-> "none", body |-> "none", n |-> 0, live |-> FALSE]>>

Idle == [pc |-> "idle", job |-> None, n |-> 0, ctx |-> <<>>, out |-> <<>>,
         seen |-> [v |-> 0, open |-> FALSE], k |-> 0, map |-> "none"]

Init ==
  /\ input = [i \in Inputs |-> [st |-> "none", owner |-> None, seq |-> 0, of |-> None]]
  /\ frozen = [i \in Inputs |-> NotFrozen]
  /\ receipts = [s \in Slots |-> None]
  /\ works = [s \in Slots |-> NoWork]
  /\ notes = [s \in Slots |-> NoNote]
  /\ board = [v |-> 1, open |-> TRUE]
  /\ messages = <<>>
  /\ log = <<>>
  /\ mapping = [i \in Inputs |-> NoMapping]
  /\ at = [w \in Workers |-> Idle]
  /\ ran = <<>>
  /\ session \in Sessions
  /\ client = [on |-> session.watched, cursor |-> 0, seen |-> {}]

------------------------------------------------------------------------------
(* What comes from outside. *)

Enqueue(i, seq, of) ==
  /\ i \in session.arrive
  /\ input' = [input EXCEPT ![i] = [@ EXCEPT !.st = "queued", !.seq = seq, !.of = of]]

\* createMessage: the message and its input are one transaction, and the
\* input carries the seq of the message as the boundary of its context.
CreateMessage(i) ==
  /\ Kind[i] = "user" /\ input[i].st = "none"
  /\ LET m == [id |-> <<i, 0>>, run |-> i, role |-> "user", body |-> "user"]
     IN messages' = AppendMessage(messages, m).messages
  /\ Enqueue(i, Len(messages) + 1, None)
  /\ UNCHANGED <<frozen, receipts, works, notes, board, log, mapping, at, ran, client, session>>

\* checkpointForResume: an interrupt that was shown can be answered.
CheckpointForResume(run) ==
  mapping[run].st \in {"pending", "resuming", "resume_applied", "resumed"}

\* enqueueDurableAgentResume: the message and the input are one transaction,
\* and the input carries no boundary.
EnqueueDurableAgentResume(i, run) ==
  /\ LET m == [id |-> <<i, 0>>, run |-> i, role |-> "user", body |-> "user"]
     IN messages' = AppendMessage(messages, m).messages
  /\ Enqueue(i, 0, run)

ResolvedRow(run) == LET key == [k |-> "resolved", t |-> run, n |-> mapping[run].n, b |-> ""]
                    IN [id |-> key, src |-> key, body |-> "resolved"]

\* resumeAgent: the user answers an interrupt that is not yet through.
ResumeAgent(i) ==
  /\ Kind[i] = "resume" /\ input[i].st = "none"
  /\ \E run \in Inputs : /\ CheckpointForResume(run) /\ mapping[run].st # "resumed"
                         /\ EnqueueDurableAgentResume(i, run)
  /\ UNCHANGED <<frozen, receipts, works, notes, board, log, mapping, at, ran, client, session>>

\* resumeAgent on one that is (once here): a card under an id of its own, and
\* the resolved event over again, which may come before the turn's.
ResumeAgain(run) ==
  /\ CheckpointForResume(run) /\ mapping[run].st = "resumed"
  /\ CounterIsFree(log)
  /\ LET key == [k |-> "again", t |-> run, n |-> 0, b |-> ""]
         card == [id |-> key, src |-> key, body |-> "resumed"]
     IN /\ \A s \in DOMAIN log : log[s].id # key
        /\ log' = CommitRow(AppendSessionEventOnce(AppendSessionEventOnce(log, card, "http").log,
                                          ResolvedRow(run), "http").log, "http")
  /\ UNCHANGED <<input, frozen, receipts, works, notes, board, messages, mapping,
                 at, ran, client, session>>

\* The result of an approval arrives as an input of its own (ApprovalRuntime).
EnqueueContinuation(i) ==
  /\ Kind[i] = "continuation" /\ input[i].st = "none"
  /\ Enqueue(i, 0, None)
  /\ UNCHANGED <<frozen, receipts, works, notes, board, messages, log, mapping,
                 at, ran, client, session>>

\* The storyboard moves under the turns: a slot is adopted, or opened again.
EditBoard ==
  /\ board.v <= session.edits
  /\ board' = [v |-> board.v + 1, open |-> ~board.open]
  /\ UNCHANGED <<input, frozen, receipts, works, notes, messages, log, mapping,
                 at, ran, client, session>>

------------------------------------------------------------------------------
(* The attempts. *)

Owns(w) == input[at[w].job].owner = w
Busy(w) == at[w].pc # "idle"
\* A worker waits for the commit of the row it has appended.
CanStep(w, pc) == at[w].pc = pc /\ \A s \in DOMAIN log : log[s].by # w

Go(w, changed) == at' = [at EXCEPT ![w] = changed @@ at[w]]
Leave(w) == at' = [at EXCEPT ![w] = Idle]

\* The order of priority: a user's message before anything else, then the
\* order of arrival.
FirstInLine(i) ==
  /\ input[i].st = "queued"
  /\ \A j \in Inputs : input[j].st # "active"
  /\ Kind[i] # "user" => \A j \in Inputs : Kind[j] = "user" => input[j].st # "queued"
  /\ \A j \in Inputs : (Kind[j] = Kind[i] /\ input[j].st = "queued") =>
                         input[i].seq <= input[j].seq

\* Mutant: an input is given out once.
MayClaimOnce(w, i) == at[w] = Idle /\ input[i].owner = None /\ FirstInLine(i)

\* The runtime gives out the active input, or the first in line.
MayClaim(w, i) ==
  /\ at[w] = Idle
  /\ input[i].owner = None
  /\ input[i].st = "active" \/ FirstInLine(i)

Take(w, i, seq) ==
  input' = [input EXCEPT ![i] = [@ EXCEPT !.st = "active", !.owner = w, !.seq = seq]]

\* The mapping a resume answers.
Asked(i) == IF Kind[i] = "resume" THEN mapping[input[i].of] ELSE NoMapping
SetAsked(w, next) == mapping' = [mapping EXCEPT ![input[at[w].job].of] = next]

\* Mutant: a turn reads everything that is there.
WholeTranscript(i) == Len(messages)

\* FreezeTurnContextFromTerminalUserInputs: a turn no user started reads what
\* the finished users wrote, and a later attempt reads the same.
FrozenBoundary(i) ==
  IF Kind[i] # "continuation" \/ input[i].st = "active" THEN input[i].seq
  ELSE Max({0} \cup {input[j].seq : j \in {u \in Inputs : Kind[u] = "user"
                                                        /\ input[u].st = "done"}})

\* DurableAgentProcessor.messages up to durableMessageBoundary.
Transcript(i) == ApplyMessageWindow(messages, FrozenBoundary(i), i, Window)

\* Process on a turn that has no output yet.
StartTurn(w, i) ==
  /\ MayClaim(w, i)
  /\ frozen[i] = NotFrozen
  /\ Kind[i] # "resume"
  /\ Take(w, i, FrozenBoundary(i))
  /\ Go(w, [pc |-> "ask", job |-> i, n |-> 1, ctx |-> Transcript(i)])
  /\ UNCHANGED <<frozen, receipts, works, notes, board, messages, log, mapping,
                 ran, client, session>>

\* Process, resumeInterrupt up to the read of the mapping.
StartResume(w, i) ==
  /\ MayClaim(w, i)
  /\ frozen[i] = NotFrozen
  /\ Kind[i] = "resume"
  /\ Take(w, i, 0)
  /\ Go(w, [pc |-> "resume", job |-> i, map |-> Asked(i).st])
  /\ UNCHANGED <<frozen, receipts, works, notes, board, messages, log, mapping,
                 ran, client, session>>

\* validateResumeReceipt: an output of a resume is there because the mapping
\* was claimed for it.
ValidateResumeReceipt(i) ==
  Kind[i] = "resume" => Asked(i).st \in {"resuming", "resume_applied", "resumed"}

\* Process on a turn whose output an earlier attempt has frozen: the model
\* and the tools are not asked again.
ReplayTurn(w, i) ==
  /\ MayClaim(w, i)
  /\ frozen[i] # NotFrozen
  /\ ValidateResumeReceipt(i)
  /\ Take(w, i, input[i].seq)
  /\ Go(w, [pc |-> "publish", job |-> i, out |-> frozen[i], k |-> 1, map |-> Asked(i).st])
  /\ UNCHANGED <<frozen, receipts, works, notes, board, messages, log, mapping,
                 ran, client, session>>

\* An attempt that returns an error, or dies: what it had not committed is
\* gone, and the input waits for the next attempt.
Abandon(w) ==
  /\ Leave(w)
  /\ log' = RollbackRow(log, w)
  /\ input' = IF Owns(w) THEN [input EXCEPT ![at[w].job].owner = None] ELSE input

AgentEvent(what, body, n) == [what |-> what, body |-> body, n |-> n, live |-> FALSE]
InterruptEvent(n) == AgentEvent("interrupt", "ask", n)

\* resumeInterrupt: claim the mapping, or join the attempt that has, and let
\* the runner go on: the tool that asked now has its answer.
ResumeInterrupt(w) ==
  /\ CanStep(w, "resume")
  /\ LET asked == Asked(at[w].job)
         next == TransitionCheckpointMapping(asked, at[w].map, "resuming")
         Answered == [pc |-> "progress", n |-> asked.n,
                      out |-> <<AgentEvent("result", "answered", asked.n)>>]
     IN CASE at[w].map = "pending" /\ next.ok ->
               /\ SetAsked(w, next.mapping)
               /\ Go(w, Answered)
               /\ UNCHANGED <<input, log>>
          [] at[w].map = "pending" /\ ~next.ok ->
               Abandon(w) /\ UNCHANGED mapping
          [] at[w].map = "resuming" ->
               Go(w, Answered) /\ UNCHANGED <<input, log, mapping>>
          [] at[w].map \in {"resume_applied", "resumed"} ->
               Go(w, [pc |-> "save"]) /\ UNCHANGED <<input, log, mapping>>
  /\ UNCHANGED <<frozen, receipts, works, notes, board, messages, ran, client, session>>

------------------------------------------------------------------------------
(* The model and the receipts of its answers. *)

Closing == {"say", "stop"}

\* pendingNextCapabilityDirective: a continuation carries an instruction to
\* call generate_media once; the pair of call and result in the history ends it.
MustCall(w) == Kind[at[w].job] = "continuation" /\ at[w].out = <<>>

\* guardRepeatedNextCapability: a further call becomes a stop card.
GuardRepeated(reply) == IF reply \in Calls THEN "stop" ELSE reply

\* Mutant: later calls of a continuation pass.
Unguarded(w, reply) == reply

\* The guard reads the whole answer, streamed or not, once the call the
\* continuation had to make is in the history.
Guarded(w, reply) ==
  IF Kind[at[w].job] = "continuation" /\ ~MustCall(w) THEN GuardRepeated(reply) ELSE reply

\* The answer reaches the agent: a call is an event, and its progress is shown
\* before the tool runs; a closing message ends the turn.
Hear(w, reply) ==
  LET said == Guarded(w, reply)
  IN IF said \in Closing
     THEN Go(w, [pc |-> "save", ctx |-> <<>>,
                 out |-> Append(at[w].out, AgentEvent("say", said, at[w].n))])
     ELSE Go(w, [pc |-> "progress", ctx |-> <<>>,
                 out |-> Append(at[w].out, AgentEvent("call", said, at[w].n))])

Slot(w) == <<at[w].job, at[w].n>>

\* modelReceiptChatModel up to the call: an answer on record is the answer.
LoadFrozenModelMessage(w) ==
  /\ CanStep(w, "ask")
  /\ LET reply == GetReceipt(receipts, Slot(w))
     IN IF reply # None THEN Hear(w, reply) ELSE Go(w, [pc |-> "model"])
  /\ UNCHANGED <<durable, ran, client, session>>

\* nextCapabilityToolCall
NextCapabilityToolCall == "media"

\* What the model may say.  A continuation's first answer does not come from
\* the model at all; the last of a turn closes it, unless the guard will.
Offered(w) ==
  IF MustCall(w) THEN {NextCapabilityToolCall}
  ELSE IF at[w].n = Rounds /\ Kind[at[w].job] # "continuation" THEN {"say"}
  ELSE session.replies

\* Mutant: each attempt goes on with the answer it got itself.
FreezeButKeepOwn(w) ==
  /\ CanStep(w, "model")
  /\ \E reply \in Offered(w) :
       receipts' = PutOnce(receipts, Slot(w), reply).receipts /\ Hear(w, reply)
  /\ UNCHANGED <<input, frozen, works, notes, board, messages, log, mapping, ran, client, session>>

\* The model answers, and the answer is frozen: of two attempts that asked,
\* both go on with the answer that was recorded first.
FreezeModelMessage(w) ==
  /\ CanStep(w, "model")
  /\ \E reply \in Offered(w) :
       LET put == PutOnce(receipts, Slot(w), reply)
       IN receipts' = put.receipts /\ Hear(w, put.output)
  /\ UNCHANGED <<input, frozen, works, notes, board, messages, log, mapping, ran, client, session>>

------------------------------------------------------------------------------
(* The tools. *)

\* withToolCallCommandContext: the key of a call is the input's id and the
\* number of the call, the same in every attempt.
ToolKey(w) == Slot(w)

\* The tool has a result, or an error that the middleware turns into one.
Return(w, result) ==
  Go(w, [pc |-> "progress", out |-> Append(at[w].out, AgentEvent("result", result, at[w].n)),
         seen |-> Idle.seen])

LastEvent(w) == Last(at[w].out)

\* loadExistingWorkflow: by the key, whatever has become of it since.
LoadExistingWorkflow(w) == works[ToolKey(w)]

\* What the key has already done is the result (replayGenerateMedia, then
\* replayGenerateMediaNoOp) ...
ReplayMedia(w) ==
  LET work == LoadExistingWorkflow(w)
  IN CASE work # NoWork -> Return(w, work.st)
       [] work = NoWork /\ notes[ToolKey(w)].kind = "noop" -> Return(w, "noop")
       [] work = NoWork /\ notes[ToolKey(w)].kind = "none" -> Go(w, [pc |-> "read"])

\* ... and a plan whose workflow is missing goes on (replayAssembly).
ReplayAssembly(w) ==
  LET work == LoadExistingWorkflow(w)
  IN CASE work # NoWork -> Return(w, work.st)
       [] work = NoWork /\ notes[ToolKey(w)].kind = "plan" -> Go(w, [pc |-> "film"])
       [] work = NoWork /\ notes[ToolKey(w)].kind = "none" -> Go(w, [pc |-> "read"])

ReplayTool(w) ==
  /\ CanStep(w, "tool")
  /\ IF LastEvent(w).body = "film" THEN ReplayAssembly(w) ELSE ReplayMedia(w)
  /\ UNCHANGED <<durable, ran, client, session>>

\* generateMedia and assembleOutput read the storyboard.
ReadBoard(w) ==
  /\ CanStep(w, "read")
  /\ Go(w, [pc |-> IF LastEvent(w).body = "film" THEN "plan" ELSE "media", seen |-> board])
  /\ UNCHANGED <<durable, ran, client, session>>

\* freezeWorkflowRequest and validateWorkflowReplay: two requests are one when
\* their fingerprints are, the storyboard's version among them.
ValidateWorkflowReplay(work, v) == work.v = v

\* CreateWorkflow under a key: the request of the first call is the workflow,
\* the same request finds it, and another one conflicts.
CreateWorkflow(w, v) ==
  LET work == works[ToolKey(w)]
  IN /\ works' = IF work = NoWork
                 THEN [works EXCEPT ![ToolKey(w)] = [v |-> v, st |-> "accepted"]]
                 ELSE works
     /\ Return(w, IF work = NoWork \/ ValidateWorkflowReplay(work, v) THEN "accepted" ELSE "failed")

\* CreateRevision under a key, with the same rule.
CreateNote(w, note) ==
  notes' = IF notes[ToolKey(w)].kind = "none" THEN [notes EXCEPT ![ToolKey(w)] = note] ELSE notes

\* freezeGenerateMediaNoOp: the note is the no-op, read back under its key.
FreezeNoOp(w) ==
  LET note == [kind |-> "noop", v |-> at[w].seen.v, missing |-> FALSE]
  IN /\ CreateNote(w, note)
     /\ Return(w, IF notes[ToolKey(w)] \in {NoNote, note} THEN "noop" ELSE "failed")

\* generateMedia: targets make a workflow, none are recorded as a no-op.
GenerateMedia(w) ==
  /\ CanStep(w, "media")
  /\ IF at[w].seen.open
     THEN CreateWorkflow(w, at[w].seen.v) /\ UNCHANGED notes
     ELSE FreezeNoOp(w) /\ UNCHANGED works
  /\ UNCHANGED <<input, frozen, receipts, board, messages, log, mapping, ran, client, session>>

\* assembleOutput: the plan is kept before anything is made of it.
AssembleOutput(w) ==
  /\ CanStep(w, "plan")
  /\ LET note == [kind |-> "plan", v |-> at[w].seen.v, missing |-> at[w].seen.open]
     IN /\ CreateNote(w, note)
        /\ IF notes[ToolKey(w)] \in {NoNote, note} THEN Go(w, [pc |-> "film", seen |-> Idle.seen])
           ELSE Return(w, "failed")
  /\ UNCHANGED <<input, frozen, receipts, works, board, messages, log, mapping, ran, client, session>>

\* continueAssembly: from the plan that is kept, not from the storyboard.
ContinueAssembly(w) ==
  /\ CanStep(w, "film")
  /\ IF notes[ToolKey(w)].missing THEN Return(w, "partial") /\ UNCHANGED works
     ELSE CreateWorkflow(w, notes[ToolKey(w)].v)
  /\ UNCHANGED <<input, frozen, receipts, notes, board, messages, log, mapping, ran, client, session>>

\* A workflow ends on its own (GenerationBatch).
WorkflowEnds(s) ==
  /\ works[s].st = "accepted"
  /\ session.edits > 0
  /\ works' = [works EXCEPT ![s].st = "failed"]
  /\ UNCHANGED <<input, frozen, receipts, notes, board, messages, log, mapping,
                 at, ran, client, session>>

------------------------------------------------------------------------------
(* Progress shown while the turn runs. *)

\* Its id is made of the turn and of what it says, call id included.
LiveRow(i, e) == LET key == [k |-> "live", t |-> i, n |-> e.n, b |-> e.body]
                 IN [id |-> key, src |-> key, body |-> e.body]

\* Where the attempt goes once the progress of its last event is out.
AfterProgress(w, e) ==
  CASE e.what = "result" -> [pc |-> "ask", n |-> at[w].n + 1]
    [] e.what = "call" /\ e.body = "ask" ->
         [pc |-> "save", out |-> Append(Front(at[w].out), e) \o <<InterruptEvent(e.n)>>]
    [] e.what = "call" /\ e.body # "ask" -> [pc |-> "tool"]

\* publishLiveToolProgress succeeds: the event is marked, and will not be
\* projected again from the frozen output.
PublishLive(w) ==
  /\ CanStep(w, "progress")
  /\ CounterIsFree(log)
  /\ LET put == AppendSessionEventOnce(log, LiveRow(at[w].job, LastEvent(w)), w)
         e == [LastEvent(w) EXCEPT !.live = put.ok]
     IN /\ log' = put.log
        /\ Go(w, AfterProgress(w, e) @@ [out |-> Append(Front(at[w].out), e)])
  /\ UNCHANGED <<input, frozen, receipts, works, notes, board, messages, mapping,
                 ran, client, session>>

Fault(kind) ==
  /\ kind \in Faults /\ session.faults > 0
  /\ session' = [session EXCEPT !.faults = @ - 1]

\* It fails, which does not fail the turn: collectAgentEvents goes on.
LiveFails(w) ==
  /\ CanStep(w, "progress")
  /\ Fault("live")
  /\ Go(w, AfterProgress(w, LastEvent(w)))
  /\ UNCHANGED <<durable, ran, client>>

------------------------------------------------------------------------------
(* The output: frozen first, then projected. *)

\* Mutant: a former owner may still save its output.
SaveUnfenced(w) ==
  /\ CanStep(w, "save")
  /\ frozen' = [frozen EXCEPT ![at[w].job] = at[w].out]
  /\ Go(w, [pc |-> "publish", k |-> 1, map |-> Asked(at[w].job).st])
  /\ UNCHANGED <<input, receipts, works, notes, board, messages, log, mapping, ran, client, session>>

\* SaveTurnOutput, fenced by the owner of the input; the mapping is read
\* (prepareResumeCompletion) before anything is shown.
SaveTurnOutput(w) ==
  /\ CanStep(w, "save")
  /\ IF Owns(w)
     THEN /\ frozen' = [frozen EXCEPT ![at[w].job] = at[w].out]
          /\ Go(w, [pc |-> "publish", k |-> 1, map |-> Asked(at[w].job).st])
          /\ UNCHANGED <<input, log>>
     ELSE Abandon(w) /\ UNCHANGED frozen
  /\ UNCHANGED <<receipts, works, notes, board, messages, mapping, ran, client, session>>

Op(op, body) == [op |-> op, body |-> body]

\* authoritativeCapabilityProgressTracker: the closing message is left out
\* when a media tool has succeeded and no other tool has been seen.
SuppressModelAssistant(out) ==
  /\ \E j \in DOMAIN out : out[j].what = "result" /\ out[j].body \in {"accepted", "noop"}
  /\ \A j \in DOMAIN out : ~(out[j].what = "call" /\ out[j].body = "ask")
                        /\ ~(out[j].what = "result" /\ out[j].body = "answered")

\* publishAgentEvents: what the projection of one event writes, in order.
OpsOf(e) ==
  CASE e.what \in {"call", "result"} ->
         (IF e.live THEN <<>> ELSE <<Op("event", e.body)>>) \o <<Op("message", e.body)>>
    [] e.what = "interrupt" -> <<Op("mapping", e.body), Op("event", e.what)>>
    [] e.what = "say" -> <<>>

\* The projection of a whole output.  The closing message comes last; a
\* resume then moves the mapping on and says that the question is answered.
Ops(i, out) ==
  LET closing == SelectSeq(out, LAMBDA e : e.what = "say")
  IN FlattenSeq([j \in DOMAIN out |-> OpsOf(out[j])])
     \o (IF closing = <<>> \/ SuppressModelAssistant(out) THEN <<>>
         ELSE <<Op("event", Last(closing).body), Op("message", Last(closing).body)>>)
     \o (IF Kind[i] = "resume"
         THEN <<Op("applied", ""), Op("resumed", ""), Op("resolved", "")>> ELSE <<>>)

\* deterministicTurnIDGenerator: ids are numbered in the order they are asked
\* for; the source key of an event counts the events alone.
Ordinal(ops, k) == Cardinality({j \in 1..k : ops[j].op \in {"event", "message"}})
EventOrdinal(ops, k) == Cardinality({j \in 1..k : ops[j].op = "event"})

TurnRow(i, id, n, body) == [id |-> [k |-> "turn", t |-> i, n |-> id, b |-> ""],
                            src |-> [k |-> "turn", t |-> i, n |-> n, b |-> ""], body |-> body]
EventRow(i, ops, k) == TurnRow(i, Ordinal(ops, k), EventOrdinal(ops, k), ops[k].body)
MessageRow(i, ops, k) == [id |-> <<i, Ordinal(ops, k)>>, run |-> i, role |-> "agent",
                          body |-> ops[k].body]

Step(w) == Go(w, [k |-> at[w].k + 1])

\* DurableSessionEventPublisher.Publish
PublishEvent(w, row) ==
  /\ CounterIsFree(log)
  /\ LET put == AppendSessionEventOnce(log, row, w)
     IN IF put.ok THEN log' = put.log /\ Step(w) /\ UNCHANGED input ELSE Abandon(w)
  /\ UNCHANGED <<messages, mapping>>

\* appendSchemaMessage
PublishMessage(w, m) ==
  /\ LET put == AppendMessage(messages, m)
     IN IF put.ok THEN messages' = put.messages /\ Step(w) /\ UNCHANGED <<input, log>>
        ELSE Abandon(w) /\ UNCHANGED messages
  /\ UNCHANGED mapping

\* saveInterruptCheckpoint
PublishMapping(w) ==
  /\ LET put == SaveCheckpointMapping(mapping[at[w].job], LastEvent(w).n)
     IN /\ mapping' = [mapping EXCEPT ![at[w].job] = put.mapping]
        /\ IF put.ok THEN Step(w) /\ UNCHANGED <<input, log>> ELSE Abandon(w)
  /\ UNCHANGED messages

\* completeResume: from the status that was read before the projection.
CompleteResume(w, from, to) ==
  /\ IF at[w].map # from THEN Step(w) /\ UNCHANGED <<input, log, mapping>>
     ELSE LET put == TransitionCheckpointMapping(Asked(at[w].job), from, to)
          IN /\ SetAsked(w, put.mapping)
             /\ IF put.ok THEN /\ Go(w, [k |-> at[w].k + 1, map |-> to])
                               /\ UNCHANGED <<input, log>>
                ELSE Abandon(w)
  /\ UNCHANGED messages

MyOps(w) == Ops(at[w].job, at[w].out)

\* One write of the projection.
Publish(w) ==
  /\ CanStep(w, "publish")
  /\ at[w].k <= Len(MyOps(w))
  /\ LET op == MyOps(w)[at[w].k].op
     IN CASE op = "event" -> PublishEvent(w, EventRow(at[w].job, MyOps(w), at[w].k))
          [] op = "message" -> PublishMessage(w, MessageRow(at[w].job, MyOps(w), at[w].k))
          [] op = "mapping" -> PublishMapping(w)
          [] op = "applied" -> CompleteResume(w, "resuming", "resume_applied")
          [] op = "resumed" -> CompleteResume(w, "resume_applied", "resumed")
          [] op = "resolved" -> PublishEvent(w, ResolvedRow(input[at[w].job].of))
  /\ UNCHANGED <<frozen, receipts, works, notes, board, ran, client, session>>

\* publishRenderEvent when the checkpoint cannot be saved: an error event is
\* published under the next id and source key, and the attempt fails.
CheckpointFails(w) ==
  /\ CanStep(w, "publish")
  /\ at[w].k <= Len(MyOps(w)) /\ MyOps(w)[at[w].k].op = "mapping"
  /\ CounterIsFree(log)
  /\ Fault("fail")
  /\ LET row == EventRow(at[w].job, MyOps(w), at[w].k + 1)
     IN log' = CommitRow(AppendSessionEventOnce(log, [row EXCEPT !.body = "error"], w).log, w)
  /\ Leave(w)
  /\ input' = IF Owns(w) THEN [input EXCEPT ![at[w].job].owner = None] ELSE input
  /\ UNCHANGED <<frozen, receipts, works, notes, board, messages, mapping, ran, client>>

\* Mutant: the turn ends with its last write.
FinishBeforeLast(w) ==
  /\ CanStep(w, "publish")
  /\ at[w].k >= Len(MyOps(w))
  /\ IF Owns(w)
     THEN /\ input' = [input EXCEPT ![at[w].job].st = "done", ![at[w].job].owner = None]
          /\ ran' = Append(ran, at[w].job)
     ELSE UNCHANGED <<input, ran>>
  /\ Leave(w)
  /\ UNCHANGED <<frozen, receipts, works, notes, board, messages, log, mapping, client, session>>

\* The turn ends, committed or waiting for the answer to its interrupt, and
\* its input is resolved; a former owner is refused.
FinishTurn(w) ==
  /\ CanStep(w, "publish")
  /\ at[w].k > Len(MyOps(w))
  /\ IF Owns(w)
     THEN /\ input' = [input EXCEPT ![at[w].job].st = "done", ![at[w].job].owner = None]
          /\ ran' = Append(ran, at[w].job)
     ELSE UNCHANGED <<input, ran>>
  /\ Leave(w)
  /\ UNCHANGED <<frozen, receipts, works, notes, board, messages, log, mapping, client, session>>

CommitEvent(w) ==
  /\ \E s \in DOMAIN log : log[s].by = w
  /\ log' = CommitRow(log, w)
  /\ UNCHANGED <<input, frozen, receipts, works, notes, board, messages, mapping,
                 at, ran, client, session>>

------------------------------------------------------------------------------
(* Faults. *)

\* The attempt returns an error or its process dies.
AttemptFails(w) ==
  /\ Busy(w)
  /\ Fault("fail")
  /\ Abandon(w)
  /\ UNCHANGED <<frozen, receipts, works, notes, board, messages, mapping, ran, client>>

\* The lease passes on while the attempt is still running.
LeaseLapses(w) ==
  /\ Busy(w) /\ Owns(w)
  /\ Fault("lapse")
  /\ input' = [input EXCEPT ![at[w].job].owner = None]
  /\ UNCHANGED <<frozen, receipts, works, notes, board, messages, log, mapping, at, ran, client>>

------------------------------------------------------------------------------
(* The client's event stream. *)

\* TailRelay.Relay: the cursor moves when the row has been written out.
RelayRow ==
  /\ client.on
  /\ LET rows == TailAfter(log, client.cursor, 1)
     IN /\ rows # <<>>
        /\ client' = [client EXCEPT !.cursor = Head(rows), !.seen = @ \cup {Head(rows)}]
  /\ UNCHANGED <<durable, at, ran, session>>

\* The write fails or the connection breaks: the row is not seen.
StreamBreaks ==
  /\ client.on
  /\ Fault("drop")
  /\ client' = [client EXCEPT !.on = FALSE]
  /\ UNCHANGED <<durable, at, ran>>

\* Mutant: the ready event carries the current seq as its id.
ConnectAtCurrent ==
  /\ ~client.on /\ session.watched
  /\ client' = [client EXCEPT !.on = TRUE, !.cursor = CurrentSeq(log)]
  /\ UNCHANGED <<durable, at, ran, session>>

\* streamDurableSessionEvents: from the last id the client has seen; the ready
\* event in front of the rows carries no id.
Connect ==
  /\ ~client.on /\ session.watched
  /\ client' = [client EXCEPT !.on = TRUE, !.cursor = Max({0} \cup client.seen)]
  /\ UNCHANGED <<durable, at, ran, session>>

\* replaySessionEvents: a page of rows instead of the stream.
ReplayPage ==
  /\ ~client.on /\ session.watched
  /\ LET rows == TailAfter(log, client.cursor, 2)
     IN client' = [client EXCEPT !.seen = @ \cup ToSet(rows),
                                 !.cursor = IF rows = <<>> THEN @ ELSE Last(rows)]
  /\ client' # client
  /\ UNCHANGED <<durable, at, ran, session>>

------------------------------------------------------------------------------
Claim(w) == \E i \in Inputs : StartTurn(w, i) \/ StartResume(w, i) \/ ReplayTurn(w, i)

Work(w) ==
  \/ Claim(w) \/ ResumeInterrupt(w)
  \/ LoadFrozenModelMessage(w) \/ FreezeModelMessage(w)
  \/ ReplayTool(w) \/ ReadBoard(w) \/ GenerateMedia(w)
  \/ AssembleOutput(w) \/ ContinueAssembly(w)
  \/ PublishLive(w) \/ CommitEvent(w)
  \/ SaveTurnOutput(w) \/ Publish(w) \/ FinishTurn(w)

Outside ==
  \/ \E i \in Inputs : \/ CreateMessage(i) \/ ResumeAgent(i) \/ ResumeAgain(i)
                       \/ EnqueueContinuation(i)
  \/ EditBoard
  \/ \E s \in Slots : WorkflowEnds(s)

Misfortune == \E w \in Workers :
  AttemptFails(w) \/ LeaseLapses(w) \/ LiveFails(w)

Stream == RelayRow \/ StreamBreaks \/ Connect \/ ReplayPage

Next == (\E w \in Workers : Work(w)) \/ Outside \/ Misfortune \/ Stream

Spec == Init /\ [][Next]_vars

\* Some worker keeps working (SessionRuntime's scan), the relay keeps polling
\* (its ticker), and a client that is cut off connects again.
Fairness == /\ WF_vars(\E w \in Workers : Work(w))
            /\ WF_vars(RelayRow \/ Connect)

FairSpec == Spec /\ Fairness

\* The same session when saving the checkpoint may be what fails.
FairCheckpointSpec == /\ Init
                      /\ [][Next \/ \E w \in Workers : CheckpointFails(w)]_vars
                      /\ Fairness

------------------------------------------------------------------------------
(* Properties. *)

\* The records of a turn agree, however many attempts asked the model and
\* whoever of them froze the output.  What a tool leaves behind answers a call
\* the receipts hold: no workflow, plan or no-op note belongs to an answer that
\* was thrown away.  And the result the conversation keeps of a call is what
\* the tool recorded under that call's key (model_receipt.go, runtime.go).
RecordsAgree ==
  /\ \A s \in Slots :
       /\ notes[s].kind = "noop" => receipts[s] = "media"
       /\ notes[s].kind = "plan" => receipts[s] = "film"
       /\ works[s] # NoWork => \/ receipts[s] = "media"
                               \/ receipts[s] = "film" /\ notes[s].kind = "plan"
                                  /\ ~notes[s].missing /\ works[s].v = notes[s].v
  /\ \A i \in Inputs : \A j \in DOMAIN frozen[i] :
       LET e == frozen[i][j]
       IN e.what = "result" =>
            /\ e.body = "accepted" => works[<<i, e.n>>] # NoWork
            /\ e.body = "noop" => notes[<<i, e.n>>].kind = "noop"
            /\ e.body = "partial" => notes[<<i, e.n>>].missing

\* A continuation runs the capability its approval names and no other, once,
\* however often it is tried and whatever the model answers
\* (next_capability.go).
DirectiveRunsOnce ==
  \A i \in Inputs : Kind[i] = "continuation" =>
    /\ \A n \in 1..Rounds : (works[<<i, n>>] # NoWork \/ notes[<<i, n>>] # NoNote) =>
                              n = 1 /\ receipts[<<i, n>>] = "media"
    /\ frozen[i] # NotFrozen =>
         Cardinality({j \in DOMAIN frozen[i] : frozen[i][j].what = "call"}) = 1

\* Nothing of a turn is projected but its frozen output, each write once and
\* in order, whichever attempts did it (runtime_processor.go, router.go).
PublishedIsFrozen ==
  /\ \A s \in DOMAIN log : log[s].id.k = "turn" =>
       LET i == log[s].id.t
           ops == Ops(i, frozen[i])
       IN /\ frozen[i] # NotFrozen
          /\ \E k \in DOMAIN ops : ops[k].op = "event" /\ sameIdentity(log[s], EventRow(i, ops, k))
          /\ \A r \in 1..(s - 1) : (log[r].id.k = "turn" /\ log[r].id.t = i) =>
                                     log[r].id.n < log[s].id.n
  /\ \A s \in DOMAIN messages : messages[s].role = "agent" =>
       LET i == messages[s].run
           ops == Ops(i, frozen[i])
       IN /\ frozen[i] # NotFrozen
          /\ \E k \in DOMAIN ops : ops[k].op = "message" /\ messages[s] = MessageRow(i, ops, k)
          /\ \A r \in 1..(s - 1) : (messages[r].role = "agent" /\ messages[r].run = i) =>
                                     messages[r].id[2] < messages[s].id[2]

\* An input is resolved only when all its turn had to say is committed: the
\* events, live ones included, the messages, and the checkpoint that lets the
\* user answer an interrupt (or the receipt that they did).
DoneIsPublished ==
  \A i \in Inputs : input[i].st = "done" =>
    LET ops == Ops(i, frozen[i])
        Shown(e) == \E s \in Committed(log) : sameIdentity(log[s], e)
    IN /\ \A k \in DOMAIN ops :
            /\ ops[k].op = "event" => Shown(EventRow(i, ops, k))
            /\ ops[k].op = "message" => MessageRow(i, ops, k) \in ToSet(messages)
            /\ ops[k].op = "mapping" => mapping[i].st # "none"
            /\ ops[k].op = "resolved" => Asked(i).st = "resumed" /\ Shown(ResolvedRow(input[i].of))
       /\ \A j \in DOMAIN frozen[i] : frozen[i][j].live => Shown(LiveRow(i, frozen[i][j]))

\* What a turn reads of the users' turns: those that ended before it, whole,
\* in the order they ran, the latest of them without a gap, and its own
\* message last.  A message queued behind it, and half a turn, are never read
\* (transcript.go ApplyMessageWindow, FreezeTurnContextFromTerminalUserInputs).
ContextIsCausal ==
  \A w \in Workers : (at[w].pc \in {"ask", "model"} /\ at[w].n = 1) =>
    LET i == at[w].job
        before == SelectSeq(ran, LAMBDA j : Kind[j] = "user" /\ j # i
                              /\ \A p, q \in DOMAIN ran : ran[p] = i /\ ran[q] = j => q < p)
        Whole(j) == <<"user">> \o
          LET said == SelectSeq(Ops(j, frozen[j]), LAMBDA o : o.op = "message")
          IN [k \in DOMAIN said |-> said[k].body]
        users == SelectSeq(at[w].ctx, LAMBDA m : Kind[m.run] = "user")
        bodies == [k \in DOMAIN users |-> users[k].body]
    IN \E from \in 1..(Len(before) + 1) :
         bodies = FlattenSeq([j \in 1..(Len(before) - from + 1) |-> Whole(before[from + j - 1])])
                  \o (IF Kind[i] = "user" THEN <<"user">> ELSE <<>>)

\* The client has every row up to the last it has seen: no row is committed
\* behind its cursor, and a broken stream resumes where it broke (relay.go,
\* appendSessionEventOnceTx).
NoGap == /\ client.seen = 1..Max({0} \cup client.seen)
         /\ \A s \in Committed(log) : s <= client.cursor => s \in client.seen

\* Whatever fails on the way, the session comes to rest with every accepted
\* input processed to its end, and with everything that was committed to the
\* log shown to the client that watches it (Process, TailRelay.Relay).
SessionSettles ==
  []<>(/\ \A i \in Inputs : input[i].st \in {"none", "done"}
       /\ session.watched => Committed(log) \subseteq client.seen)
==============================================================================
