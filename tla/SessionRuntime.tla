--------------------------- MODULE SessionRuntime ---------------------------
(***************************************************************************)
(* The managers of the session runtime (sessionruntime/manager.go) and the *)
(* durable processor they run (server/runtime_processor.go), over the rows *)
(* of SessionStore.  A manager has at most one lane per session: a         *)
(* goroutine that takes the lease, recovers lost claims and then drains    *)
(* the inputs one at a time.  Between any two store calls the lease or the *)
(* claim may lapse and another process may take the session over.          *)
(*                                                                         *)
(* The processor calls the agent runner, freezes the complete output in    *)
(* the turn row and only then projects it into messages and events.  The   *)
(* projection is not fenced: a lane that lost the session may still be     *)
(* projecting.                                                             *)
(***************************************************************************)
EXTENDS SessionStore

CONSTANTS
  Undecodable,  \* inputs whose stored payload DecodeInput refuses
  Interrupts,   \* outputs that end in an interrupt request
  MaxFaults     \* how many failures the environment may produce

ASSUME RuntimeAssumption ==
  /\ Undecodable \subseteq Inputs
  /\ Interrupts \subseteq Outputs
  /\ MaxFaults \in Nat

VARIABLES
  lane,       \* what the lane of each manager is doing
  projected,  \* the outputs that reached messages and events, per input
  faults      \* how many failures there have been

vars == <<rows, lane, projected, faults>>

(* input: the claimed input; seen: the output BeginTurn returned; out: the *)
(* output the processor works with                                         *)
At(step) == [pc |-> step, input |-> Nobody, seen |-> NoOutput, out |-> NoOutput]

Init ==
  /\ InitRows
  /\ lane = [p \in Managers |-> At("off")]
  /\ projected = {}
  /\ faults = 0

Goto(p, step) == lane' = [lane EXCEPT ![p].pc = step]

(* Process returned an error: its result is dropped. *)
ProcessFails(p) == lane' = [lane EXCEPT ![p].pc = "failed", ![p].out = NoOutput]

(* The lane drops the input it was working on. *)
Leave(p, step) == lane' = [lane EXCEPT ![p] = At(step)]

-----------------------------------------------------------------------------
(* Ingress.  The relays only enqueue; the handlers enqueue, possibly again *)
(* for a repeated request, and then make sure that a lane runs.            *)

Enqueue(i) == EnqueueInput(i) /\ UNCHANGED <<lane, projected, faults>>

Submit(p, i) ==
  /\ lane[p].pc # "down"
  /\ EnqueueInput(i) \/ (input[i].status # "absent" /\ UNCHANGED rows)
  /\ lane' = IF lane[p].pc = "off" THEN [lane EXCEPT ![p].pc = "acquire"] ELSE lane
  /\ UNCHANGED <<projected, faults>>

Discover(p) ==
  /\ lane[p].pc = "off"
  /\ Runnable
  /\ Goto(p, "acquire")
  /\ UNCHANGED <<rows, projected, faults>>

-----------------------------------------------------------------------------
(* runReservedSession *)

Acquire(p) ==
  /\ lane[p].pc = "acquire"
  /\ \/ AcquireLease(p) /\ Goto(p, "recover")
     \/ lease.owner # p /\ lease.live /\ Goto(p, "off") /\ UNCHANGED rows
  /\ UNCHANGED <<projected, faults>>

Recover(p) ==
  /\ lane[p].pc = "recover"
  /\ RecoverExpiredInputs(p)
  /\ Goto(p, "poll")
  /\ UNCHANGED <<projected, faults>>

(* The idle timer is much longer than the poll interval: it fires only on  *)
(* a lane that has nothing to claim.                                       *)
Idle(p) ==
  /\ lane[p].pc = "poll"
  /\ Claimable = {}
  /\ Leave(p, "release")
  /\ UNCHANGED <<rows, projected, faults>>

Release(p) ==
  /\ lane[p].pc = "release"
  /\ ReleaseLease(p) \/ (~ValidFence(p) /\ UNCHANGED rows)
  /\ Leave(p, "off")
  /\ UNCHANGED <<projected, faults>>

(* A store call that refuses the fence or the claim ends the lane. *)
Rejected(p) ==
  /\ \/ lane[p].pc \in {"recover", "poll"} /\ ~ValidFence(p)
     \/ lane[p].pc \in {"prepare", "begin", "finish", "retry", "bury"}
          /\ ~Owns(p, lane[p].input)
  /\ Leave(p, "release")
  /\ UNCHANGED <<rows, projected, faults>>

-----------------------------------------------------------------------------
(* drain *)

Claim(p) ==
  /\ lane[p].pc = "poll"
  /\ \E i \in Inputs :
       /\ ClaimNext(p, i)
       /\ lane' = [lane EXCEPT ![p] = [At("prepare") EXCEPT !.input = i]]
  /\ UNCHANGED <<projected, faults>>

Poll(p) ==
  /\ lane[p].pc = "poll"
  /\ NoInputAvailable(p)
  /\ UNCHANGED <<lane, projected, faults>>

Prepare(p) ==
  /\ lane[p].pc = "prepare"
  /\ IF lane[p].input \in Undecodable
     THEN DeadInput(p, lane[p].input) /\ Leave(p, "poll")
     ELSE GetOrCreateTurn(p, lane[p].input) /\ Goto(p, "begin")
  /\ UNCHANGED <<projected, faults>>

Begin(p) ==
  /\ lane[p].pc = "begin"
  /\ BeginTurn(p, lane[p].input)
  /\ lane' = [lane EXCEPT ![p].pc = "run", ![p].seen = turn[lane[p].input].output]
  /\ UNCHANGED <<projected, faults>>

(* The heartbeat finds the lease or the claim gone; whatever the processor *)
(* returns is dropped.                                                     *)
HeartbeatFails(p) ==
  /\ lane[p].pc \in {"run", "save", "project"}
  /\ ~Owns(p, lane[p].input)
  /\ Leave(p, "release")
  /\ UNCHANGED <<rows, projected, faults>>

Finish(p) ==
  /\ lane[p].pc = "finish"
  /\ IF lane[p].out \in Interrupts THEN WaitForInterrupt(p, lane[p].input)
                                   ELSE CommitTurn(p, lane[p].input)
  /\ Leave(p, "poll")
  /\ UNCHANGED <<projected, faults>>

(* The processor returned an error.  A frozen output is never given up.    *)
Fail(p) ==
  LET i == lane[p].input
  IN  /\ lane[p].pc = "failed"
      /\ Goto(p, IF /\ input[i].attempts >= MaxAttempts
                    /\ lane[p].seen = NoOutput
                    /\ turn[i].output = NoOutput
                 THEN "bury" ELSE "retry")
      /\ UNCHANGED <<rows, projected, faults>>

Retry(p) ==
  /\ lane[p].pc = "retry"
  /\ RetryTurnAt(p, lane[p].input)
  /\ Leave(p, "poll")
  /\ UNCHANGED <<projected, faults>>

Bury(p) ==
  /\ lane[p].pc = "bury"
  /\ DeadTurn(p, lane[p].input)
  /\ Leave(p, "poll")
  /\ UNCHANGED <<projected, faults>>

-----------------------------------------------------------------------------
(* DurableAgentProcessor.Process *)

(* A batch continuation that needs no explanation commits without output.  *)
RunSilent(p) ==
  /\ lane[p].pc = "run"
  /\ Kind[lane[p].input] = "silent"
  /\ Goto(p, "finish")
  /\ UNCHANGED <<rows, projected, faults>>

(* The output BeginTurn returned is projected again; the runner is not     *)
(* called.                                                                 *)
Replay(p) ==
  /\ lane[p].pc = "run"
  /\ Kind[lane[p].input] # "silent"
  /\ lane[p].seen # NoOutput
  /\ lane' = [lane EXCEPT ![p].pc = "project", ![p].out = lane[p].seen]
  /\ UNCHANGED <<rows, projected, faults>>

NeedsContext(i) == Kind[i] \in {"approval", "batch"} /\ ~turn[i].frozen

Freeze(p) ==
  LET i == lane[p].input
  IN  /\ lane[p].pc = "run"
      /\ lane[p].seen = NoOutput
      /\ NeedsContext(i)
      /\ \/ FreezeTurnContext(p, i) /\ UNCHANGED lane
         \/ ~Owns(p, i) /\ ProcessFails(p) /\ UNCHANGED rows
      /\ UNCHANGED <<projected, faults>>

Invoke(p) ==
  LET i == lane[p].input
  IN  /\ lane[p].pc = "run"
      /\ Kind[i] # "silent"
      /\ lane[p].seen = NoOutput
      /\ ~NeedsContext(i)
      /\ \E o \in Outputs : lane' = [lane EXCEPT ![p].pc = "save", ![p].out = o]
      /\ UNCHANGED <<rows, projected, faults>>

Save(p) ==
  LET i == lane[p].input
  IN  /\ lane[p].pc = "save"
      /\ \/ SaveTurnOutput(p, i, lane[p].out) /\ Goto(p, "project")
         \/ /\ ~(Owns(p, i) /\ turn[i].output \in {NoOutput, lane[p].out})
            /\ ProcessFails(p)
            /\ UNCHANGED rows
      /\ UNCHANGED <<projected, faults>>

Project(p) ==
  /\ lane[p].pc = "project"
  /\ projected' = projected \cup {<<lane[p].input, lane[p].out>>}
  /\ Goto(p, "finish")
  /\ UNCHANGED <<rows, faults>>

-----------------------------------------------------------------------------
(* Failures *)

Fault == faults < MaxFaults /\ faults' = faults + 1

(* The runner call, or a read before it, fails. *)
RunnerFails(p) ==
  /\ Fault
  /\ lane[p].pc = "run"
  /\ ProcessFails(p)
  /\ UNCHANGED <<rows, projected>>

(* Projecting the frozen output fails, before or after its events. *)
ProjectFails(p) ==
  /\ Fault
  /\ lane[p].pc = "project"
  /\ projected' \in {projected, projected \cup {<<lane[p].input, lane[p].out>>}}
  /\ ProcessFails(p)
  /\ UNCHANGED rows

(* The approval continuation of a resume is claimed elsewhere. *)
Defer(p) ==
  /\ Fault
  /\ lane[p].pc = "project"
  /\ Kind[lane[p].input] = "resume"
  /\ Goto(p, "retry")
  /\ UNCHANGED <<rows, projected>>

(* A store call fails without effect, or its context is cancelled.  Also   *)
(* the release itself may fail; the lease then runs out.                   *)
StoreFails(p) ==
  /\ Fault
  /\ lane[p].pc \notin {"off", "acquire", "down"}
  /\ Leave(p, IF lane[p].pc = "release" THEN "off" ELSE "release")
  /\ UNCHANGED <<rows, projected>>

(* A process dies and never comes back under its owner id; another one     *)
(* survives.                                                               *)
Crash(p) ==
  /\ Fault
  /\ lane[p].pc # "down"
  /\ \E q \in Managers \ {p} : lane[q].pc # "down"
  /\ Leave(p, "down")
  /\ UNCHANGED <<rows, projected>>

(* A lane that runs renews its lease and its claim in time, unless it      *)
(* stalls, which is a failure.                                             *)
Attended == \E p \in Managers : ValidFence(p) /\ lane[p].pc \notin {"off", "acquire", "down"}
AttendedInput(i) == \E p \in Managers : lane[p].input = i /\ Owns(p, i)

LeaseLapses ==
  /\ LapseLease
  /\ IF Attended THEN Fault ELSE UNCHANGED faults
  /\ UNCHANGED <<lane, projected>>

ClaimLapses(i) ==
  /\ LapseClaim(i)
  /\ IF AttendedInput(i) THEN Fault ELSE UNCHANGED faults
  /\ UNCHANGED <<lane, projected>>

BackoffElapses(i) == ElapseBackoff(i) /\ UNCHANGED <<lane, projected, faults>>

-----------------------------------------------------------------------------
LaneStep(p) ==
  \/ Acquire(p) \/ Recover(p) \/ Idle(p) \/ Release(p) \/ Rejected(p)
  \/ Claim(p) \/ Poll(p) \/ Prepare(p) \/ Begin(p) \/ HeartbeatFails(p)
  \/ Finish(p) \/ Fail(p) \/ Retry(p) \/ Bury(p)
  \/ RunSilent(p) \/ Replay(p) \/ Freeze(p) \/ Invoke(p) \/ Save(p) \/ Project(p)

FaultStep(p) ==
  RunnerFails(p) \/ ProjectFails(p) \/ Defer(p) \/ StoreFails(p) \/ Crash(p)

Next ==
  \/ \E i \in Inputs : Enqueue(i) \/ ClaimLapses(i) \/ BackoffElapses(i)
  \/ \E p \in Managers, i \in Inputs : Submit(p, i)
  \/ \E p \in Managers : Discover(p) \/ LaneStep(p) \/ FaultStep(p)
  \/ LeaseLapses

Spec == Init /\ [][Next]_vars

(* A lease or a claim nobody renews runs out, and so does a back-off. *)
ClockStep ==
  \/ ~Attended /\ LeaseLapses
  \/ \E i \in Inputs : (~AttendedInput(i) /\ ClaimLapses(i)) \/ BackoffElapses(i)

(* Lanes run, discovery polls, clocks advance. *)
FairSpec ==
  /\ Spec
  /\ \A p \in Managers : WF_vars(Discover(p) \/ LaneStep(p))
  /\ WF_vars(ClockStep)

-----------------------------------------------------------------------------
(* Properties *)

(* Turns of a session are serial: at any time at most one input has been   *)
(* started and is not final, across takeovers, retries and backoff         *)
(* (ClaimNext, "A started input owns the lane").                           *)
OneHead == \A i, j \in Started : i = j

(* A dead input has exactly one terminal failure event, any other input    *)
(* none, whichever of DeadTurn, DeadInput and the budget of ClaimNext      *)
(* buried it and whether or not it had a turn by then.                     *)
OneFailureEvent ==
  \A i \in Inputs :
    Cardinality({k \in failures : k[1] = i}) = IF input[i].status = "dead" THEN 1 ELSE 0

(* A frozen output is never discarded: its input does not die, however     *)
(* many attempts crashed or failed to project it (drain, ClaimNext).  It   *)
(* is all that is ever projected, although the projection is not fenced    *)
(* (Process), and an input is resolved only once it is.                    *)
FrozenSurvives ==
  /\ \A i \in Inputs : turn[i].output # NoOutput =>
       /\ input[i].status # "dead" /\ turn[i].status # "dead"
       /\ input[i].status = "resolved" => <<i, turn[i].output>> \in projected
  /\ \A d \in projected : turn[d[1]].output = d[2]

(* Final inputs stay as they are; a frozen output and a frozen context     *)
(* never change, whichever lane writes.                                    *)
NothingIsUndone ==
  [][\A i \in Inputs :
       /\ input[i].status \in InputFinal => input'[i].status = input[i].status
       /\ turn[i].output # NoOutput => turn'[i].output = turn[i].output
       /\ turn[i].frozen => turn'[i].frozen /\ turn'[i].ctx = turn[i].ctx]_vars

(* Every input that was enqueued is resolved or dead in the end: one that  *)
(* used up its attempts without a frozen output goes to dead with its      *)
(* failure event (ClaimNext, the attempt budget).                          *)
InputsSettle ==
  \A i \in Inputs : input[i].status # "absent" ~> input[i].status \in InputFinal

(* An exhausted head nothing waits behind: ClaimNext buries it only in the *)
(* transaction that claims another input.                                  *)
Stranded(i) == Exhausted(i) /\ Claimable = {}

(* No claim, backoff or lease of a lane that stalled or died keeps an      *)
(* input waiting (Discover, RecoverExpiredInputs): in the end every input  *)
(* that was enqueued is resolved or dead, but for an exhausted one that is *)
(* the last of its session.                                                *)
InputsSettleOrStrand ==
  <>[](\A i \in Inputs : input[i].status \in InputFinal \cup {"absent"} \/ Stranded(i))
=============================================================================
