---------------------------- MODULE SessionStore ----------------------------
(***************************************************************************)
(* The durable rows of one chat session and the store operations that      *)
(* change them (internal/aigc/sessionruntime): the inputs waiting for a    *)
(* turn, the turn of each input, the runtime lease of the session and the  *)
(* terminal failure events.  The store is PostgresStore, the one the agent *)
(* process builds: every operation runs in one transaction and starts by   *)
(* validating the caller's fence.                                          *)
(*                                                                         *)
(* A FenceToken is only ever compared with the token of the lease row, and *)
(* the token changes exactly when the lease changes owner.  The model      *)
(* keeps the result of the comparison: fence[p] says that the token p's    *)
(* lane holds is the row's token, claim.fence that the ClaimFence of an    *)
(* input is.  A token belongs to one owner, so the owner comparisons of    *)
(* the code are implied.  Time is abstracted the same way: `live` says     *)
(* that a LeaseUntil lies in the future, `due` that AvailableAt does not.  *)
(***************************************************************************)
EXTENDS Integers, FiniteSets

CONSTANTS
  Inputs,       \* the inputs that may be enqueued for the session
  Kind,         \* the type of each input
  Managers,     \* session runtime managers, one per process
  Nobody,       \* no owner, no input
  Outputs,      \* what a runner call may return
  NoOutput,     \* an empty OutputPayload
  MaxAttempts   \* the ordinary attempt budget of an input

(* silent: a batch continuation that needs no explanation by the agent *)
Kinds == {"user", "resume", "approval", "batch", "silent"}

ASSUME SessionAssumption ==
  /\ IsFiniteSet(Inputs)
  /\ Kind \in [Inputs -> Kinds]
  /\ Nobody \notin Managers \cup Inputs
  /\ NoOutput \notin Outputs
  /\ MaxAttempts \in Nat \ {0}

VARIABLES
  input,     \* SessionInputRecord of each input
  turn,      \* SessionTurnRun of each input (turn ids are derived from input ids)
  lease,     \* SessionRuntimeLease
  fence,     \* whether the token of a manager's lane is the lease row's
  failures   \* source keys of the terminal failure events in the event log

rows == <<input, turn, lease, fence, failures>>

Priority(i) ==
  CASE Kind[i] = "user" -> 300
    [] Kind[i] \in {"resume", "approval"} -> 200
    [] Kind[i] \in {"batch", "silent"} -> 100

InputFinal == {"resolved", "dead"}
TurnFinal == {"waiting_interrupt", "committed", "dead"}
Waiting == {"pending", "retry_wait"}
Held == {"claimed", "running"}

NoClaim == [fence |-> FALSE, live |-> FALSE]
NoInput == [status |-> "absent", attempts |-> 0, seq |-> 0, due |-> FALSE,
            claim |-> NoClaim]
NoTurn == [status |-> "absent", output |-> NoOutput, ctx |-> 0, frozen |-> FALSE]

InitRows ==
  /\ input = [i \in Inputs |-> NoInput]
  /\ turn = [i \in Inputs |-> NoTurn]
  /\ lease = [owner |-> Nobody, live |-> FALSE]
  /\ fence = [p \in Managers |-> FALSE]
  /\ failures = {}

-----------------------------------------------------------------------------
(* Fences.  Owns is what every turn operation checks: the fence of the     *)
(* caller and its claim on the input.                                      *)

ValidFence(p) == fence[p] /\ lease.live

Owns(p, i) ==
  /\ ValidFence(p)
  /\ input[i].status \in Held
  /\ input[i].claim.fence /\ input[i].claim.live

-----------------------------------------------------------------------------
(* The queue.  A repeated EnqueueInput finds the row and changes nothing.  *)
(* The message of a user input takes its sequence number in the same       *)
(* transaction, under the session lock, so seq also orders the messages.   *)

EnqueueInput(i) ==
  /\ input[i].status = "absent"
  /\ input' = [input EXCEPT ![i] =
       [status |-> "pending", attempts |-> 0, due |-> TRUE, claim |-> NoClaim,
        seq |-> Cardinality({j \in Inputs : input[j].status # "absent"}) + 1]]
  /\ UNCHANGED <<turn, lease, fence, failures>>

Started == {i \in Inputs : input[i].attempts > 0 /\ input[i].status \notin InputFinal}

Ready(i) == input[i].status \in Waiting /\ input[i].due

Oldest(S) == {i \in S : \A j \in S : input[i].seq <= input[j].seq}

(* Mutant: an input whose claim lapsed is not discovered. *)
RunnableReadyOnly ==
  \E i \in IF Started # {} THEN Oldest(Started)
           ELSE {j \in Inputs : input[j].attempts = 0} : Ready(i)

(* The started head blocks the session; it strands when its claim lapses. *)
Runnable ==
  \E i \in IF Started # {} THEN Oldest(Started)
           ELSE {j \in Inputs : input[j].attempts = 0} :
    Ready(i) \/ (input[i].status \in Held /\ ~input[i].claim.live)

(* Mutant: the budget is applied to an input with a frozen output, too. *)
ExhaustedAnyway(i) == Ready(i) /\ input[i].attempts >= MaxAttempts

Exhausted(i) ==
  Ready(i) /\ input[i].attempts >= MaxAttempts /\ turn[i].output = NoOutput

(* The started heads the loop of ClaimNext buries before it finds a head   *)
(* it may not bury.                                                        *)
Doomed ==
  {i \in Started : \A j \in Started : input[j].seq <= input[i].seq => Exhausted(j)}

(* Mutant: a started input that backs off, or is held, lets others pass. *)
ClaimableBypass ==
  LET heads == {i \in Started \ Doomed : Ready(i)}
      fresh == {i \in Inputs : Ready(i) /\ input[i].attempts = 0}
      best  == {i \in fresh : \A j \in fresh : Priority(i) >= Priority(j)}
  IN  IF heads # {} THEN Oldest(heads) ELSE Oldest(best)

(* The input ClaimNext settles on: the oldest started one, ready or not,   *)
(* or else the best of those never started.                                *)
Claimable ==
  LET heads == Started \ Doomed
      fresh == {i \in Inputs : Ready(i) /\ input[i].attempts = 0}
      best  == {i \in fresh : \A j \in fresh : Priority(i) >= Priority(j)}
  IN  IF heads # {} THEN {i \in Oldest(heads) : Ready(i)} ELSE Oldest(best)

(* The event is keyed by the turn when the input has one. *)
FailureKey(i) == <<i, IF turn[i].status = "absent" THEN "input" ELSE "turn">>

(* The rows after the inputs of S died of their attempt budget. *)
BuriedInput(i) == [input[i] EXCEPT !.status = "dead", !.claim = NoClaim]
BuriedTurn(i) ==
  IF turn[i].status \in TurnFinal \cup {"absent"} THEN turn[i]
  ELSE [turn[i] EXCEPT !.status = "dead"]

(* Attempts only matter up to the budget; the count stops there. *)
ClaimedInput(i) ==
  [input[i] EXCEPT !.status = "claimed", !.claim = [fence |-> TRUE, live |-> TRUE],
     !.attempts = IF @ < MaxAttempts THEN @ + 1 ELSE @]

ClaimNext(p, i) ==
  /\ ValidFence(p)
  /\ i \in Claimable
  /\ input' = [j \in Inputs |-> IF j = i THEN ClaimedInput(j)
                                ELSE IF j \in Doomed THEN BuriedInput(j) ELSE input[j]]
  /\ turn' = [j \in Inputs |-> IF j \in Doomed THEN BuriedTurn(j) ELSE turn[j]]
  /\ failures' = failures \cup {FailureKey(j) : j \in Doomed}
  /\ UNCHANGED <<lease, fence>>

(* ErrNoInputAvailable: the error rolls the transaction back, and with it  *)
(* what the loop buried.                                                   *)
NoInputAvailable(p) == ValidFence(p) /\ Claimable = {} /\ UNCHANGED rows

-----------------------------------------------------------------------------
(* The lease of the session and the claims under it.                       *)

(* The same owner keeps its token; a new owner gets the next one, which    *)
(* fences off every other lane and every claim made before.                *)
AcquireLease(p) ==
  /\ lease.owner = p \/ ~lease.live
  /\ lease' = [owner |-> p, live |-> TRUE]
  /\ fence' = [q \in Managers |-> q = p]
  /\ input' = IF lease.owner = p THEN input
              ELSE [i \in Inputs |-> [input[i] EXCEPT !.claim.fence = FALSE]]
  /\ UNCHANGED <<turn, failures>>

ReleaseLease(p) ==
  /\ ValidFence(p)
  /\ lease' = [lease EXCEPT !.live = FALSE]
  /\ UNCHANGED <<input, turn, fence, failures>>

(* A claim never outlives the lease it was made under (cappedLeaseUntil),  *)
(* so when the lease lapses every claim has lapsed.                        *)
LapseLease ==
  /\ lease.live
  /\ lease' = [lease EXCEPT !.live = FALSE]
  /\ input' = [i \in Inputs |-> [input[i] EXCEPT !.claim.live = FALSE]]
  /\ UNCHANGED <<turn, fence, failures>>

LapseClaim(i) ==
  /\ input[i].claim.live
  /\ input' = [input EXCEPT ![i].claim.live = FALSE]
  /\ UNCHANGED <<turn, lease, fence, failures>>

ElapseBackoff(i) ==
  /\ input[i].status = "retry_wait" /\ ~input[i].due
  /\ input' = [input EXCEPT ![i].due = TRUE]
  /\ UNCHANGED <<turn, lease, fence, failures>>

RecoverExpiredInputs(p) ==
  LET lost == {i \in Inputs : /\ input[i].status \in Held
                              /\ ~(input[i].claim.fence /\ input[i].claim.live)}
  IN  /\ ValidFence(p)
      /\ input' = [i \in Inputs |->
           IF i \in lost THEN [input[i] EXCEPT !.status = "retry_wait", !.due = TRUE,
                                               !.claim = NoClaim]
           ELSE input[i]]
      /\ turn' = [i \in Inputs |->
           IF i \in lost /\ turn[i].status \notin TurnFinal \cup {"absent"}
           THEN [turn[i] EXCEPT !.status = "retry_wait"] ELSE turn[i]]
      /\ UNCHANGED <<lease, fence, failures>>

-----------------------------------------------------------------------------
(* The turn of a claimed input.                                            *)

(* Mutant: every attempt starts a new turn. *)
CreateTurn(p, i) ==
  /\ Owns(p, i)
  /\ turn' = [turn EXCEPT ![i] =
       [status |-> "prepared", output |-> NoOutput,
        ctx |-> IF Kind[i] = "user" THEN input[i].seq ELSE 0,
        frozen |-> Kind[i] = "user"]]
  /\ UNCHANGED <<input, lease, fence, failures>>

GetOrCreateTurn(p, i) ==
  /\ Owns(p, i)
  /\ turn' = IF turn[i].status # "absent" THEN turn
             ELSE [turn EXCEPT ![i] =
                    [status |-> "prepared", output |-> NoOutput,
                     ctx |-> IF Kind[i] = "user" THEN input[i].seq ELSE 0,
                     frozen |-> Kind[i] = "user"]]
  /\ UNCHANGED <<input, lease, fence, failures>>

BeginTurn(p, i) ==
  /\ Owns(p, i)
  /\ turn[i].status \in {"prepared", "retry_wait", "running"}
  /\ turn' = [turn EXCEPT ![i].status = "running"]
  /\ input' = [input EXCEPT ![i].status = "running"]
  /\ UNCHANGED <<lease, fence, failures>>

(* Up to the newest user message whose input is final. *)
TerminalBoundary ==
  LET done == {input[j].seq : j \in {u \in Inputs : Kind[u] = "user" /\
                                       input[u].status \in InputFinal}} \cup {0}
  IN  CHOOSE n \in done : \A m \in done : m <= n

(* The boundary is read before the transaction that stores it.  No user    *)
(* input becomes final in between unless the caller lost its claim, and    *)
(* then nothing is stored.                                                 *)
FreezeTurnContext(p, i) ==
  /\ Owns(p, i)
  /\ turn[i].status \in {"running", "retry_wait"}
  /\ turn' = IF turn[i].frozen THEN turn
             ELSE [turn EXCEPT ![i].ctx = TerminalBoundary, ![i].frozen = TRUE]
  /\ UNCHANGED <<input, lease, fence, failures>>

(* First write wins; the same payload again is accepted, another one not.  *)
SaveTurnOutput(p, i, o) ==
  /\ Owns(p, i)
  /\ turn[i].status \in {"running", "retry_wait"}
  /\ turn[i].output \in {NoOutput, o}
  /\ turn' = [turn EXCEPT ![i].output = o]
  /\ UNCHANGED <<input, lease, fence, failures>>

FinishTurn(p, i, status) ==
  /\ Owns(p, i)
  /\ turn[i].status = "running"
  /\ turn' = [turn EXCEPT ![i].status = status]
  /\ input' = [input EXCEPT ![i].status = "resolved", ![i].claim = NoClaim]
  /\ UNCHANGED <<lease, fence, failures>>

CommitTurn(p, i) == FinishTurn(p, i, "committed")

WaitForInterrupt(p, i) == FinishTurn(p, i, "waiting_interrupt")

RetryTurnAt(p, i) ==
  /\ Owns(p, i)
  /\ turn[i].status \in {"prepared", "running", "retry_wait"}
  /\ turn' = [turn EXCEPT ![i].status = "retry_wait"]
  /\ input' = [input EXCEPT ![i].status = "retry_wait", ![i].due = FALSE,
                            ![i].claim = NoClaim]
  /\ UNCHANGED <<lease, fence, failures>>

(* Mutant: the turn dies without its terminal event. *)
DeadTurnQuietly(p, i) ==
  /\ Owns(p, i)
  /\ turn[i].status \notin TurnFinal
  /\ turn' = [turn EXCEPT ![i].status = "dead"]
  /\ input' = [input EXCEPT ![i].status = "dead", ![i].claim = NoClaim]
  /\ UNCHANGED <<lease, fence, failures>>

DeadTurn(p, i) ==
  /\ Owns(p, i)
  /\ turn[i].status \notin TurnFinal
  /\ failures' = failures \cup {FailureKey(i)}
  /\ turn' = [turn EXCEPT ![i].status = "dead"]
  /\ input' = [input EXCEPT ![i].status = "dead", ![i].claim = NoClaim]
  /\ UNCHANGED <<lease, fence>>

DeadInput(p, i) ==
  /\ Owns(p, i)
  /\ failures' = failures \cup {FailureKey(i)}
  /\ input' = [input EXCEPT ![i].status = "dead", ![i].claim = NoClaim]
  /\ UNCHANGED <<turn, lease, fence>>
=============================================================================
