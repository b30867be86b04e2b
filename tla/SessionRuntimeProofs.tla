------------------------ MODULE SessionRuntimeProofs ------------------------
(***************************************************************************)
(* What SessionRuntime guarantees for any inputs, managers, outputs and     *)
(* attempt budget, for both stores and every kind of failure.               *)
(*                                                                          *)
(* The argument has two parts.  The first is about the rows alone: every    *)
(* operation of SessionStore keeps RowsInv and undoes nothing, if it is     *)
(* called as the manager calls it.  The second is about the lanes: LaneInv  *)
(* says what a lane, however late, still knows of the rows.                 *)
(***************************************************************************)
EXTENDS SessionRuntime, FiniteSetTheorems, TLAPS

InputStatuses == {"absent"} \cup Waiting \cup Held \cup InputFinal
TurnStatuses == {"absent", "prepared", "running", "retry_wait"} \cup TurnFinal

(* The fields the argument is about have types; the others are free. *)
InputRow(r) ==
  [status : InputStatuses, attempts : Nat, seq : Nat, due : {r.due}, claim : {r.claim}]
TurnRow(r) ==
  [status : TurnStatuses, output : Outputs \cup {NoOutput}, ctx : {r.ctx}, frozen : {r.frozen}]

RowTypes ==
  /\ input = [i \in Inputs |-> input[i]]
  /\ turn = [i \in Inputs |-> turn[i]]
  /\ \A i \in Inputs : input[i] \in InputRow(input[i]) /\ turn[i] \in TurnRow(turn[i])

(* Only one manager has the token of the lease row. *)
OneFence == \A p, q \in Managers : fence[p] /\ fence[q] => p = q

(* An output needs a turn, a payload that decodes and a runner, and keeps  *)
(* its input from dying.                                                   *)
OutputsJustified ==
  \A i \in Inputs :
    /\ turn[i].status = "absent" => turn[i].output = NoOutput /\ ~turn[i].frozen
    /\ i \in Undecodable => turn[i].status = "absent"
    /\ Kind[i] = "silent" => turn[i].output = NoOutput
    /\ turn[i].output # NoOutput => input[i].status # "dead" /\ turn[i].status # "dead"

(* OneFailureEvent without cardinalities. *)
EventOf(i, k) == k \in failures /\ k[1] = i

FailuresMatch ==
  \A i \in Inputs :
    /\ input[i].status # "dead" => ~\E k \in failures : EventOf(i, k)
    /\ input[i].status = "dead" =>
         \E k \in failures : EventOf(i, k) /\ \A l \in failures : EventOf(i, l) => l = k

RowsInv == RowTypes /\ OneFence /\ OutputsJustified /\ FailuresMatch /\ OneHead

(* What no operation does: the body of NothingIsUndone. *)
NothingUndone ==
  \A i \in Inputs :
    /\ input[i].status \in InputFinal => input'[i].status = input[i].status
    /\ turn[i].output # NoOutput => turn'[i].output = turn[i].output
    /\ turn[i].frozen => turn'[i].frozen /\ turn'[i].ctx = turn[i].ctx

(* Only SaveTurnOutput gives a turn its output. *)
OutputsKept == \A i \in Inputs : turn'[i].output = turn[i].output

(* Only FinishTurn resolves an input. *)
NoneResolved ==
  \A i \in Inputs : input'[i].status = "resolved" => input[i].status = "resolved"

Kept == RowsInv' /\ NothingUndone /\ OutputsKept /\ NoneResolved

-----------------------------------------------------------------------------
(* Operations that leave status, attempts and turns of all inputs alone,   *)
(* such as the passing of time.                                            *)
LEMMA QuietStep ==
  ASSUME RowsInv,
         input' = [i \in Inputs |-> input'[i]],
         \A i \in Inputs : /\ input'[i] \in InputRow(input'[i])
                           /\ input'[i].status = input[i].status
                           /\ input'[i].attempts = input[i].attempts,
         UNCHANGED <<turn, failures>>, OneFence'
  PROVE  Kept
  <1>1. RowTypes'
    BY Zenon DEF RowsInv, RowTypes
  <1>2. OutputsJustified' /\ FailuresMatch'
    BY DEF RowsInv, OutputsJustified, FailuresMatch, EventOf
  <1>3. OneHead'
    BY Zenon DEF RowsInv, OneHead, Started
  <1>4. NothingUndone /\ OutputsKept /\ NoneResolved
    BY Zenon DEF NothingUndone, OutputsKept, NoneResolved
  <1> QED
    BY Zenon, <1>1, <1>2, <1>3, <1>4 DEF RowsInv, Kept

(* Operations of an owner on its input and the turn of that input. *)
LEMMA OwnerStep ==
  ASSUME RowsInv, NEW i \in Inputs,
         input' = [input EXCEPT ![i] = input'[i]],
         input'[i] \in InputRow(input'[i]),
         input[i].status \notin InputFinal, input'[i].status # "dead",
         input'[i].attempts = input[i].attempts,
         turn' = [turn EXCEPT ![i] = turn'[i]],
         turn'[i] \in TurnRow(turn'[i]),
         i \notin Undecodable, turn'[i].status \notin {"absent", "dead"},
         turn[i].output # NoOutput => turn'[i].output = turn[i].output,
         turn[i].frozen => turn'[i].frozen /\ turn'[i].ctx = turn[i].ctx,
         Kind[i] = "silent" => turn'[i].output = NoOutput,
         UNCHANGED <<fence, failures>>
  PROVE  RowsInv' /\ NothingUndone
  <1>0. /\ DOMAIN turn = Inputs /\ DOMAIN input = Inputs
        /\ turn' = [j \in Inputs |-> turn'[j]]
        /\ input' = [j \in Inputs |-> input'[j]]
        /\ \A j \in Inputs : j # i => turn'[j] = turn[j] /\ input'[j] = input[j]
    BY Zenon DEF RowsInv, RowTypes
  <1>1. RowTypes'
    BY Zenon, <1>0 DEF RowsInv, RowTypes
  <1>2. OneFence' /\ FailuresMatch'
    BY <1>0 DEF RowsInv, OneFence, FailuresMatch, EventOf, InputFinal
  <1>3. OneHead'
    BY <1>0 DEF RowsInv, OneHead, Started
  <1>4. OutputsJustified'
    BY <1>0 DEF RowsInv, OutputsJustified
  <1>5. NothingUndone
    BY Zenon, <1>0 DEF NothingUndone
  <1> QED
    BY Zenon, <1>1, <1>2, <1>3, <1>4, <1>5 DEF RowsInv

(* Operations that bury the inputs of D, none of them with an output, and  *)
(* append the terminal events for them.                                    *)
LEMMA BurialStep ==
  ASSUME RowsInv, NEW D \in SUBSET Inputs,
         \A j \in D : input[j].status # "dead" /\ turn[j].output = NoOutput,
         \A j \in Inputs : input'[j].status = "dead" <=> j \in D \/ input[j].status = "dead",
         failures' = failures \cup {FailureKey(j) : j \in D}
  PROVE  FailuresMatch'
  <1> SUFFICES ASSUME NEW i \in Inputs
               PROVE  /\ input'[i].status # "dead" => ~\E k \in failures' : EventOf(i, k)'
                      /\ input'[i].status = "dead" =>
                           \E k \in failures' : EventOf(i, k)' /\
                              \A l \in failures' : EventOf(i, l)' => l = k
    BY Zenon DEF FailuresMatch
  <1>1. \A j \in D : FailureKey(j)[1] = j
    BY Zenon DEF FailureKey
  <1>2. \A k : EventOf(i, k)' <=> EventOf(i, k) \/ (i \in D /\ k = FailureKey(i))
    BY <1>1 DEF EventOf
  <1>3. CASE i \in D
    <2>1. ~\E k \in failures : EventOf(i, k)
      BY Zenon, <1>3 DEF RowsInv, FailuresMatch
    <2>2. \A k : EventOf(i, k)' <=> k = FailureKey(i)
      BY Zenon, <1>2, <1>3, <2>1 DEF EventOf
    <2> QED
      BY <1>3, <2>2 DEF EventOf
  <1>4. CASE i \notin D
    <2>1. \A k : EventOf(i, k)' <=> EventOf(i, k)
      BY Zenon, <1>2, <1>4
    <2>2. input'[i].status = "dead" <=> input[i].status = "dead"
      BY Zenon, <1>4
    <2> QED
      BY <2>1, <2>2 DEF RowsInv, FailuresMatch, EventOf
  <1> QED
    BY Zenon, <1>3, <1>4
-----------------------------------------------------------------------------
(* The operations of SessionStore.                                         *)

(* A new input is not started, so it does not contend for the head. *)
LEMMA EnqueueRows ==
  ASSUME RowsInv, NEW i \in Inputs, EnqueueInput(i)
  PROVE  Kept
  <1>0. Cardinality({j \in Inputs : input[j].status # "absent"}) \in Nat
    BY Zenon, SessionAssumption, FS_Subset, FS_CardinalityType
  <1>1. /\ input' = [j \in Inputs |-> input'[j]]
        /\ \A j \in Inputs : j # i => input'[j] = input[j]
        /\ input[i].status = "absent" /\ input'[i].status = "pending"
        /\ input'[i].attempts = 0 /\ input'[i] \in InputRow(input'[i])
        /\ UNCHANGED <<turn, fence, failures>>
    <2>1. DOMAIN input = Inputs
      BY Zenon DEF RowsInv, RowTypes
    <2> DEFINE n == Cardinality({j \in Inputs : input[j].status # "absent"}) + 1
    <2>2. input'[i] = [status |-> "pending", attempts |-> 0, due |-> TRUE,
                       claim |-> NoClaim, seq |-> n]
      BY Zenon, <2>1 DEF EnqueueInput
    <2>3. n \in Nat
      BY <1>0
    <2> HIDE DEF n
    <2>4. input'[i] \in InputRow(input'[i])
      BY <2>2, <2>3 DEF InputRow, InputStatuses, Waiting
    <2> QED
      BY Zenon, <2>1, <2>2, <2>4 DEF EnqueueInput
  <1>2. RowTypes'
    BY Zenon, <1>1 DEF RowsInv, RowTypes
  <1>3. OneFence' /\ FailuresMatch' /\ OutputsJustified'
    BY <1>1 DEF RowsInv, OneFence, FailuresMatch, EventOf, OutputsJustified
  <1>4. OneHead'
    BY <1>1 DEF RowsInv, OneHead, Started
  <1>5. NothingUndone /\ OutputsKept /\ NoneResolved
    BY Zenon, <1>1 DEF NothingUndone, OutputsKept, NoneResolved, InputFinal
  <1> QED
    BY Zenon, <1>2, <1>3, <1>4, <1>5 DEF RowsInv, Kept

(* ClaimNext buries waiting inputs without an output only. *)
LEMMA DoomedHasNoOutput ==
  ASSUME RowsInv
  PROVE  /\ Doomed \in SUBSET Inputs
         /\ \A j \in Doomed : /\ input[j].status \in Waiting
                              /\ input[j].attempts > 0
                              /\ turn[j].output = NoOutput
  <1>1. \A j \in Inputs : input[j].attempts \in Nat /\ input[j].seq <= input[j].seq
    BY DEF RowsInv, RowTypes, InputRow
  <1> QED
    BY Zenon, <1>1 DEF Doomed, Started, Exhausted, Ready

(* Burying the doomed heads and claiming C, which is empty or one input. *)
LEMMA ClaimRows ==
  ASSUME RowsInv, NEW C \in SUBSET Inputs,
         \A j, k \in C : j = k,
         \A j \in C : j \notin Doomed /\ input[j].status \in Waiting,
         \A j \in Started \ Doomed : C # {} => j \in C,
         input' = [j \in Inputs |-> IF j \in C THEN ClaimedInput(j)
                                    ELSE IF j \in Doomed THEN BuriedInput(j) ELSE input[j]],
         turn' = [j \in Inputs |-> IF j \in Doomed THEN BuriedTurn(j) ELSE turn[j]],
         failures' = failures \cup {FailureKey(j) : j \in Doomed},
         UNCHANGED fence
  PROVE  Kept
  <1>1. \A j \in C : /\ input'[j].status = "claimed"
                     /\ input'[j] \in InputRow(input'[j])
                     /\ turn'[j] = turn[j]
    <2> TAKE j \in C
    <2>1. /\ input[j] \in InputRow(input[j])
          /\ input'[j] = ClaimedInput(j)
          /\ turn'[j] = turn[j]
      BY Zenon DEF RowsInv, RowTypes
    <2> DEFINE n == IF input[j].attempts < MaxAttempts THEN input[j].attempts + 1
                    ELSE input[j].attempts
               c == [fence |-> TRUE, live |-> TRUE]
    <2>2. ClaimedInput(j) = [input[j] EXCEPT !.status = "claimed", !.claim = c, !.attempts = n]
      BY Zenon, <2>1 DEF ClaimedInput, InputRow
    <2>3. n \in Nat
      BY <2>1 DEF InputRow
    <2> HIDE DEF n, c
    <2>4. ClaimedInput(j) \in InputRow(ClaimedInput(j)) /\ ClaimedInput(j).status = "claimed"
      BY Zenon, <2>1, <2>2, <2>3 DEF InputRow, InputStatuses, Held
    <2> QED
      BY Zenon, <2>1, <2>4
  <1>2. \A j \in Doomed : /\ input'[j].status = "dead"
                          /\ input'[j] \in InputRow(input'[j])
                          /\ turn'[j] \in TurnRow(turn'[j])
                          /\ turn'[j].output = NoOutput
                          /\ turn'[j].frozen = turn[j].frozen
                          /\ turn'[j].ctx = turn[j].ctx
                          /\ turn[j].status = "absent" <=> turn'[j].status = "absent"
    <2> TAKE j \in Doomed
    <2>1. /\ j \in Inputs /\ j \notin C /\ turn[j].output = NoOutput
          /\ input[j] \in InputRow(input[j]) /\ turn[j] \in TurnRow(turn[j])
      BY Zenon, DoomedHasNoOutput DEF RowsInv, RowTypes
    <2>2. input'[j] = BuriedInput(j) /\ turn'[j] = BuriedTurn(j)
      BY Zenon, <2>1
    <2>3. BuriedInput(j).status = "dead" /\ BuriedInput(j) \in InputRow(BuriedInput(j))
      BY Zenon, <2>1 DEF BuriedInput, InputRow, InputStatuses, InputFinal
    <2>4. CASE turn[j].status \in TurnFinal \cup {"absent"}
      BY Zenon, <2>1, <2>2, <2>3, <2>4 DEF BuriedTurn
    <2>5. CASE turn[j].status \notin TurnFinal \cup {"absent"}
      <3>1. BuriedTurn(j) = [turn[j] EXCEPT !.status = "dead"]
        BY Zenon, <2>5 DEF BuriedTurn
      <3> QED
        BY Zenon, <2>1, <2>2, <2>3, <2>5, <3>1 DEF TurnRow, TurnStatuses, TurnFinal
    <2> QED
      BY Zenon, <2>4, <2>5
  <1>3. \A j \in Inputs \ (C \cup Doomed) : input'[j] = input[j] /\ turn'[j] = turn[j]
    BY Zenon
  <1>4. RowTypes'
    BY Zenon, <1>1, <1>2, <1>3 DEF RowsInv, RowTypes
  <1>5. OneFence'
    BY Zenon DEF RowsInv, OneFence
  <1>6. OutputsJustified'
    BY ZenonT(60), <1>1, <1>2, <1>3 DEF RowsInv, OutputsJustified
  <1>7. FailuresMatch'
    <2>1. \A j \in Doomed : input[j].status # "dead" /\ turn[j].output = NoOutput
      BY Zenon, DoomedHasNoOutput DEF Waiting
    <2>2. \A j \in Inputs : input'[j].status = "dead" <=> j \in Doomed \/ input[j].status = "dead"
      <3>1. \A j \in Inputs \ (C \cup Doomed) : input'[j].status = input[j].status
        BY Zenon, <1>3
      <3>2. \A j \in C : input'[j].status # "dead" /\ input[j].status # "dead" /\ j \notin Doomed
        BY Zenon, <1>1 DEF Waiting
      <3>3. \A j \in Doomed : input'[j].status = "dead"
        BY Zenon, <1>2
      <3> QED BY Zenon, <3>1, <3>2, <3>3
    <2> QED
      BY Zenon, <2>1, <2>2, BurialStep, DoomedHasNoOutput
  <1>8. OneHead'
    <2>1. \A j \in Started' : j \in C \/ j \in Started \ Doomed
      BY Zenon, <1>1, <1>2, <1>3 DEF Started, InputFinal
    <2> QED
      BY Zenon, <2>1 DEF RowsInv, OneHead
  <1>9. NothingUndone /\ OutputsKept /\ NoneResolved
    <2>1. \A j \in Inputs : /\ turn'[j].output = turn[j].output
                            /\ turn'[j].frozen = turn[j].frozen
                            /\ turn'[j].ctx = turn[j].ctx
      <3> TAKE j \in Inputs
      <3>1. CASE j \in Doomed
        <4>1. turn[j].output = NoOutput
          BY Zenon, <3>1, DoomedHasNoOutput
        <4>2. /\ turn'[j].output = NoOutput
              /\ turn'[j].frozen = turn[j].frozen
              /\ turn'[j].ctx = turn[j].ctx
          BY Zenon, <1>2, <3>1
        <4> QED
          BY Zenon, <4>1, <4>2
      <3>2. CASE j \notin Doomed
        BY Zenon, <1>1, <1>3, <3>2
      <3> QED
        BY Zenon, <3>1, <3>2
    <2>2. \A j \in C \cup Doomed : input[j].status \notin InputFinal
      BY Zenon, DoomedHasNoOutput DEF InputFinal, Waiting
    <2>3. NoneResolved
      BY Zenon, <1>1, <1>2, <1>3 DEF NoneResolved
    <2> QED
      BY Zenon, <1>3, <2>1, <2>2, <2>3 DEF NothingUndone, OutputsKept
  <1> QED
    BY Zenon, <1>4, <1>5, <1>6, <1>7, <1>8, <1>9 DEF RowsInv, Kept

(* The claimed input is the head there is, or there is none left. *)
LEMMA ClaimNextRows ==
  ASSUME RowsInv, NEW p \in Managers, NEW i \in Inputs, ClaimNext(p, i)
  PROVE  Kept
  <1>1. input[i].status \in Waiting /\ i \notin Doomed
    <2>1. CASE Started \ Doomed # {}
      BY Zenon, <2>1 DEF ClaimNext, Claimable, Oldest, Ready
    <2>2. CASE Started \ Doomed = {}
      <3>1. Ready(i) /\ input[i].attempts = 0
        BY Zenon, <2>2 DEF ClaimNext, Claimable, Oldest
      <3> QED
        BY <3>1, DoomedHasNoOutput DEF Ready
    <2> QED
      BY Zenon, <2>1, <2>2
  <1>2. \A j \in Started \ Doomed : j = i
    BY Zenon DEF ClaimNext, Claimable, Oldest, RowsInv, OneHead
  <1>3. input' = [j \in Inputs |-> IF j \in {i} THEN ClaimedInput(j)
                                   ELSE IF j \in Doomed THEN BuriedInput(j) ELSE input[j]]
    BY Zenon DEF ClaimNext
  <1> QED
    BY ZenonT(60), <1>1, <1>2, <1>3, ClaimRows DEF ClaimNext

(* A refused call leaves the rows alone. *)
LEMMA UnchangedRows ==
  ASSUME RowsInv, UNCHANGED rows
  PROVE  Kept
  BY DEF RowsInv, RowTypes, OneFence, OutputsJustified, FailuresMatch, EventOf, OneHead,
     Started, Kept, NothingUndone, OutputsKept, NoneResolved, rows

(* Without a claim the transaction is rolled back. *)
LEMMA NoInputAvailableRows ==
  ASSUME RowsInv, NEW p \in Managers, NoInputAvailable(p)
  PROVE  Kept
  BY Zenon, UnchangedRows DEF NoInputAvailable

(* A new token fences off every other manager. *)
LEMMA AcquireLeaseRows ==
  ASSUME RowsInv, NEW p \in Managers, AcquireLease(p)
  PROVE  Kept /\ \A q \in Managers : fence'[q] => q = p
  <1>1. \A q \in Managers : fence'[q] => q = p
    BY Zenon DEF AcquireLease
  <1>2. OneFence'
    BY Zenon, <1>1 DEF OneFence
  <1>3. /\ input' = [i \in Inputs |-> input'[i]]
        /\ \A i \in Inputs : /\ input'[i] \in InputRow(input'[i])
                             /\ input'[i].status = input[i].status
                             /\ input'[i].attempts = input[i].attempts
    BY ZenonT(60) DEF AcquireLease, RowsInv, RowTypes, InputRow
  <1> QED
    BY Zenon, <1>1, <1>2, <1>3, QuietStep DEF AcquireLease

(* Leases, claims and back-offs that run out. *)
LEMMA TimeRows ==
  ASSUME RowsInv, LapseLease \/ \E i \in Inputs : LapseClaim(i) \/ ElapseBackoff(i)
  PROVE  Kept
  <1>1. UNCHANGED <<turn, failures>> /\ OneFence'
    BY Zenon DEF LapseLease, LapseClaim, ElapseBackoff, RowsInv, OneFence
  <1>2. /\ input' = [i \in Inputs |-> input'[i]]
        /\ \A i \in Inputs : /\ input'[i] \in InputRow(input'[i])
                             /\ input'[i].status = input[i].status
                             /\ input'[i].attempts = input[i].attempts
    <2>1. CASE LapseLease
      BY Zenon, <2>1 DEF LapseLease, RowsInv, RowTypes, InputRow
    <2>2. ASSUME NEW i \in Inputs, LapseClaim(i) PROVE <1>2!1 /\ <1>2!2
      BY Zenon, <2>2 DEF LapseClaim, RowsInv, RowTypes, InputRow
    <2>3. ASSUME NEW i \in Inputs, ElapseBackoff(i) PROVE <1>2!1 /\ <1>2!2
      BY ZenonT(60), <2>3 DEF ElapseBackoff, RowsInv, RowTypes, InputRow
    <2> QED
      BY Zenon, <2>1, <2>2, <2>3
  <1> QED
    BY Zenon, <1>1, <1>2, QuietStep

(* The lease is given up; the fence stays with its owner. *)
LEMMA ReleaseLeaseRows ==
  ASSUME RowsInv, NEW p \in Managers, ReleaseLease(p)
  PROVE  Kept
  BY Zenon, QuietStep DEF ReleaseLease, RowsInv, RowTypes, OneFence

(* A lost claim goes back to the queue with whatever is frozen on its turn. *)
LEMMA RecoverRows ==
  ASSUME RowsInv, NEW p \in Managers, RecoverExpiredInputs(p)
  PROVE  Kept
  <1> DEFINE lost == {i \in Inputs : /\ input[i].status \in Held
                                     /\ ~(input[i].claim.fence /\ input[i].claim.live)}
  <1>1. /\ input' = [i \in Inputs |-> input'[i]]
        /\ turn' = [i \in Inputs |-> turn'[i]]
        /\ UNCHANGED <<fence, failures>>
    BY Zenon DEF RecoverExpiredInputs
  <1>2. \A i \in Inputs : /\ input'[i] \in InputRow(input'[i])
                          /\ input'[i].attempts = input[i].attempts
                          /\ \/ input'[i].status = input[i].status
                             \/ /\ input[i].status \in Held
                                /\ input'[i].status = "retry_wait"
    <2> TAKE i \in Inputs
    <2>1. input[i] \in InputRow(input[i])
      BY Zenon DEF RowsInv, RowTypes
    <2>2. CASE i \in lost
      <3>1. input'[i] = [input[i] EXCEPT !.status = "retry_wait", !.due = TRUE,
                                         !.claim = NoClaim]
        BY Zenon, <2>2 DEF RecoverExpiredInputs
      <3> QED
        BY Zenon, <2>1, <2>2, <3>1 DEF InputRow, InputStatuses, Waiting
    <2>3. CASE i \notin lost
      <3>1. input'[i] = input[i]
        BY Zenon, <2>3 DEF RecoverExpiredInputs
      <3> QED
        BY Zenon, <2>1, <3>1
    <2> QED
      BY Zenon, <2>2, <2>3
  <1>3. \A i \in Inputs : /\ turn'[i] \in TurnRow(turn'[i])
                          /\ turn'[i].output = turn[i].output
                          /\ turn'[i].frozen = turn[i].frozen
                          /\ turn'[i].ctx = turn[i].ctx
                          /\ \/ turn'[i].status = turn[i].status
                             \/ /\ turn[i].status # "absent"
                                /\ turn'[i].status = "retry_wait"
    <2> TAKE i \in Inputs
    <2>1. turn[i] \in TurnRow(turn[i])
      BY Zenon DEF RowsInv, RowTypes
    <2>2. CASE i \in lost /\ turn[i].status \notin TurnFinal \cup {"absent"}
      <3>1. turn'[i] = [turn[i] EXCEPT !.status = "retry_wait"]
        BY Zenon, <2>2 DEF RecoverExpiredInputs
      <3> QED
        BY Zenon, <2>1, <2>2, <3>1 DEF TurnRow, TurnStatuses
    <2>3. CASE ~(i \in lost /\ turn[i].status \notin TurnFinal \cup {"absent"})
      <3>1. turn'[i] = turn[i]
        BY Zenon, <2>3 DEF RecoverExpiredInputs
      <3> QED
        BY Zenon, <2>1, <3>1
    <2> QED
      BY Zenon, <2>2, <2>3
  <1> HIDE DEF lost
  <1>4. RowTypes'
    BY Zenon, <1>1, <1>2, <1>3 DEF RowTypes
  <1>5. OneFence' /\ FailuresMatch'
    BY <1>1, <1>2 DEF RowsInv, OneFence, FailuresMatch, EventOf, Held
  <1>6. OutputsJustified'
    BY <1>2, <1>3 DEF RowsInv, OutputsJustified
  <1>7. OneHead'
    BY Zenon, <1>2 DEF RowsInv, OneHead, Started, Held, InputFinal
  <1>8. NothingUndone /\ OutputsKept /\ NoneResolved
    BY Zenon, <1>2, <1>3 DEF NothingUndone, OutputsKept, NoneResolved, Held, InputFinal
  <1> QED
    BY Zenon, <1>4, <1>5, <1>6, <1>7, <1>8 DEF RowsInv, Kept

(* The operations of the owner of a claim. *)
LEMMA PrepareRows ==
  ASSUME RowsInv, NEW p \in Managers, NEW i \in Inputs \ Undecodable, GetOrCreateTurn(p, i)
  PROVE  Kept
  <1>1. CASE turn[i].status # "absent"
    BY Zenon, <1>1, UnchangedRows DEF GetOrCreateTurn, rows
  <1>2. CASE turn[i].status = "absent"
    <2> DEFINE c == IF Kind[i] = "user" THEN input[i].seq ELSE 0
               z == Kind[i] = "user"
    <2>1. turn'[i] = [status |-> "prepared", output |-> NoOutput, ctx |-> c, frozen |-> z]
      BY Zenon, <1>2 DEF GetOrCreateTurn, RowsInv, RowTypes
    <2> HIDE DEF c, z
    <2>2. turn'[i] \in TurnRow(turn'[i])
      BY <2>1 DEF TurnRow, TurnStatuses
    <2>3. turn' = [turn EXCEPT ![i] = turn'[i]] /\ \A j \in Inputs : j # i => turn'[j] = turn[j]
      BY ZenonT(60), <1>2 DEF GetOrCreateTurn, RowsInv, RowTypes
    <2>4. input' = [input EXCEPT ![i] = input'[i]] /\ input'[i] \in InputRow(input'[i])
      BY Zenon DEF GetOrCreateTurn, RowsInv, RowTypes
    <2>5. turn[i].output = NoOutput /\ ~turn[i].frozen
      BY Zenon, <1>2 DEF RowsInv, OutputsJustified
    <2>6. input[i].status \notin InputFinal /\ input[i].status # "dead"
      BY Zenon DEF GetOrCreateTurn, Owns, Held, InputFinal
    <2>7. RowsInv' /\ NothingUndone
      BY <2>1, <2>2, <2>3, <2>4, <2>5, <2>6, OwnerStep DEF GetOrCreateTurn
    <2>8. OutputsKept /\ NoneResolved
      BY <2>1, <2>3, <2>5 DEF OutputsKept, NoneResolved, GetOrCreateTurn
    <2> QED
      BY Zenon, <2>7, <2>8 DEF Kept
  <1> QED
    BY Zenon, <1>1, <1>2

(* BeginTurn starts the turn, or starts it over, with its output as it is. *)
LEMMA BeginRows ==
  ASSUME RowsInv, NEW p \in Managers, NEW i \in Inputs, BeginTurn(p, i)
  PROVE  Kept
  <1>1. /\ input' = [input EXCEPT ![i] = input'[i]] /\ input'[i] \in InputRow(input'[i])
        /\ input'[i].attempts = input[i].attempts /\ input'[i].status = "running"
    BY Zenon DEF BeginTurn, RowsInv, RowTypes, InputRow, InputStatuses, Held
  <1>2. /\ turn' = [turn EXCEPT ![i] = turn'[i]] /\ turn'[i] \in TurnRow(turn'[i])
        /\ turn'[i].status = "running" /\ turn'[i].output = turn[i].output
        /\ turn'[i].frozen = turn[i].frozen /\ turn'[i].ctx = turn[i].ctx
    BY Zenon DEF BeginTurn, RowsInv, RowTypes, TurnRow, TurnStatuses
  <1>3. i \notin Undecodable /\ (Kind[i] = "silent" => turn[i].output = NoOutput)
    BY Zenon DEF BeginTurn, RowsInv, OutputsJustified
  <1>4. input[i].status \notin InputFinal
    BY Zenon DEF BeginTurn, Owns, Held, InputFinal
  <1>5. RowsInv' /\ NothingUndone
    BY Zenon, <1>1, <1>2, <1>3, <1>4, OwnerStep DEF BeginTurn
  <1>6. OutputsKept /\ NoneResolved
    BY Zenon, <1>1, <1>2 DEF OutputsKept, NoneResolved, RowsInv, RowTypes
  <1> QED
    BY Zenon, <1>5, <1>6 DEF Kept

(* The context is frozen once. *)
LEMMA FreezeRows ==
  ASSUME RowsInv, NEW p \in Managers, NEW i \in Inputs, FreezeTurnContext(p, i)
  PROVE  Kept
  <1>1. CASE turn[i].frozen
    BY Zenon, <1>1, UnchangedRows DEF FreezeTurnContext, rows
  <1>2. CASE ~turn[i].frozen
    <2>1. input' = [input EXCEPT ![i] = input'[i]] /\ input'[i] \in InputRow(input'[i])
      BY Zenon DEF FreezeTurnContext, RowsInv, RowTypes
    <2>2. /\ turn' = [turn EXCEPT ![i] = turn'[i]] /\ turn'[i] \in TurnRow(turn'[i])
          /\ turn'[i].status = turn[i].status /\ turn'[i].output = turn[i].output
      BY Zenon, <1>2 DEF FreezeTurnContext, RowsInv, RowTypes, TurnRow
    <2>3. /\ i \notin Undecodable /\ (Kind[i] = "silent" => turn[i].output = NoOutput)
          /\ turn'[i].status \notin {"absent", "dead"}
      BY Zenon, <2>2 DEF FreezeTurnContext, RowsInv, OutputsJustified
    <2>4. input[i].status \notin InputFinal /\ input[i].status # "dead"
      BY Zenon DEF FreezeTurnContext, Owns, Held, InputFinal
    <2>5. RowsInv' /\ NothingUndone
      BY ZenonT(60), <1>2, <2>1, <2>2, <2>3, <2>4, OwnerStep DEF FreezeTurnContext
    <2>6. OutputsKept /\ NoneResolved
      BY Zenon, <2>2 DEF OutputsKept, NoneResolved, FreezeTurnContext, RowsInv, RowTypes
    <2> QED
      BY <2>5, <2>6 DEF Kept
  <1> QED
    BY Zenon, <1>1, <1>2

(* The first output stays; the lane that saves has it afterwards. *)
LEMMA SaveRows ==
  ASSUME RowsInv, NEW p \in Managers, NEW i \in Inputs, NEW o \in Outputs,
         Kind[i] # "silent", SaveTurnOutput(p, i, o)
  PROVE  /\ RowsInv' /\ NothingUndone /\ turn'[i].output = o
         /\ \A j \in Inputs : j # i => turn'[j] = turn[j]
  <1>1. input' = [input EXCEPT ![i] = input'[i]] /\ input'[i] \in InputRow(input'[i])
    BY Zenon DEF SaveTurnOutput, RowsInv, RowTypes
  <1>2. /\ turn' = [turn EXCEPT ![i] = turn'[i]] /\ turn'[i] \in TurnRow(turn'[i])
        /\ turn'[i].status = turn[i].status /\ turn'[i].output = o
        /\ turn'[i].frozen = turn[i].frozen /\ turn'[i].ctx = turn[i].ctx
    BY Zenon DEF SaveTurnOutput, RowsInv, RowTypes, TurnRow
  <1>3. /\ i \notin Undecodable
        /\ turn'[i].status \notin {"absent", "dead"}
        /\ turn[i].output \in {NoOutput, o}
    BY Zenon, <1>2 DEF SaveTurnOutput, RowsInv, OutputsJustified
  <1>4. input[i].status \notin InputFinal /\ input[i].status # "dead"
    BY Zenon DEF SaveTurnOutput, Owns, Held, InputFinal
  <1>5. RowsInv' /\ NothingUndone
    BY Zenon, <1>1, <1>2, <1>3, <1>4, OwnerStep DEF SaveTurnOutput
  <1> QED
    BY Zenon, <1>2, <1>5 DEF RowsInv, RowTypes

(* FinishTurn resolves the input, whatever its turn ended in. *)
LEMMA FinishRows ==
  ASSUME RowsInv, NEW p \in Managers, NEW i \in Inputs,
         NEW s \in {"committed", "waiting_interrupt"}, FinishTurn(p, i, s)
  PROVE  /\ RowsInv' /\ NothingUndone /\ OutputsKept
         /\ \A j \in Inputs : j # i => input'[j] = input[j]
  <1>1. /\ input' = [input EXCEPT ![i] = input'[i]] /\ input'[i] \in InputRow(input'[i])
        /\ input'[i].attempts = input[i].attempts /\ input'[i].status = "resolved"
    BY Zenon DEF FinishTurn, RowsInv, RowTypes, InputRow, InputStatuses, InputFinal
  <1>2. /\ turn' = [turn EXCEPT ![i] = turn'[i]] /\ turn'[i] \in TurnRow(turn'[i])
        /\ turn'[i].status = s /\ turn'[i].output = turn[i].output
        /\ turn'[i].frozen = turn[i].frozen /\ turn'[i].ctx = turn[i].ctx
    BY Zenon DEF FinishTurn, RowsInv, RowTypes, TurnRow, TurnStatuses, TurnFinal
  <1>3. i \notin Undecodable /\ (Kind[i] = "silent" => turn[i].output = NoOutput)
    BY Zenon DEF FinishTurn, RowsInv, OutputsJustified
  <1>4. input[i].status \notin InputFinal
    BY Zenon DEF FinishTurn, Owns, Held, InputFinal
  <1>5. RowsInv' /\ NothingUndone
    BY Zenon, <1>1, <1>2, <1>3, <1>4, OwnerStep DEF FinishTurn
  <1>6. OutputsKept /\ \A j \in Inputs : j # i => input'[j] = input[j]
    BY Zenon, <1>1, <1>2 DEF OutputsKept, RowsInv, RowTypes
  <1> QED
    BY Zenon, <1>5, <1>6

(* A retry keeps the output for the next attempt. *)
LEMMA RetryRows ==
  ASSUME RowsInv, NEW p \in Managers, NEW i \in Inputs, RetryTurnAt(p, i)
  PROVE  Kept
  <1>1. /\ input' = [input EXCEPT ![i] = input'[i]] /\ input'[i] \in InputRow(input'[i])
        /\ input'[i].attempts = input[i].attempts /\ input'[i].status = "retry_wait"
    BY ZenonT(60) DEF RetryTurnAt, RowsInv, RowTypes, InputRow, InputStatuses, Waiting
  <1>2. /\ turn' = [turn EXCEPT ![i] = turn'[i]] /\ turn'[i] \in TurnRow(turn'[i])
        /\ turn'[i].status = "retry_wait" /\ turn'[i].output = turn[i].output
        /\ turn'[i].frozen = turn[i].frozen /\ turn'[i].ctx = turn[i].ctx
    BY Zenon DEF RetryTurnAt, RowsInv, RowTypes, TurnRow, TurnStatuses
  <1>3. i \notin Undecodable /\ (Kind[i] = "silent" => turn[i].output = NoOutput)
    BY Zenon DEF RetryTurnAt, RowsInv, OutputsJustified
  <1>4. input[i].status \notin InputFinal
    BY Zenon DEF RetryTurnAt, Owns, Held, InputFinal
  <1>5. RowsInv' /\ NothingUndone
    BY Zenon, <1>1, <1>2, <1>3, <1>4, OwnerStep DEF RetryTurnAt
  <1>6. OutputsKept /\ NoneResolved
    BY Zenon, <1>1, <1>2 DEF OutputsKept, NoneResolved, RowsInv, RowTypes
  <1> QED
    BY <1>5, <1>6 DEF Kept

(* A burial must find no output; the lanes see to that. *)
LEMMA DeadRows ==
  ASSUME RowsInv, NEW p \in Managers, NEW i \in Inputs,
         turn[i].output = NoOutput,
         (DeadTurn(p, i) /\ i \notin Undecodable) \/ DeadInput(p, i)
  PROVE  Kept
  <1>1. /\ input' = [j \in Inputs |-> input'[j]] /\ input'[i] \in InputRow(input'[i])
        /\ input'[i].status = "dead"
        /\ \A j \in Inputs : j # i => input'[j] = input[j]
    BY DEF DeadTurn, DeadInput, RowsInv, RowTypes, InputRow, InputStatuses, InputFinal
  <1>2. /\ turn' = [j \in Inputs |-> turn'[j]] /\ turn'[i] \in TurnRow(turn'[i])
        /\ turn'[i].output = NoOutput
        /\ turn'[i].frozen = turn[i].frozen /\ turn'[i].ctx = turn[i].ctx
        /\ \/ turn'[i].status = "dead" /\ i \notin Undecodable
           \/ turn'[i].status = turn[i].status
        /\ \A j \in Inputs : j # i => turn'[j] = turn[j]
    BY DEF DeadTurn, DeadInput, RowsInv, RowTypes, TurnRow, TurnStatuses, TurnFinal
  <1>3. /\ input[i].status \notin InputFinal
        /\ failures' = failures \cup {FailureKey(j) : j \in {i}}
        /\ UNCHANGED fence
    BY Zenon DEF DeadTurn, DeadInput, Owns, Held, InputFinal
  <1>4. RowTypes'
    BY Zenon, <1>1, <1>2 DEF RowsInv, RowTypes
  <1>5. OneFence'
    BY Zenon, <1>3 DEF RowsInv, OneFence
  <1>6. FailuresMatch'
    <2>1. \A j \in {i} : input[j].status # "dead" /\ turn[j].output = NoOutput
      BY Zenon, <1>3 DEF InputFinal
    <2>2. \A j \in Inputs : input'[j].status = "dead" <=> j \in {i} \/ input[j].status = "dead"
      BY Zenon, <1>1
    <2> QED
      BY ZenonT(60), <1>3, <2>1, <2>2, BurialStep
  <1>7. OutputsJustified'
    BY <1>1, <1>2 DEF RowsInv, OutputsJustified
  <1>8. OneHead'
    BY Zenon, <1>1 DEF RowsInv, OneHead, Started, InputFinal
  <1>9. NothingUndone /\ OutputsKept /\ NoneResolved
    BY Zenon, <1>1, <1>2, <1>3 DEF NothingUndone, OutputsKept, NoneResolved
  <1> QED
    BY Zenon, <1>4, <1>5, <1>6, <1>7, <1>8, <1>9 DEF RowsInv, Kept

-----------------------------------------------------------------------------
(* The lanes.                                                              *)

Working ==
  {"prepare", "begin", "run", "save", "project", "finish", "failed", "retry", "bury"}
Steps == Working \cup {"off", "acquire", "recover", "poll", "release", "down"}
Payloads == Outputs \cup {NoOutput}

LaneTypes ==
  lane \in [Managers -> [pc : Steps, input : Inputs \cup {Nobody},
                         seen : Payloads, out : Payloads]]

(* What the lane of p knows of the rows, whether or not it still owns its  *)
(* input: only "bury" relies on the fence, for no other lane writes then.  *)
LaneInv(p) ==
  /\ lane[p].pc \in Working => lane[p].input \in Inputs
  /\ lane[p].pc \in Working \ {"prepare"} => lane[p].input \notin Undecodable
  /\ lane[p].pc = "save" => lane[p].out \in Outputs /\ Kind[lane[p].input] # "silent"
  /\ lane[p].pc \in Working /\ lane[p].seen # NoOutput =>
       turn[lane[p].input].output = lane[p].seen
  /\ lane[p].pc = "project" =>
       lane[p].out # NoOutput /\ turn[lane[p].input].output = lane[p].out
  /\ lane[p].pc = "finish" =>
       Kind[lane[p].input] = "silent" \/ <<lane[p].input, lane[p].out>> \in projected
  /\ lane[p].pc = "bury" /\ fence[p] => turn[lane[p].input].output = NoOutput

(* FrozenSurvives has two halves; OutputsJustified is the other one. *)
Published ==
  /\ \A i \in Inputs : turn[i].output # NoOutput /\ input[i].status = "resolved" =>
       <<i, turn[i].output>> \in projected
  /\ \A d \in projected : d[1] \in Inputs /\ d[2] # NoOutput /\ turn[d[1]].output = d[2]

LanesInv == LaneTypes /\ (\A p \in Managers : LaneInv(p)) /\ Published

SessionInv == RowsInv /\ LanesInv

(* A lane that does not move keeps what it knows. *)
LEMMA LaneStays ==
  ASSUME LaneTypes, NEW q \in Managers, LaneInv(q), lane'[q] = lane[q],
         NothingUndone, projected \subseteq projected',
         lane[q].pc = "bury" /\ fence'[q] =>
           fence[q] /\ turn'[lane[q].input].output = turn[lane[q].input].output
  PROVE  LaneInv(q)'
  <1>1. lane[q].pc \in Working => lane[q].input \in Inputs
    BY Zenon DEF LaneInv
  <1>2. lane[q].pc \in Working /\ turn[lane[q].input].output # NoOutput =>
          turn'[lane[q].input].output = turn[lane[q].input].output
    BY Zenon, <1>1 DEF NothingUndone
  <1>3. "save" \in Working /\ "project" \in Working /\ "finish" \in Working /\ "bury" \in Working
    BY Zenon DEF Working
  <1> QED
    BY Zenon, <1>1, <1>2, <1>3 DEF LaneInv

(* What has been projected stays true while outputs are kept. *)
LEMMA PublishedStays ==
  ASSUME Published, Kept, UNCHANGED projected
  PROVE  Published'
  BY Zenon DEF Published, Kept, NothingUndone, OutputsKept, NoneResolved

(* One lane moves, the outputs and the fences stay. *)
LEMMA LaneMoves ==
  ASSUME SessionInv, Kept, NEW p \in Managers,
         \A q \in Managers \ {p} : lane'[q] = lane[q],
         LaneTypes', LaneInv(p)', UNCHANGED projected,
         \A q \in Managers \ {p} : fence'[q] => fence[q]
  PROVE  SessionInv'
  <1>1. \A q \in Managers \ {p} : LaneInv(q)'
    <2> TAKE q \in Managers \ {p}
    <2>1. lane[q].pc = "bury" => lane[q].input \in Inputs
      BY Zenon DEF SessionInv, LanesInv, LaneInv, Working
    <2>2. NothingUndone /\ OutputsKept
      BY Zenon DEF Kept
    <2>3. LaneTypes /\ LaneInv(q)
      BY Zenon DEF SessionInv, LanesInv
    <2>4. lane[q].pc = "bury" /\ fence'[q] =>
            fence[q] /\ turn'[lane[q].input].output = turn[lane[q].input].output
      BY Zenon, <2>1, <2>2 DEF OutputsKept
    <2> QED
      BY Zenon, <2>2, <2>3, <2>4, LaneStays
  <1>2. Published'
    BY Zenon, PublishedStays DEF SessionInv, LanesInv
  <1> QED
    BY Zenon, <1>1, <1>2 DEF SessionInv, LanesInv, Kept

(* Steps that move no lane. *)
LEMMA NoLaneMoves ==
  ASSUME SessionInv, Kept, UNCHANGED <<lane, projected, fence>>
  PROVE  SessionInv'
  <1>1. \A q \in Managers : LaneInv(q)'
    <2> TAKE q \in Managers
    <2>1. lane[q].pc = "bury" => lane[q].input \in Inputs
      BY Zenon DEF SessionInv, LanesInv, LaneInv, Working
    <2>2. NothingUndone /\ OutputsKept
      BY Zenon DEF Kept
    <2>3. LaneTypes /\ LaneInv(q)
      BY Zenon DEF SessionInv, LanesInv
    <2>4. lane[q].pc = "bury" /\ fence'[q] =>
            fence[q] /\ turn'[lane[q].input].output = turn[lane[q].input].output
      BY Zenon, <2>1, <2>2 DEF OutputsKept
    <2> QED
      BY Zenon, <2>2, <2>3, <2>4, LaneStays
  <1>2. Published' /\ LaneTypes'
    BY Zenon, PublishedStays DEF SessionInv, LanesInv, LaneTypes
  <1> QED
    BY Zenon, <1>1, <1>2 DEF SessionInv, LanesInv, Kept

(* The lane of p stops working, or does not work yet. *)
LEMMA LaneRests ==
  ASSUME SessionInv, Kept, NEW p \in Managers, NEW step \in Steps \ Working,
         Leave(p, step) \/ (lane[p].pc \notin Working /\ Goto(p, step)),
         UNCHANGED projected, \A q \in Managers \ {p} : fence'[q] => fence[q]
  PROVE  SessionInv'
  <1>1. lane \in [Managers -> [pc : Steps, input : Inputs \cup {Nobody},
                               seen : Payloads, out : Payloads]]
    BY Zenon DEF SessionInv, LanesInv, LaneTypes
  <1>2. LaneTypes' /\ lane'[p].pc = step /\ \A q \in Managers \ {p} : lane'[q] = lane[q]
    BY <1>1 DEF LaneTypes, Leave, Goto, At, Payloads
  <1>3. LaneInv(p)'
    BY Zenon, <1>2 DEF LaneInv, Working
  <1> QED
    BY Zenon, <1>2, <1>3, LaneMoves

(* Relays and handlers enqueue, and wake a lane that is off. *)
LEMMA IngressStep ==
  ASSUME SessionInv, NEW i \in Inputs,
         Enqueue(i) \/ \E p \in Managers : Submit(p, i)
  PROVE  SessionInv' /\ NothingUndone
  <1>1. Kept /\ UNCHANGED <<fence, projected>>
    <2>1. EnqueueInput(i) \/ UNCHANGED rows
      BY Zenon DEF Enqueue, Submit
    <2>2. UNCHANGED <<fence, projected>>
      BY Zenon, <2>1 DEF EnqueueInput, Enqueue, Submit, rows
    <2>3. Kept
      BY Zenon, <2>1, EnqueueRows, UnchangedRows DEF SessionInv, rows
    <2> QED
      BY Zenon, <2>2, <2>3
  <1>2. CASE UNCHANGED lane
    BY Zenon, <1>1, <1>2, NoLaneMoves DEF Kept
  <1>3. ASSUME NEW p \in Managers, lane[p].pc = "off", Goto(p, "acquire")
        PROVE  SessionInv' /\ NothingUndone
    BY Zenon, <1>1, <1>3, LaneRests DEF Kept, Steps, Working
  <1> QED
    BY Zenon, <1>2, <1>3 DEF Enqueue, Submit, Goto

(* Time moves no lane. *)
LEMMA TimeStep ==
  ASSUME SessionInv, LeaseLapses \/ \E i \in Inputs : ClaimLapses(i) \/ BackoffElapses(i)
  PROVE  SessionInv' /\ NothingUndone
  <1>1. Kept
    BY Zenon, TimeRows DEF LeaseLapses, ClaimLapses, BackoffElapses, SessionInv
  <1>2. UNCHANGED <<lane, projected, fence>>
    BY Zenon DEF LeaseLapses, ClaimLapses, BackoffElapses, LapseLease, LapseClaim, ElapseBackoff
  <1> QED
    BY Zenon, <1>1, <1>2, NoLaneMoves DEF Kept

(* Steps of the lane between inputs. *)
LEMMA LeaseStep ==
  ASSUME SessionInv, NEW p \in Managers,
         Discover(p) \/ Acquire(p) \/ Recover(p) \/ Idle(p) \/ Release(p) \/ Rejected(p)
           \/ HeartbeatFails(p) \/ StoreFails(p) \/ Crash(p) \/ Poll(p)
  PROVE  SessionInv' /\ NothingUndone
  <1> USE DEF Steps, Working
  <1>0. RowsInv /\ (UNCHANGED rows => Kept /\ UNCHANGED fence)
    BY Zenon, UnchangedRows DEF SessionInv, rows
  <1>1. CASE Discover(p)
    BY Zenon, <1>0, <1>1, LaneRests DEF Discover, Kept
  <1>2. CASE Acquire(p)
    <2>1. CASE AcquireLease(p) /\ Goto(p, "recover")
      BY Zenon, <1>0, <1>2, <2>1, AcquireLeaseRows, LaneRests DEF Acquire, Kept
    <2>2. CASE UNCHANGED rows /\ Goto(p, "off")
      BY Zenon, <1>0, <1>2, <2>2, LaneRests DEF Acquire, Kept
    <2> QED
      BY Zenon, <1>2, <2>1, <2>2 DEF Acquire
  <1>3. CASE Recover(p)
    <2>1. Kept /\ UNCHANGED fence
      BY ZenonT(60), <1>0, <1>3, RecoverRows DEF Recover, RecoverExpiredInputs
    <2> QED
      BY Zenon, <1>3, <2>1, LaneRests DEF Recover, Kept
  <1>4. CASE Idle(p)
    BY Zenon, <1>0, <1>4, LaneRests DEF Idle, Kept
  <1>5. CASE Release(p)
    <2>1. Kept /\ UNCHANGED fence
      BY Zenon, <1>0, <1>5, ReleaseLeaseRows DEF Release, ReleaseLease
    <2> QED
      BY Zenon, <1>5, <2>1, LaneRests DEF Release, Kept
  <1>6. CASE Rejected(p)
    BY Zenon, <1>0, <1>6, LaneRests DEF Rejected, Kept
  <1>7. CASE HeartbeatFails(p)
    BY Zenon, <1>0, <1>7, LaneRests DEF HeartbeatFails, Kept
  <1>8. CASE StoreFails(p)
    BY Zenon, <1>0, <1>8, LaneRests DEF StoreFails, Kept
  <1>9. CASE Crash(p)
    BY Zenon, <1>0, <1>9, LaneRests DEF Crash, Kept
  <1>10. CASE Poll(p)
    <2>1. Kept /\ UNCHANGED fence
      BY Zenon, <1>0, <1>10, NoInputAvailableRows DEF Poll, NoInputAvailable, rows
    <2> QED
      BY Zenon, <1>10, <2>1, NoLaneMoves DEF Poll, Kept
  <1> QED
    BY Zenon, <1>1, <1>2, <1>3, <1>4, <1>5, <1>6, <1>7, <1>8, <1>9, <1>10

(* The lane of p moves on to l with the rows as they are. *)
LEMMA LaneWorks ==
  ASSUME SessionInv, NEW p \in Managers, UNCHANGED <<rows, projected>>,
         NEW l \in [pc : Steps, input : Inputs \cup {Nobody}, seen : Payloads, out : Payloads],
         lane' = [lane EXCEPT ![p] = l], LaneInv(p)'
  PROVE  SessionInv' /\ NothingUndone
  <1>1. Kept /\ UNCHANGED fence
    BY Zenon, UnchangedRows DEF SessionInv, rows
  <1>2. LaneTypes' /\ \A q \in Managers \ {p} : lane'[q] = lane[q]
    BY Zenon DEF SessionInv, LanesInv, LaneTypes
  <1> QED
    BY Zenon, <1>1, <1>2, LaneMoves DEF Kept

(* Steps of the processor and of drain that write nothing. *)
LEMMA ProcessorStep ==
  ASSUME SessionInv, NEW p \in Managers,
         RunSilent(p) \/ Replay(p) \/ Invoke(p) \/ Fail(p) \/ RunnerFails(p) \/ Defer(p)
           \/ (ProcessFails(p) /\ UNCHANGED <<rows, projected>> /\ lane[p].pc \in {"run", "save"})
  PROVE  SessionInv' /\ NothingUndone
  <1>0. /\ lane[p] \in [pc : Steps, input : Inputs \cup {Nobody},
                        seen : Payloads, out : Payloads]
        /\ LaneInv(p)
        /\ DOMAIN lane = Managers
    BY Zenon DEF SessionInv, LanesInv, LaneTypes
  <1>1. UNCHANGED <<rows, projected>> /\ UNCHANGED <<turn, fence>>
    BY Zenon DEF RunSilent, Replay, Invoke, Fail, RunnerFails, Defer, rows
  <1>2. CASE RunSilent(p)
    <2> DEFINE l == [lane[p] EXCEPT !.pc = "finish"]
    <2>1. lane' = [lane EXCEPT ![p] = l] /\ lane[p].pc = "run" /\ Kind[lane[p].input] = "silent"
      BY Zenon, <1>2 DEF RunSilent, Goto
    <2>2. LaneInv(p)'
      BY Zenon, <1>0, <1>1, <2>1 DEF LaneInv, Working
    <2>3. l \in [pc : Steps, input : Inputs \cup {Nobody}, seen : Payloads, out : Payloads]
      BY Zenon, <1>0 DEF Steps, Working
    <2> QED
      BY Zenon, <1>1, <2>1, <2>2, <2>3, LaneWorks
  <1>3. CASE Replay(p)
    <2> DEFINE l == [lane[p] EXCEPT !.pc = "project", !.out = lane[p].seen]
    <2>1. lane' = [lane EXCEPT ![p] = l] /\ lane[p].pc = "run" /\ lane[p].seen # NoOutput
      BY Zenon, <1>0, <1>3 DEF Replay
    <2>2. LaneInv(p)'
      BY Zenon, <1>0, <1>1, <2>1 DEF LaneInv, Working
    <2>3. l \in [pc : Steps, input : Inputs \cup {Nobody}, seen : Payloads, out : Payloads]
      BY Zenon, <1>0 DEF Steps, Working
    <2> QED
      BY ZenonT(60), <1>1, <2>1, <2>2, <2>3, LaneWorks
  <1>4. CASE Invoke(p)
    <2>1. PICK o \in Outputs : lane' = [lane EXCEPT ![p].pc = "save", ![p].out = o]
      BY Zenon, <1>4 DEF Invoke
    <2> DEFINE l == [lane[p] EXCEPT !.pc = "save", !.out = o]
    <2>2. lane' = [lane EXCEPT ![p] = l] /\ lane[p].pc = "run" /\ Kind[lane[p].input] # "silent"
      BY Zenon, <1>0, <1>4, <2>1 DEF Invoke
    <2>3. LaneInv(p)'
      BY Zenon, <1>0, <1>1, <2>2 DEF LaneInv, Working
    <2>4. l \in [pc : Steps, input : Inputs \cup {Nobody}, seen : Payloads, out : Payloads]
      BY Zenon, <1>0 DEF Steps, Working, Payloads
    <2> QED
      BY Zenon, <1>1, <2>2, <2>3, <2>4, LaneWorks
  <1>5. CASE Fail(p)
    <2> DEFINE i == lane[p].input
               last == /\ input[i].attempts >= MaxAttempts
                       /\ lane[p].seen = NoOutput
                       /\ turn[i].output = NoOutput
               l == [lane[p] EXCEPT !.pc = IF last THEN "bury" ELSE "retry"]
    <2>1. lane' = [lane EXCEPT ![p] = l] /\ lane[p].pc = "failed"
      BY Zenon, <1>0, <1>5 DEF Fail, Goto
    <2>2. last => turn[i].output = NoOutput
      BY Zenon
    <2> HIDE DEF last
    <2>3. LaneInv(p)'
      BY Zenon, <1>0, <1>1, <2>1, <2>2 DEF LaneInv, Working
    <2>4. l \in [pc : Steps, input : Inputs \cup {Nobody}, seen : Payloads, out : Payloads]
      BY Zenon, <1>0 DEF Steps, Working
    <2> QED
      BY ZenonT(60), <1>1, <2>1, <2>3, <2>4, LaneWorks
  <1>6. CASE Defer(p)
    <2> DEFINE l == [lane[p] EXCEPT !.pc = "retry"]
    <2>1. lane' = [lane EXCEPT ![p] = l] /\ lane[p].pc = "project"
      BY Zenon, <1>6 DEF Defer, Goto
    <2>2. LaneInv(p)'
      BY Zenon, <1>0, <1>1, <2>1 DEF LaneInv, Working
    <2>3. l \in [pc : Steps, input : Inputs \cup {Nobody}, seen : Payloads, out : Payloads]
      BY Zenon, <1>0 DEF Steps, Working
    <2> QED
      BY ZenonT(60), <1>1, <2>1, <2>2, <2>3, LaneWorks
  <1>7. CASE ProcessFails(p) /\ lane[p].pc \in {"run", "save"}
    <2> DEFINE l == [lane[p] EXCEPT !.pc = "failed", !.out = NoOutput]
    <2>1. lane' = [lane EXCEPT ![p] = l]
      BY ZenonT(60), <1>0, <1>7 DEF ProcessFails
    <2>2. LaneInv(p)'
      BY Zenon, <1>0, <1>1, <1>7, <2>1 DEF LaneInv, Working
    <2>3. l \in [pc : Steps, input : Inputs \cup {Nobody}, seen : Payloads, out : Payloads]
      BY Zenon, <1>0 DEF Steps, Working, Payloads
    <2> QED
      BY Zenon, <1>1, <2>1, <2>2, <2>3, LaneWorks
  <1> QED
    BY Zenon, <1>2, <1>3, <1>4, <1>5, <1>6, <1>7 DEF RunnerFails

(* Steps of drain that write an input or its turn. *)
LEMMA DrainStep ==
  ASSUME SessionInv, NEW p \in Managers,
         Claim(p) \/ Prepare(p) \/ Begin(p) \/ Retry(p) \/ Bury(p)
  PROVE  SessionInv' /\ NothingUndone
  <1>0. /\ lane[p] \in [pc : Steps, input : Inputs \cup {Nobody},
                        seen : Payloads, out : Payloads]
        /\ LaneInv(p) /\ RowsInv /\ LaneTypes
    BY Zenon DEF SessionInv, LanesInv, LaneTypes
  <1>1. CASE Claim(p)
    <2>1. PICK i \in Inputs :
            /\ ClaimNext(p, i)
            /\ lane' = [lane EXCEPT ![p] = [At("prepare") EXCEPT !.input = i]]
      BY Zenon, <1>1 DEF Claim
    <2>2. Kept /\ UNCHANGED <<fence, projected>>
      BY Zenon, <1>0, <1>1, <2>1, ClaimNextRows DEF Claim, ClaimNext
    <2>3. /\ LaneTypes' /\ \A q \in Managers \ {p} : lane'[q] = lane[q]
          /\ lane'[p] = [pc |-> "prepare", input |-> i, seen |-> NoOutput, out |-> NoOutput]
      BY Zenon, <1>0, <2>1 DEF LaneTypes, At, Steps, Working, Payloads
    <2>4. LaneInv(p)'
      BY <2>3 DEF LaneInv, Working
    <2> QED
      BY Zenon, <2>2, <2>3, <2>4, LaneMoves DEF Kept
  <1>2. CASE Prepare(p)
    <2> DEFINE i == lane[p].input
    <2>1. i \in Inputs /\ lane[p].pc = "prepare" /\ UNCHANGED projected
      BY Zenon, <1>0, <1>2 DEF Prepare, LaneInv, Working
    <2>2. CASE i \in Undecodable
      <3>1. DeadInput(p, i) /\ Leave(p, "poll")
        BY ZenonT(60), <1>2, <2>2 DEF Prepare
      <3>2. turn[i].output = NoOutput
        BY Zenon, <1>0, <2>1, <2>2 DEF RowsInv, OutputsJustified
      <3>3. Kept /\ UNCHANGED fence
        BY Zenon, <1>0, <2>1, <3>1, <3>2, DeadRows DEF DeadInput
      <3>4. "poll" \in Steps \ Working
        BY Zenon DEF Steps, Working
      <3>5. \A q \in Managers \ {p} : fence'[q] => fence[q]
        BY Zenon, <3>3
      <3> QED
        BY Zenon, <2>1, <3>1, <3>3, <3>4, <3>5, LaneRests DEF Kept
    <2>3. CASE i \notin Undecodable
      <3>1. GetOrCreateTurn(p, i) /\ Goto(p, "begin")
        BY ZenonT(60), <1>2, <2>3 DEF Prepare
      <3>2. Kept /\ UNCHANGED fence
        BY Zenon, <1>0, <2>1, <2>3, <3>1, PrepareRows DEF GetOrCreateTurn
      <3>3. /\ LaneTypes' /\ \A q \in Managers \ {p} : lane'[q] = lane[q]
            /\ lane'[p] = [lane[p] EXCEPT !.pc = "begin"]
        BY Zenon, <1>0, <3>1 DEF LaneTypes, Goto, Steps, Working
      <3>4. turn'[i].output = turn[i].output
        BY Zenon, <2>1, <3>2 DEF Kept, OutputsKept
      <3>5. LaneInv(p)'
        BY Zenon, <1>0, <2>1, <2>3, <3>3, <3>4 DEF LaneInv, Working
      <3> QED
        BY Zenon, <2>1, <3>2, <3>3, <3>5, LaneMoves DEF Kept
    <2> QED
      BY Zenon, <2>2, <2>3
  <1>3. CASE Begin(p)
    <2> DEFINE i == lane[p].input
    <2>1. i \in Inputs /\ lane[p].pc = "begin" /\ UNCHANGED projected /\ BeginTurn(p, i)
      BY Zenon, <1>0, <1>3 DEF Begin, LaneInv, Working
    <2>2. Kept /\ UNCHANGED fence
      BY ZenonT(60), <1>0, <2>1, BeginRows DEF BeginTurn
    <2>3. turn[i].output \in Payloads /\ turn'[i].output = turn[i].output
      BY Zenon, <1>0, <2>1, <2>2 DEF RowsInv, RowTypes, TurnRow, Payloads, Kept, OutputsKept
    <2>4. /\ LaneTypes' /\ \A q \in Managers \ {p} : lane'[q] = lane[q]
          /\ lane'[p] = [lane[p] EXCEPT !.pc = "run", !.seen = turn[i].output]
      BY ZenonT(60), <1>0, <1>3, <2>3 DEF LaneTypes, Begin, Steps, Working
    <2>5. LaneInv(p)'
      BY Zenon, <1>0, <2>1, <2>3, <2>4 DEF LaneInv, Working
    <2> QED
      BY Zenon, <2>1, <2>2, <2>4, <2>5, LaneMoves DEF Kept
  <1>4. CASE Retry(p)
    <2>1. lane[p].input \in Inputs
      BY Zenon, <1>0, <1>4 DEF Retry, LaneInv, Working
    <2>2. Kept /\ UNCHANGED fence
      BY ZenonT(60), <1>0, <1>4, <2>1, RetryRows DEF Retry, RetryTurnAt
    <2> QED
      BY Zenon, <1>4, <2>2, LaneRests DEF Retry, Kept, Steps, Working
  <1>5. CASE Bury(p)
    <2> DEFINE i == lane[p].input
    <2>1. i \in Inputs \ Undecodable /\ lane[p].pc = "bury" /\ DeadTurn(p, i)
      BY Zenon, <1>0, <1>5 DEF Bury, LaneInv, Working
    <2>2. turn[i].output = NoOutput
      BY Zenon, <1>0, <2>1 DEF LaneInv, DeadTurn, Owns, ValidFence
    <2>3. Kept /\ UNCHANGED fence
      BY ZenonT(60), <1>0, <2>1, <2>2, DeadRows DEF DeadTurn
    <2> QED
      BY Zenon, <1>5, <2>3, LaneRests DEF Bury, Kept, Steps, Working
  <1> QED
    BY Zenon, <1>1, <1>2, <1>3, <1>4, <1>5

(* The context is frozen, or the attempt fails for lack of a claim. *)
LEMMA FreezeStep ==
  ASSUME SessionInv, NEW p \in Managers, Freeze(p)
  PROVE  SessionInv' /\ NothingUndone
  <1> DEFINE i == lane[p].input
  <1>1. i \in Inputs /\ RowsInv /\ lane[p].pc = "run" /\ UNCHANGED projected
    BY Zenon DEF Freeze, SessionInv, LanesInv, LaneInv, Working
  <1>2. CASE FreezeTurnContext(p, i) /\ UNCHANGED lane
    <2>1. Kept /\ UNCHANGED fence
      BY Zenon, <1>1, <1>2, FreezeRows DEF FreezeTurnContext
    <2> QED
      BY Zenon, <1>1, <1>2, <2>1, NoLaneMoves DEF Kept
  <1>3. CASE ProcessFails(p) /\ UNCHANGED rows
    BY Zenon, <1>1, <1>3, ProcessorStep
  <1> QED
    BY Zenon, <1>2, <1>3 DEF Freeze

(* While p writes an output it has the fence, so no other lane may bury.   *)
LEMMA SaveStep ==
  ASSUME SessionInv, NEW p \in Managers, Save(p)
  PROVE  SessionInv' /\ NothingUndone
  <1> DEFINE i == lane[p].input
             o == lane[p].out
  <1>0. /\ lane[p] \in [pc : Steps, input : Inputs \cup {Nobody},
                        seen : Payloads, out : Payloads]
        /\ LaneInv(p) /\ RowsInv /\ LaneTypes
    BY Zenon DEF SessionInv, LanesInv, LaneTypes
  <1>1. /\ i \in Inputs \ Undecodable /\ o \in Outputs /\ Kind[i] # "silent"
        /\ lane[p].pc = "save" /\ UNCHANGED projected
    BY Zenon, <1>0 DEF Save, LaneInv, Working
  <1>2. CASE SaveTurnOutput(p, i, o) /\ Goto(p, "project")
    <2>1. /\ RowsInv' /\ NothingUndone /\ turn'[i].output = o
          /\ \A j \in Inputs : j # i => turn'[j] = turn[j]
      BY <1>0, <1>1, <1>2, SaveRows
    <2>2. fence[p] /\ input[i].status \in Held /\ UNCHANGED <<input, fence>>
      BY Zenon, <1>2 DEF SaveTurnOutput, Owns, ValidFence
    <2>3. /\ LaneTypes' /\ \A q \in Managers \ {p} : lane'[q] = lane[q]
          /\ lane'[p] = [lane[p] EXCEPT !.pc = "project"]
      BY Zenon, <1>0, <1>2 DEF LaneTypes, Goto, Steps, Working
    <2>4. o # NoOutput
      BY Zenon, <1>1, SessionAssumption
    <2>5. turn[i].output \in {NoOutput, o}
      BY Zenon, <1>2 DEF SaveTurnOutput
    <2>6. LaneInv(p)'
      BY Zenon, <1>0, <1>1, <2>1, <2>3, <2>4, <2>5 DEF LaneInv, Working
    <2>7. \A q \in Managers \ {p} : LaneInv(q)'
      <3> TAKE q \in Managers \ {p}
      <3>1. ~fence'[q]
        BY Zenon, <1>0, <2>2 DEF RowsInv, OneFence
      <3>2. LaneInv(q)
        BY Zenon DEF SessionInv, LanesInv
      <3> QED
        BY Zenon, <1>0, <1>1, <2>1, <2>3, <3>1, <3>2, LaneStays
    <2>8. Published'
      <3>1. Published /\ input[i].status # "resolved"
        BY Zenon, <2>2 DEF SessionInv, LanesInv, Held
      <3> QED
        BY <1>1, <2>1, <2>2, <3>1 DEF Published, NothingUndone
    <2> QED
      BY Zenon, <2>1, <2>3, <2>6, <2>7, <2>8 DEF SessionInv, LanesInv
  <1>3. CASE ProcessFails(p) /\ UNCHANGED rows
    BY Zenon, <1>1, <1>3, ProcessorStep
  <1> QED
    BY Zenon, <1>2, <1>3 DEF Save

(* Projecting is not fenced, yet it can only project what is frozen. *)
LEMMA ProjectStep ==
  ASSUME SessionInv, NEW p \in Managers, Project(p) \/ ProjectFails(p)
  PROVE  SessionInv' /\ NothingUndone
  <1> DEFINE d == <<lane[p].input, lane[p].out>>
  <1>0. /\ lane[p] \in [pc : Steps, input : Inputs \cup {Nobody},
                        seen : Payloads, out : Payloads]
        /\ LaneInv(p) /\ RowsInv /\ LaneTypes
    BY Zenon DEF SessionInv, LanesInv, LaneTypes
  <1>1. /\ lane[p].pc = "project" /\ lane[p].input \in Inputs \ Undecodable
        /\ lane[p].out # NoOutput /\ turn[lane[p].input].output = lane[p].out
    BY Zenon, <1>0 DEF Project, ProjectFails, LaneInv, Working
  <1>2. Kept /\ UNCHANGED <<turn, fence, input>>
    BY Zenon, <1>0, UnchangedRows DEF Project, ProjectFails, rows
  <1>3. projected \subseteq projected' /\ projected' \subseteq projected \cup {d}
    BY Zenon DEF Project, ProjectFails
  <1>4. /\ LaneTypes' /\ \A q \in Managers \ {p} : lane'[q] = lane[q]
        /\ \/ lane'[p] = [lane[p] EXCEPT !.pc = "finish"] /\ d \in projected'
           \/ lane'[p] = [lane[p] EXCEPT !.pc = "failed", !.out = NoOutput]
    <2>1. CASE Project(p)
      BY Zenon, <1>0, <2>1 DEF LaneTypes, Project, Goto, Steps, Working
    <2>2. CASE ProjectFails(p)
      BY Zenon, <1>0, <2>2 DEF LaneTypes, ProjectFails, ProcessFails, Steps, Working, Payloads
    <2> QED
      BY Zenon, <2>1, <2>2
  <1>5. LaneInv(p)'
    BY ZenonT(30), <1>0, <1>1, <1>2, <1>4 DEF LaneInv, Working
  <1>6. \A q \in Managers \ {p} : LaneInv(q)'
    <2> TAKE q \in Managers \ {p}
    <2>1. LaneInv(q) /\ NothingUndone
      BY Zenon, <1>2 DEF SessionInv, LanesInv, Kept
    <2> QED
      BY Zenon, <1>0, <1>2, <1>3, <1>4, <2>1, LaneStays
  <1>7. Published'
    BY <1>1, <1>2, <1>3 DEF SessionInv, LanesInv, Published
  <1> QED
    BY Zenon, <1>2, <1>4, <1>5, <1>6, <1>7 DEF SessionInv, LanesInv, Kept

(* A lane that finishes has projected the output, if there is one. *)
LEMMA FinishStep ==
  ASSUME SessionInv, NEW p \in Managers, Finish(p)
  PROVE  SessionInv' /\ NothingUndone
  <1> DEFINE i == lane[p].input
  <1>0. LaneInv(p) /\ RowsInv /\ LaneTypes /\ Published
    BY Zenon DEF SessionInv, LanesInv
  <1>1. /\ i \in Inputs /\ lane[p].pc = "finish" /\ UNCHANGED projected
        /\ Kind[i] = "silent" \/ <<i, lane[p].out>> \in projected
    BY Zenon, <1>0 DEF Finish, LaneInv, Working
  <1>2. PICK s \in {"committed", "waiting_interrupt"} : FinishTurn(p, i, s)
    BY Zenon DEF Finish, CommitTurn, WaitForInterrupt
  <1>3. /\ RowsInv' /\ NothingUndone /\ OutputsKept /\ UNCHANGED fence
        /\ \A j \in Inputs : j # i => input'[j] = input[j]
    BY ZenonT(60), <1>0, <1>1, <1>2, FinishRows DEF FinishTurn
  <1>4. LaneTypes' /\ lane'[p].pc = "poll" /\ \A q \in Managers \ {p} : lane'[q] = lane[q]
    BY Zenon, <1>0 DEF LaneTypes, Finish, Leave, At, Steps, Working, Payloads
  <1>5. LaneInv(p)'
    BY Zenon, <1>4 DEF LaneInv, Working
  <1>6. \A q \in Managers \ {p} : LaneInv(q)'
    <2> TAKE q \in Managers \ {p}
    <2>1. LaneInv(q)
      BY Zenon DEF SessionInv, LanesInv
    <2>2. lane[q].pc = "bury" => turn'[lane[q].input].output = turn[lane[q].input].output
      BY Zenon, <1>3, <2>1 DEF LaneInv, Working, OutputsKept
    <2> QED
      BY Zenon, <1>0, <1>1, <1>3, <1>4, <2>1, <2>2, LaneStays
  <1>7. Published'
    <2>1. turn[i].output # NoOutput => <<i, turn[i].output>> \in projected
      BY Zenon, <1>0, <1>1 DEF Published, RowsInv, OutputsJustified
    <2> QED
      BY <1>0, <1>1, <1>3, <2>1 DEF Published, OutputsKept
  <1> QED
    BY Zenon, <1>3, <1>4, <1>5, <1>6, <1>7 DEF SessionInv, LanesInv

-----------------------------------------------------------------------------
(* At the start there is no row and no lane. *)
LEMMA InitSession ==
  ASSUME Init
  PROVE  SessionInv
  <1>1. RowTypes /\ OneFence
    BY Zenon DEF Init, InitRows, RowTypes, OneFence, InputRow, TurnRow, InputStatuses, TurnStatuses,
       NoInput, NoTurn
  <1>2. OutputsJustified
    BY Zenon DEF Init, InitRows, OutputsJustified, NoTurn
  <1>3. FailuresMatch /\ OneHead
    BY SMTT(30) DEF Init, InitRows, FailuresMatch, EventOf, OneHead, Started, NoInput
  <1>4. LanesInv
    BY Zenon DEF Init, InitRows, LanesInv, LaneTypes, LaneInv, Published, At, Steps, Working, Payloads,
       NoInput
  <1> QED
    BY Zenon, <1>1, <1>2, <1>3, <1>4 DEF SessionInv, RowsInv

(* Every step keeps SessionInv and undoes nothing. *)
LEMMA StepSession ==
  ASSUME SessionInv, [Next]_vars
  PROVE  SessionInv' /\ NothingUndone
  <1>1. CASE UNCHANGED vars
    <2>1. Kept /\ UNCHANGED <<lane, projected, fence>>
      BY Zenon, <1>1, UnchangedRows DEF SessionInv, vars, rows
    <2> QED
      BY Zenon, <2>1, NoLaneMoves DEF Kept
  <1>2. ASSUME NEW p \in Managers, LaneStep(p) PROVE SessionInv' /\ NothingUndone
    BY ZenonT(60), <1>2, LeaseStep, ProcessorStep, DrainStep, FreezeStep, SaveStep,
       ProjectStep, FinishStep DEF LaneStep
  <1>3. ASSUME NEW p \in Managers, FaultStep(p) PROVE SessionInv' /\ NothingUndone
    BY Zenon, <1>3, LeaseStep, ProcessorStep, ProjectStep DEF FaultStep
  <1> QED
    BY Zenon, <1>1, <1>2, <1>3, IngressStep, TimeStep, LeaseStep DEF Next

(* Every reachable state of a session satisfies SessionInv, for any inputs, *)
(* managers, outputs, budget and number of failures (manager.go,            *)
(* postgres_store.go, runtime_processor.go).                                *)
THEOREM SessionIsSound == Spec => []SessionInv
  <1>1. Init => SessionInv
    BY Zenon, InitSession
  <1>2. SessionInv /\ [Next]_vars => SessionInv'
    BY Zenon, StepSession
  <1> QED
    BY <1>1, <1>2, PTL DEF Spec

(* Whatever lapses, crashes or is overtaken, the turns of a session are     *)
(* serial: ClaimNext starts an input only when no other is started.         *)
THEOREM TurnsAreSerial == Spec => []OneHead
  <1>1. SessionInv => OneHead
    BY Zenon DEF SessionInv, RowsInv
  <1> QED
    BY <1>1, SessionIsSound, PTL

(* An input with a frozen output never dies, is projected as it was frozen, *)
(* and is resolved only after that, although the projection of Process is   *)
(* not fenced.                                                              *)
THEOREM FrozenOutputSurvives == Spec => []FrozenSurvives
  <1>1. SessionInv => FrozenSurvives
    BY Zenon DEF SessionInv, RowsInv, OutputsJustified, LanesInv, Published, FrozenSurvives
  <1> QED
    BY <1>1, SessionIsSound, PTL

(* Each dead input has one terminal failure event and no other input has    *)
(* any, although DeadTurn, DeadInput and ClaimNext all append them.         *)
THEOREM OneTerminalEvent == Spec => []OneFailureEvent
  <1>1. SessionInv => OneFailureEvent
    <2> SUFFICES ASSUME SessionInv, NEW i \in Inputs
                 PROVE  Cardinality({k \in failures : k[1] = i}) =
                          IF input[i].status = "dead" THEN 1 ELSE 0
      BY Zenon DEF OneFailureEvent
    <2>1. CASE input[i].status = "dead"
      <3>1. PICK k \in failures : EventOf(i, k) /\ \A l \in failures : EventOf(i, l) => l = k
        BY Zenon, <2>1 DEF SessionInv, RowsInv, FailuresMatch
      <3>2. {l \in failures : l[1] = i} = {k}
        BY Zenon, <3>1 DEF EventOf
      <3> QED
        BY Zenon, <2>1, <3>2, FS_Singleton
    <2>2. CASE input[i].status # "dead"
      <3>1. {l \in failures : l[1] = i} = {}
        BY Zenon, <2>2 DEF SessionInv, RowsInv, FailuresMatch, EventOf
      <3> QED
        BY Zenon, <2>2, <3>1, FS_EmptySet
    <2> QED
      BY Zenon, <2>1, <2>2
  <1> QED
    BY <1>1, SessionIsSound, PTL

(* No step of any lane, however late, changes a final input, a frozen       *)
(* output or a frozen context.                                              *)
THEOREM NothingIsEverUndone == Spec => NothingIsUndone
  <1>1. SessionInv /\ [Next]_vars => [NothingUndone]_vars
    BY Zenon, StepSession
  <1>2. NothingUndone =>
          \A i \in Inputs :
            /\ input[i].status \in InputFinal => input'[i].status = input[i].status
            /\ turn[i].output # NoOutput => turn'[i].output = turn[i].output
            /\ turn[i].frozen => turn'[i].frozen /\ turn'[i].ctx = turn[i].ctx
    BY Zenon DEF NothingUndone
  <1> QED
    BY <1>1, <1>2, SessionIsSound, PTL DEF Spec, NothingIsUndone
=============================================================================
