------------------------ MODULE StoryboardAggregate ------------------------
(***************************************************************************)
(* The storyboard aggregate as a value, and its commands as operators from *)
(* one value to the next (internal/aigc/storyboard: aggregate.go,          *)
(* command.go, revision.go, generation_input.go).                          *)
(*                                                                         *)
(* An aggregate has an active and a pending revision; superseded and       *)
(* rejected revisions are history that no command reads, and are dropped.  *)
(* A revision maps its element ids to elements, each with one prompt slot  *)
(* and one asset slot.  An element also has a key (its module's key and    *)
(* its own), by which a plan is matched with the active revision; the id   *)
(* is the planner's until then.  A dependency <<from, to, named>> runs     *)
(* between elements, and names the slot of `from` or leaves it blank.  A   *)
(* binding is its own asset, and its token is the whole GenerationInput of *)
(* which the code keeps a hash.  Every asset slot needs review             *)
(* (revision.go:294).                                                      *)
(***************************************************************************)
EXTENDS Integers, Sequences, FiniteSets

CONSTANTS
  Elements,   \* element ids
  Keys,       \* keys of elements, the module's key included
  Named,      \* keys whose prompt purpose names the asset slot; the others
              \* are served by the single-prompt fallback of generationPrompt
  None        \* no revision, no binding, no blocked dependency

ASSUME StoryboardAssumption ==
  IsFiniteSet(Elements) /\ Named \subseteq Keys /\ None \notin Elements

EmptySlot == [epoch |-> 0, active |-> None, cands |-> {}, status |-> "missing"]

NormalizePromptSlot(text) ==
  [text |-> text, rev |-> 1, locked |-> FALSE,
   status |-> IF text = "" THEN "missing" ELSE "ready"]

NewStoryboardAggregate ==
  [version |-> 0, active |-> None, pending |-> None, bindings |-> <<>>, applied |-> {}]

HasElement(rev, e) == rev # None /\ e \in DOMAIN rev.els

(* mutableReviewRevision: edits go to the plan under review, if there is one *)
ReviewRevision(a) == IF a.pending # None THEN a.pending ELSE a.active
WithReview(a, rev) ==
  IF a.pending # None THEN [a EXCEPT !.pending = rev] ELSE [a EXCEPT !.active = rev]

(* An element, or its asset slot, is replaced. *)
PutElement(rev, e, el) == [rev EXCEPT !.els = [rev.els EXCEPT ![e] = el]]
PutSlot(rev, e, slot) == PutElement(rev, e, [rev.els[e] EXCEPT !.slot = slot])

BindingIDs(a) == {a.bindings[i].id : i \in DOMAIN a.bindings}
BindingByID(a, b) ==
  a.bindings[CHOOSE i \in DOMAIN a.bindings : a.bindings[i].id = b]
(* A superseded or rejected binding is history: nothing reads its token. *)
Retire(binding, state) == [binding EXCEPT !.state = state, !.token = None]
SetBindingState(bindings, S, state) ==
  [i \in DOMAIN bindings |->
     IF bindings[i].id \notin S THEN bindings[i]
     ELSE IF state = "active" THEN [bindings[i] EXCEPT !.state = state]
     ELSE Retire(bindings[i], state)]

(* touchCommand: one version and one ledger entry per command.  An id that no *)
(* other command can have is left out (None).                                 *)
TouchCommand(a, id) ==
  [a EXCEPT !.version = @ + 1, !.applied = @ \cup ({id} \ {None})]

-----------------------------------------------------------------------------
(* Dependencies *)

Edges(rev) == {rev.deps[i] : i \in DOMAIN rev.deps}

DependencyClosure(rev, e) ==
  LET Reached[n \in Nat] ==
        IF n = 0 THEN {e}
        ELSE Reached[n - 1] \cup {d[2] : d \in {x \in Edges(rev) : x[1] \in Reached[n - 1]}}
  IN  Reached[Len(rev.deps)] \ {e}

MarkElementAssetSlotsStale(el) ==
  IF el.slot.active # None \/ el.slot.cands # {}
  THEN [el EXCEPT !.slot.status = "stale"] ELSE el

MarkElementStale(el) ==
  MarkElementAssetSlotsStale([el EXCEPT !.prompt.status = "stale"])

MarkDependencyClosure(rev, e) ==
  [rev EXCEPT !.els = [x \in DOMAIN @ |->
     IF x \in DependencyClosure(rev, e) THEN MarkElementStale(@[x]) ELSE @[x]]]

(* The assets of the upstream slots in edge order, each once, or the first *)
(* upstream element that is waited for: its slot is not active, and it is  *)
(* required or the edge names it.                                          *)
ResolveDependencyAssets(a, e) ==
  LET rev == a.active
      up == SelectSeq(rev.deps, LAMBDA d : d[2] = e)
      Source(d) == rev.els[d[1]]
      Ready(d) == Source(d).slot.status = "active" /\ Source(d).slot.active # None
      waiting == SelectSeq(up, LAMBDA d : ~Ready(d) /\ (d[3] \/ Source(d).required))
      Asset(i) == Source(up[i]).slot.active
      Counts(i) == /\ Asset(i) # None /\ BindingByID(a, Asset(i)).state = "active"
                   /\ \A j \in 1..(i - 1) : Asset(j) # Asset(i)
      counted == SelectSeq([i \in DOMAIN up |-> i], Counts)
  IN  IF waiting # <<>> THEN [inputs |-> <<>>, blocked |-> Head(waiting)[1]]
      ELSE [inputs |-> [n \in DOMAIN counted |-> Asset(counted[n])], blocked |-> None]

(* What an asset is generated from: the spec version and the scenario of the *)
(* plan, the element, its prompt and the assets it depends on.               *)
ResolveGenerationInput(a, e) ==
  LET el == a.active.els[e]
      deps == ResolveDependencyAssets(a, e)
  IN  [target |-> e, spec |-> a.active.spec, scenario |-> a.active.scenario,
       rev |-> el.rev, epoch |-> el.slot.epoch, text |-> el.prompt.text,
       promptRev |-> el.prompt.rev,
       inputs |-> deps.inputs, blocked |-> deps.blocked]

-----------------------------------------------------------------------------
(* Superseding candidates *)

DetachCandidates(slot, B) ==
  [slot EXCEPT !.cands = @ \ B,
     !.status = CASE slot.status = "stale" -> "stale"
                  [] slot.status # "stale" /\ slot.active # None -> "active"
                  [] slot.status # "stale" /\ slot.active = None -> "missing"]

Candidates(a) == {i \in DOMAIN a.bindings : a.bindings[i].state = "candidate"}

(* The candidates S are superseded and leave their slots. *)
Supersede(a, S) ==
  LET Of(e) == {a.bindings[i].id : i \in {j \in S : a.bindings[j].target = e}}
      bindings == [i \in DOMAIN a.bindings |->
                     IF i \in S THEN Retire(a.bindings[i], "superseded") ELSE a.bindings[i]]
      els == [e \in DOMAIN a.active.els |->
                IF Of(e) = {} THEN a.active.els[e]
                ELSE [a.active.els[e] EXCEPT !.slot = DetachCandidates(@, Of(e))]]
  IN  [a EXCEPT !.bindings = bindings, !.active = [a.active EXCEPT !.els = els]]

(* Candidate i still answers the current input of its target. *)
IsValid(a, i) ==
  LET b == a.bindings[i] IN
  /\ HasElement(a.active, b.target)
  /\ b.token.blocked = None
  /\ b.token = ResolveGenerationInput(a, b.target)

(* One pass over the bindings in order: a slot that falls back to active may *)
(* unblock a later binding's input.                                          *)
InvalidCandidates(a) ==
  LET Passed[n \in 0..Len(a.bindings)] ==
        IF n = 0 THEN {}
        ELSE LET gone == Passed[n - 1]
             IN  IF n \in Candidates(a) /\ ~IsValid(Supersede(a, gone), n)
                 THEN gone \cup {n} ELSE gone
  IN  {i \in Candidates(a) : i \in Passed[Len(a.bindings)]}

SupersedeInvalidCandidates(a) ==
  IF a.active = None THEN a ELSE Supersede(a, InvalidCandidates(a))

(* Mutant: a promotion leaves the bindings of the old revision alone. *)
KeepUnreferencedBindings(a, rev) == [a EXCEPT !.active = rev]

SupersedeUnreferencedBindings(a, rev) ==
  LET referenced == UNION {{rev.els[e].slot.active} \cup rev.els[e].slot.cands :
                             e \in DOMAIN rev.els}
      live == {b \in BindingIDs(a) : BindingByID(a, b).state \in {"candidate", "active"}}
  IN  [a EXCEPT !.bindings = SetBindingState(a.bindings, live \ referenced, "superseded")]

-----------------------------------------------------------------------------
(* Edits of the revision under review *)

(* `edit` is title, content (semantic type included) or meta; only meta     *)
(* leaves the generation input alone.                                      *)
MutateElement(el, field, value) ==
  CASE field = "title" -> [el EXCEPT !.title = value]
    [] field = "content" -> [el EXCEPT !.content = value]
    [] field = "meta" -> [el EXCEPT !.meta = value]

ApplyMutation(a, e, field, value) ==
  LET rev == ReviewRevision(a)
      el == [MutateElement(rev.els[e], field, value) EXCEPT !.rev = @ + 1]
      edited == PutElement(rev, e, el)
      marked == MarkDependencyClosure(PutElement(rev, e, MarkElementStale(el)), e)
  IN  IF field = "meta" THEN TouchCommand(WithReview(a, edited), None)
      ELSE TouchCommand(SupersedeInvalidCandidates(WithReview(a, marked)), None)

(* mutateModule on title, description or order: every element of the module *)
MutateModule(a) ==
  LET marked == [ReviewRevision(a) EXCEPT !.els = [e \in DOMAIN @ |-> MarkElementStale(@[e])]]
  IN  TouchCommand(SupersedeInvalidCandidates(WithReview(a, marked)), None)

UpdatePrompt(a, e, text, locked, id) ==
  LET rev == ReviewRevision(a)
      slot == [text |-> text, rev |-> rev.els[e].prompt.rev + 1, locked |-> locked,
               status |-> IF text = "" THEN "missing" ELSE "ready"]
      written == [rev.els[e] EXCEPT !.prompt = slot]
      edited == PutElement(rev, e, IF written.key \in Named THEN MarkElementAssetSlotsStale(written) ELSE written)
  IN  TouchCommand(SupersedeInvalidCandidates(
        WithReview(a, MarkDependencyClosure(edited, e))), id)

-----------------------------------------------------------------------------
(* Generation and bindings, always on the active revision *)

WithNextEpoch(a, e) ==
  [a EXCEPT !.active = PutSlot(a.active, e, [a.active.els[e].slot EXCEPT !.epoch = @ + 1])]

RegenerateAsset(a, e, id) == TouchCommand(SupersedeInvalidCandidates(WithNextEpoch(a, e)), id)

NextArtifactRevision(bindings, e) ==
  1 + Len(SelectSeq(bindings, LAMBDA b : b.target = e))

BindAsset(a, b, token, id) ==
  LET e == token.target
      valid == token = ResolveGenerationInput(a, e)
      binding == [id |-> b, target |-> e, token |-> IF valid THEN token ELSE None,
                  state |-> IF valid THEN "candidate" ELSE "superseded",
                  revision |-> NextArtifactRevision(a.bindings, e)]
      slot == [a.active.els[e].slot EXCEPT !.cands = @ \cup {b}, !.status = "candidate"]
      active == IF valid THEN PutSlot(a.active, e, slot) ELSE a.active
  IN  TouchCommand([a EXCEPT !.bindings = Append(a.bindings, binding), !.active = active], id)

(* activateBinding's checks; a mismatch is returned as an error, unsaved *)
CanActivate(a, b) ==
  LET e == BindingByID(a, b).target IN
  /\ BindingByID(a, b).state = "candidate"
  /\ HasElement(a.active, e)
  /\ b \in a.active.els[e].slot.cands
  /\ BindingByID(a, b).token = ResolveGenerationInput(a, e)

ActivateBinding(a, b, id) ==
  LET e == BindingByID(a, b).target
      others == {x \in BindingIDs(a) : /\ BindingByID(a, x).target = e
                                       /\ BindingByID(a, x).state = "active"}
      swapped == SetBindingState(SetBindingState(a.bindings, others, "superseded"),
                                 {b}, "active")
      slot == [a.active.els[e].slot EXCEPT !.active = b, !.cands = @ \ {b}, !.status = "active"]
  IN  TouchCommand(SupersedeInvalidCandidates(
        [a EXCEPT !.bindings = swapped,
                  !.active = MarkDependencyClosure(PutSlot(a.active, e, slot), e)]), id)

CanReject(a, b) ==
  /\ BindingByID(a, b).state = "candidate"
  /\ HasElement(a.active, BindingByID(a, b).target)

RejectBinding(a, b, id) ==
  LET e == BindingByID(a, b).target
      left == a.active.els[e].slot.cands \ {b}
      status == IF a.active.els[e].slot.active # None THEN "active"
                ELSE IF left # {} THEN "candidate" ELSE "missing"
      slot == [a.active.els[e].slot EXCEPT !.cands = left, !.status = status]
  IN  TouchCommand([a EXCEPT !.bindings = SetBindingState(a.bindings, {b}, "rejected"),
                             !.active = PutSlot(a.active, e, slot)], id)

-----------------------------------------------------------------------------
(* Whole-plan revisions *)

(* Neither the title nor the key is part of what an asset was generated from. *)
GenerationCompatible(old, new) ==
  /\ old.content = new.content /\ old.prompt.text = new.prompt.text
  /\ old.required = new.required

Highest(m, n) == IF m > n THEN m ELSE n

(* reconcileAssetSlots for one slot: only an active, approved binding moves *)
ReconcileAssetSlot(slot, old, compatible) ==
  LET wasStale == old.status = "stale" \/ (~compatible /\ old.active # None)
      carried == compatible /\ old.status = "active" /\ old.active # None
  IN  [epoch |-> Highest(slot.epoch, old.epoch + IF compatible THEN 0 ELSE 1),
       active |-> IF carried THEN old.active ELSE None,
       cands |-> {},
       status |-> IF carried THEN "active" ELSE IF wasStale THEN "stale" ELSE "missing"]

DependencySignature(deps, e) == {d \in {deps[i] : i \in DOMAIN deps} : d[2] = e}

InvalidateDependencyIncompatibleSlots(active, cand) ==
  LET Incompatible(e) ==
        /\ HasElement(active, e) /\ cand.els[e].slot.active # None
        /\ DependencySignature(active.deps, e) # DependencySignature(cand.deps, e)
      Slot(e) == [epoch |-> Highest(cand.els[e].slot.epoch, active.els[e].slot.epoch + 1),
                  active |-> None, cands |-> {}, status |-> "stale"]
      els == [e \in DOMAIN cand.els |->
                IF Incompatible(e) THEN [cand.els[e] EXCEPT !.slot = Slot(e)] ELSE cand.els[e]]
  IN  [cand EXCEPT !.els = els]

(* Mutant: the promotion keeps what was reconciled when the plan was made. *)
NoRebase(active, cand) == cand

RebaseApprovedAssets(active, cand) ==
  LET Slot(e) == ReconcileAssetSlot(cand.els[e].slot, active.els[e].slot,
                                    GenerationCompatible(active.els[e], cand.els[e]))
      els == [e \in DOMAIN cand.els |->
                IF HasElement(active, e) THEN [cand.els[e] EXCEPT !.slot = Slot(e)] ELSE cand.els[e]]
  IN  InvalidateDependencyIncompatibleSlots(active, [cand EXCEPT !.els = els])

SameElementPlan(old, new) == [old EXCEPT !.rev = 0] = [new EXCEPT !.rev = 0]

(* The elements of the active revision that a key of a plan matches: at most *)
(* one.  The plan takes over its id, and else keeps the planner's.           *)
Matched(active, k) ==
  {e \in Elements : HasElement(active, e) /\ active.els[e].key = k}
IdOf(active, plan, k) ==
  IF Matched(active, k) # {} THEN CHOOSE e \in Matched(active, k) : TRUE ELSE plan.els[k].id
KeyOf(active, plan, e) == CHOOSE k \in DOMAIN plan.els : IdOf(active, plan, k) = e

(* Mutant: the planner's prompt replaces the user's. *)
ReconcileForgettingLocks(active, plan, k, preserve) ==
  LET p == plan.els[k] IN
  [key |-> k, required |-> p.required, title |-> p.title, content |-> p.content, meta |-> p.meta,
   rev |-> IF Matched(active, k) = {} THEN 1 ELSE active.els[IdOf(active, plan, k)].rev + 1,
   prompt |-> NormalizePromptSlot(p.text), slot |-> EmptySlot]

(* One element of a plan, by its key: runtime state is never taken from the *)
(* candidate, a prompt the user locked is never overwritten.                *)
ReconcileElement(active, plan, k, preserve) ==
  LET p == plan.els[k]
      exists == Matched(active, k) # {}
      old == active.els[IdOf(active, plan, k)]
      fresh == [key |-> k, required |-> p.required, rev |-> 1,
                title |-> p.title, content |-> p.content, meta |-> p.meta,
                prompt |-> IF exists /\ old.prompt.locked THEN old.prompt
                           ELSE NormalizePromptSlot(p.text),
                slot |-> EmptySlot]
      el == IF exists /\ preserve
            THEN [fresh EXCEPT !.slot =
                    ReconcileAssetSlot(@, old.slot, GenerationCompatible(old, fresh))]
            ELSE fresh
  IN  IF ~exists THEN el
      ELSE [el EXCEPT !.rev = IF SameElementPlan(old, el) THEN old.rev ELSE old.rev + 1]

(* The edges of a plan are resolved from keys to ids. *)
ReconcileRevision(active, plan, spec, preserve, id) ==
  LET Id(k) == IdOf(active, plan, k)
      cand == [id |-> id, spec |-> spec, scenario |-> plan.scenario, preserve |-> preserve,
               deps |-> [i \in DOMAIN plan.deps |->
                           <<Id(plan.deps[i][1]), Id(plan.deps[i][2]), plan.deps[i][3]>>],
               els |-> [e \in {Id(k) : k \in DOMAIN plan.els} |->
                          ReconcileElement(active, plan, KeyOf(active, plan, e), preserve)]]
  IN  IF active # None /\ preserve
      THEN InvalidateDependencyIncompatibleSlots(active, cand) ELSE cand

(* uniqueStableID renames an element whose id is taken.  Plans that need it, *)
(* where the planner gives a new key the id of an element it keeps, are left *)
(* out.                                                                      *)
IdsApart(active, plan) ==
  \A j, k \in DOMAIN plan.els : IdOf(active, plan, j) = IdOf(active, plan, k) => j = k

ValidateDependencyDAG(plan) ==
  /\ \A i, j \in DOMAIN plan.deps : plan.deps[i] = plan.deps[j] => i = j
  /\ \A d \in Edges(plan) : d[1] \notin DependencyClosure(plan, d[2])

(* The keys stand for the ids they are resolved to. *)
ValidateRevision(plan) ==
  /\ DOMAIN plan.els # {}
  /\ \A d \in Edges(plan) : {d[1], d[2]} \subseteq DOMAIN plan.els /\ d[1] # d[2]
  /\ ValidateDependencyDAG(plan)

CreatePendingRevision(a, plan, spec, preserve, id) ==
  TouchCommand([a EXCEPT !.pending = ReconcileRevision(a.active, plan, spec, preserve, id)], id)

(* The preserve flag is read only here. *)
PromotePendingRevision(a, id) ==
  LET rebased == IF a.active # None /\ a.pending.preserve
                 THEN RebaseApprovedAssets(a.active, a.pending) ELSE a.pending
      promoted == [rebased EXCEPT !.preserve = FALSE]
  IN  TouchCommand(SupersedeUnreferencedBindings(
        [a EXCEPT !.active = promoted, !.pending = None], promoted), id)

RejectPendingRevision(a, id) == TouchCommand([a EXCEPT !.pending = None], id)

=============================================================================
