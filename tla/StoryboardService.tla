------------------------- MODULE StoryboardService -------------------------
(***************************************************************************)
(* One storyboard and everything that commands it: the plan tool, the HTTP *)
(* handlers, the approval runtime and the generation workers, all through  *)
(* the command service (load, apply, save) and the versioned repository    *)
(* (internal/aigc/storyboard, server/router.go, generationruntime,         *)
(* capabilityruntime).                                                     *)
(*                                                                         *)
(* A handler that is not overtaken loads, applies and saves in one step.   *)
(* One handler at a time may be slow: it keeps what it loaded and applied  *)
(* in `slow` while others command the aggregate, and saves later; or it    *)
(* waits for the model in `fill`.                                          *)
(***************************************************************************)
EXTENDS StoryboardAggregate

CONSTANTS
  Requests,    \* plan_storyboard tool calls; a plan's revision has the call's id
  Regenerations, \* idempotency keys of regenerations the user asks for
  Turns,       \* turns of the agent that generate media
  Plans,       \* what the planner may return
  Dropped,     \* a job whose result was discarded as superseded
  Jobs,        \* generation jobs; a job's binding has the job's id
  Uploads,     \* assets of the user; the binding has the asset's id
  Texts,       \* prompts somebody may write
  Fields,      \* fields somebody may edit: title, content, meta
  Values,      \* values of an edited field
  MaxSpec,     \* bound: confirmed creation spec versions
  MaxVersion,  \* bound: versions of the aggregate
  MaxOvertaking, \* bound: saves that overtake one handler
  Overtaken,   \* kinds of commands whose handler may be overtaken
  Store        \* "memory" or "postgres"

VARIABLES
  agg,        \* the stored aggregate
  events,     \* command ids of the stored domain events
  slow,       \* a handler between its load and its save
  jobs,       \* token of each job, None or Dropped
  snapshots,  \* accepted regenerations that have no workflow yet
  fill,       \* what fillMissingPrompts read before the model call
  confirmed   \* version of the confirmed creation spec

ASSUME ServiceAssumption ==
  /\ Overtaken \subseteq {"plan", "promote", "decline", "edit", "prompt", "bind", "adopt"}
  /\ Store \in {"memory", "postgres"}
  /\ Fields \subseteq {"title", "content", "meta"} /\ Texts \cup Values \subseteq STRING

(* What the planner returns, and the rows of the aggregate; no row is taken *)
(* for a missing one.                                                       *)
IsPlan(plan) ==
  \E D \in SUBSET Keys :
    plan \in [scenario : STRING, deps : Seq(Keys \X Keys \X BOOLEAN),
             els : [D -> [id : Elements, title : STRING, content : STRING, meta : STRING,
                          text : STRING, required : BOOLEAN]]]

Ids == Jobs \cup Uploads
Slots == [epoch : Nat, active : Ids \cup {None}, cands : SUBSET Ids,
          status : {"missing", "candidate", "active", "stale"}]
Prompts == [text : STRING, rev : Nat, locked : BOOLEAN, status : {"missing", "ready", "stale"}]
ElementRows == [key : Keys, required : BOOLEAN, rev : Nat, title : STRING, content : STRING,
                meta : STRING, prompt : Prompts, slot : Slots]
Revisions(D) == [id : Requests, spec : Nat, scenario : STRING, preserve : BOOLEAN,
                 deps : Seq(Elements \X Elements \X BOOLEAN), els : [D -> ElementRows]]
IsRevision(rev) == \E D \in SUBSET Elements : rev \in Revisions(D)

ASSUME RowAssumption ==
  (\A plan \in Plans : IsPlan(plan)) /\ None \notin Ids \cup Requests /\ ~IsRevision(None)

vars == <<agg, events, slow, jobs, snapshots, fill, confirmed>>

-----------------------------------------------------------------------------
(* The repository *)

(* A conflicting or repeated save leaves the rows alone.  The memory store  *)
(* returns nil for a command id it has an event of, postgres fails on the   *)
(* unique index.                                                            *)
SaveAggregate(next, before, id) ==
  IF agg.version = before /\ next.version = before + 1 /\ id \notin events
  THEN agg' = next /\ events' = events \cup ({id} \ {None})
  ELSE UNCHANGED <<agg, events>>

(* Mutants: the event is written although the version has moved on; the row *)
(* is written although the version has moved on.                            *)
SaveEventRegardless(next, before, id) ==
  /\ agg' = IF agg.version = before /\ id \notin events THEN next ELSE agg
  /\ events' = events \cup ({id} \ {None})
SaveOverwriting(next, before, id) ==
  /\ agg' = [next EXCEPT !.applied = @ \cup agg.applied]
  /\ events' = events \cup ({id} \ {None})

SaveAggregatePostgres(next, before, id) ==
  LET locked == next.version = before + 1 /\ agg.version = before
      inserted == id \notin events
  IN  /\ agg' = IF locked /\ inserted THEN next ELSE agg
      /\ events' = IF locked THEN events \cup ({id} \ {None}) ELSE events

Save(next, before, id) ==
  IF Store = "postgres" THEN SaveAggregatePostgres(next, before, id)
  ELSE SaveAggregate(next, before, id)

(* The bounds on the versions of the aggregate. *)
Bounded ==
  /\ agg.version < MaxVersion
  /\ slow # None => agg.version < slow.before + MaxOvertaking

(* loadForCommand: a command in the ledger is answered from it.  A handler  *)
(* that is not overtaken saves what it loaded at once.                      *)
Submit(kind, next, id) ==
  /\ Bounded
  /\ id \notin agg.applied
  /\ \/ Save(next, agg.version, id) /\ UNCHANGED slow
     \/ /\ kind \in Overtaken /\ slow = None /\ fill = None
        /\ slow' = [next |-> next, before |-> agg.version, id |-> id]
        /\ UNCHANGED <<agg, events>>

FinishSlow ==
  /\ slow # None
  /\ Save(slow.next, slow.before, slow.id)
  /\ slow' = None
  /\ UNCHANGED <<jobs, snapshots, fill, confirmed>>

Quiet == UNCHANGED <<jobs, snapshots, fill, confirmed>>

-----------------------------------------------------------------------------
(* Plans *)

(* A tool call that has made its plan is answered with it, and none is made *)
(* while one is under review.                                               *)
PlanStoryboard(q, plan, preserve) ==
  /\ Bounded /\ q \notin agg.applied /\ agg.pending = None
  /\ ValidateRevision(plan) /\ IdsApart(agg.active, plan)
  /\ Submit("plan", CreatePendingRevision(agg, plan, confirmed, preserve, q), q)
  /\ Quiet

(* The approval runtime promotes only a plan of the confirmed spec.  The    *)
(* command has the key the approval of that plan was given.                 *)
PromoteRevision ==
  /\ agg.pending # None
  /\ agg.pending.spec = confirmed
  /\ LET id == <<"promote", agg.pending.id>>
     IN  Submit("promote", PromotePendingRevision(agg, id), id)
  /\ Quiet

RejectRevision ==
  /\ agg.pending # None
  /\ LET id == <<"archive", agg.pending.id>>
     IN  Submit("decline", RejectPendingRevision(agg, id), id)
  /\ Quiet

(* A session has one pending primary review: the plan's or the spec's.      *)
(* Specs confirmed before the first plan only shift the version numbers.    *)
ConfirmSpec ==
  /\ agg.pending = None /\ agg.active # None /\ confirmed < MaxSpec
  /\ confirmed' = confirmed + 1
  /\ UNCHANGED <<agg, events, slow, jobs, snapshots, fill>>

-----------------------------------------------------------------------------
(* Edits by the user.  The mutations of elements and modules are commands    *)
(* of the service for which the server has no handler yet: what their ids    *)
(* are is the caller's affair.                                               *)

EditElement(e, field, value) ==
  /\ HasElement(ReviewRevision(agg), e)
  /\ Submit("edit", ApplyMutation(agg, e, field, value), None)
  /\ Quiet

EditModule ==
  /\ ReviewRevision(agg) # None
  /\ Submit("edit", MutateModule(agg), None)
  /\ Quiet

(* The id says which revision of the prompt is replaced by what, and not at *)
(* which version of the aggregate: the same edit of a plan and, when that is *)
(* rejected, of the active revision have one id, and the second is refused.  *)
EditPrompt(e, text) ==
  /\ HasElement(ReviewRevision(agg), e)
  /\ text # ""
  /\ LET id == <<"prompt", e, ReviewRevision(agg).els[e].prompt.rev, text>>
     IN  Submit("prompt", UpdatePrompt(agg, e, text, TRUE, id), id)
  /\ Quiet

-----------------------------------------------------------------------------
(* Generation *)

NeedsPrompt(prompt) ==
  ~prompt.locked /\ (prompt.status \in {"missing", "stale"} \/ prompt.text = "")

MayGenerate == agg.pending = None /\ agg.active # None /\ agg.active.spec = confirmed

(* generateMedia first has the model write every prompt that is missing or  *)
(* stale; the aggregate may change meanwhile.                               *)
FillTargets == {e \in DOMAIN agg.active.els : NeedsPrompt(agg.active.els[e].prompt)}

FillRead(t) ==
  /\ MayGenerate /\ fill = None /\ slow = None /\ agg.version < MaxVersion
  /\ FillTargets # {}
  /\ fill' = [turn |-> t, todo |-> FillTargets, base |-> None,
              seen |-> [e \in FillTargets |->
                          <<agg.active.els[e].rev, agg.active.els[e].prompt.rev>>]]
  /\ UNCHANGED <<agg, events, slow, jobs, snapshots, confirmed>>

(* The answer is dropped if a target is gone or has changed; a prompt the   *)
(* user has locked meanwhile is left to the user.                           *)
FillRecheck ==
  LET Unlocked == {e \in fill.todo : HasElement(agg.active, e) /\ ~agg.active.els[e].prompt.locked}
      Unchanged(e) == fill.seen[e] = <<agg.active.els[e].rev, agg.active.els[e].prompt.rev>>
  IN  /\ fill # None /\ fill.base = None
      /\ fill' = IF /\ \A e \in fill.todo : HasElement(agg.active, e)
                    /\ \A e \in Unlocked : Unchanged(e)
                 THEN [fill EXCEPT !.todo = Unlocked, !.base = agg.version] ELSE None
      /\ UNCHANGED <<agg, events, slow, jobs, snapshots, confirmed>>

(* the expected revisions of the UpdatePromptCommand, on the review revision *)
FillAccepted(e) ==
  LET rev == ReviewRevision(agg) IN
  /\ agg.version = fill.base
  /\ HasElement(rev, e) /\ fill.seen[e] = <<rev.els[e].rev, rev.els[e].prompt.rev>>

(* One save per prompt, each on the version the previous one returned; the   *)
(* first error ends the tool call.  The id is the turn's and the prompt's: a *)
(* turn that generates twice cannot write the same prompt twice.             *)
FillWrite(e, text) ==
  LET id == <<"fill", fill.turn, e>> IN
  /\ fill # None /\ fill.base # None /\ text # ""
  /\ e \in fill.todo
  /\ IF FillAccepted(e) /\ id \notin agg.applied
     THEN /\ Submit("fill", UpdatePrompt(agg, e, text, FALSE, id), id)
          /\ fill' = [fill EXCEPT !.todo = @ \ {e}, !.base = @ + 1]
     ELSE fill' = None /\ UNCHANGED <<agg, events, slow>>
  /\ UNCHANGED <<jobs, snapshots, confirmed>>

(* A tool call that need not fill prompts, or has just filled them.          *)
Filled == IF fill = None THEN FillTargets = {} ELSE fill.todo = {} /\ fill.base = agg.version

InFlight(j) == jobs[j] \notin {None, Dropped} /\ j \notin BindingIDs(agg)

SelectGenerationTargets ==
  {e \in DOMAIN agg.active.els :
     LET el == agg.active.els[e] IN
     /\ el.slot.status \in {"missing", "stale"} /\ el.slot.cands = {}
     /\ el.prompt.text # ""
     /\ ~\E j \in Jobs : InFlight(j) /\ jobs[j].target = e
     /\ ResolveGenerationInput(agg, e).blocked = None}

(* The job is created some time after the aggregate was read; nothing looks   *)
(* at the aggregate in between, so it may as well be created at once.        *)
GenerateMedia(j, e) ==
  /\ MayGenerate /\ Filled
  /\ jobs[j] = None
  /\ e \in SelectGenerationTargets
  /\ jobs' = [jobs EXCEPT ![j] = ResolveGenerationInput(agg, e)]
  /\ fill' = None
  /\ UNCHANGED <<agg, events, slow, snapshots, confirmed>>

(* regenerateTarget keeps the accepted input in the domain event; it is in   *)
(* `snapshots` from the save until its workflow exists.  (An overtaken       *)
(* regeneration conflicts and saves nothing.)                                *)
RegenerateTarget(r, e) ==
  /\ MayGenerate
  /\ HasElement(agg.active, e)
  /\ LET token == ResolveGenerationInput(WithNextEpoch(agg, e), e)
     IN  /\ token.blocked = None /\ token.text # ""
         /\ Submit("regenerate", RegenerateAsset(agg, e, <<"epoch", r>>), <<"epoch", r>>)
         /\ snapshots' = snapshots \cup {token}
  /\ UNCHANGED <<jobs, fill, confirmed>>

(* The workflow is created after the save, by the same request or by its    *)
(* retry from the stored snapshot.                                          *)
CreateTargetRegenerationWorkflow(j, token) ==
  /\ jobs[j] = None
  /\ jobs' = [jobs EXCEPT ![j] = token]
  /\ snapshots' = snapshots \ {token}
  /\ UNCHANGED <<agg, events, slow, fill, confirmed>>

(* the token check of Check and of commit *)
TokenMatches(j) ==
  /\ HasElement(agg.active, jobs[j].target)
  /\ jobs[j] = ResolveGenerationInput(agg, jobs[j].target)
  /\ agg.active.spec = confirmed

CommitJob(j) ==
  /\ InFlight(j)
  /\ TokenMatches(j)
  /\ Submit("bind", BindAsset(agg, j, jobs[j], <<"bind", j>>), <<"bind", j>>)
  /\ Quiet

DropJob(j) ==
  /\ InFlight(j)
  /\ ~TokenMatches(j)
  /\ jobs' = [jobs EXCEPT ![j] = Dropped]
  /\ UNCHANGED <<agg, events, slow, snapshots, fill, confirmed>>

-----------------------------------------------------------------------------
(* Candidates *)

AdoptCandidate(b) ==
  /\ b \in BindingIDs(agg)
  /\ CanActivate(agg, b)
  /\ Submit("adopt", ActivateBinding(agg, b, <<"activate", b>>), <<"activate", b>>)
  /\ Quiet

DeclineCandidate(b) ==
  /\ b \in BindingIDs(agg) \cap Jobs
  /\ CanReject(agg, b)
  /\ Submit("decline", RejectBinding(agg, b, <<"reject", b>>), <<"reject", b>>)
  /\ Quiet

(* bindTargetAsset: the user's asset is bound with the current input and    *)
(* activated by a second command (AdoptCandidate).                          *)
BindTargetAsset(u, e) ==
  /\ u \notin BindingIDs(agg)
  /\ MayGenerate /\ HasElement(agg.active, e)
  /\ Submit("bind", BindAsset(agg, u, ResolveGenerationInput(agg, e), <<"bind", u>>), <<"bind", u>>)
  /\ Quiet

-----------------------------------------------------------------------------
Init ==
  /\ agg = NewStoryboardAggregate
  /\ events = {}
  /\ slow = None
  /\ jobs = [j \in Jobs |-> None]
  /\ snapshots = {}
  /\ fill = None
  /\ confirmed = 1

Next ==
  \/ FinishSlow \/ PromoteRevision \/ RejectRevision \/ ConfirmSpec \/ EditModule
  \/ \E q \in Requests, plan \in Plans, preserve \in BOOLEAN : PlanStoryboard(q, plan, preserve)
  \/ \E e \in Elements, field \in Fields, v \in Values :
       EditElement(e, field, v)
  \/ \E e \in Elements, t \in Texts : EditPrompt(e, t)
  \/ \E t \in Turns : FillRead(t)
  \/ FillRecheck
  \/ \E e \in Elements, t \in Texts : FillWrite(e, t)
  \/ \E r \in Regenerations, e \in Elements : RegenerateTarget(r, e)
  \/ \E j \in Jobs, e \in Elements : GenerateMedia(j, e)
  \/ \E j \in Jobs, token \in snapshots : CreateTargetRegenerationWorkflow(j, token)
  \/ \E j \in Jobs : CommitJob(j) \/ DropJob(j)
  \/ \E b \in Jobs \cup Uploads : AdoptCandidate(b) \/ DeclineCandidate(b)
  \/ \E u \in Uploads, e \in Elements : BindTargetAsset(u, e)

Spec == Init /\ [][Next]_vars

-----------------------------------------------------------------------------
(* Properties *)

Live(b) == BindingByID(agg, b).state \in {"candidate", "active"}

(* The bindings and the slots of the active revision agree: a slot's active *)
(* binding and candidates are bindings of that element in that state, and   *)
(* no binding is active or a candidate outside a slot (activateBinding,     *)
(* supersedeInvalidCandidates, supersedeUnreferencedBindings).              *)
BindingsMatchSlots ==
  /\ agg.active = None => \A b \in BindingIDs(agg) : ~Live(b)
  /\ agg.active # None =>
       \A e \in Elements :
         LET Of(state) == {b \in BindingIDs(agg) : /\ BindingByID(agg, b).target = e
                                                   /\ BindingByID(agg, b).state = state}
             slot == IF e \in DOMAIN agg.active.els THEN agg.active.els[e].slot ELSE EmptySlot
         IN  Of("candidate") = slot.cands /\ Of("active") = {slot.active} \ {None}

(* Every accepted command has exactly one domain event: the ledger of the   *)
(* aggregate and the event table never part, whichever handler was          *)
(* overtaken (SaveAggregate; the silent return of repository.go:110 is      *)
(* never reached with an unsaved command).                                  *)
EventsMatchLedger == events = agg.applied

(* A binding becomes the asset of its slot only while it is the answer to   *)
(* the current generation input (activateBinding).                          *)
AdoptedIsCurrent ==
  [][\A b \in BindingIDs(agg) :
       (/\ BindingByID(agg, b).state # "active"
        /\ BindingByID(agg', b).state = "active")
       => BindingByID(agg, b).token = ResolveGenerationInput(agg, BindingByID(agg, b).target)]_vars

(* Promoting a plan that preserves approved assets keeps every asset that is *)
(* active at that moment, also one adopted while the plan was under review,  *)
(* if the element's content, prompt and dependencies are those of the plan   *)
(* (rebaseApprovedAssets).                                                   *)
AdoptedSurvivesPromotion ==
  [][(/\ agg.active # None /\ agg.pending # None /\ agg.pending.preserve
      /\ agg'.pending = None /\ agg'.active # agg.active) =>
       \A e \in DOMAIN agg.active.els \cap DOMAIN agg.pending.els :
         LET old == agg.active.els[e] IN
         (/\ old.slot.status = "active" /\ GenerationCompatible(old, agg.pending.els[e])
          /\ DependencySignature(agg.active.deps, e) = DependencySignature(agg.pending.deps, e))
         => agg'.active.els[e].slot.active = old.slot.active]_vars

(* The plan under review gives the id of an element of the active revision  *)
(* to another key.                                                          *)
Reassigned(a, e) ==
  HasElement(a.active, e) /\ HasElement(a.pending, e) /\ a.active.els[e].key # a.pending.els[e].key

(* A prompt the user wrote is never replaced by one of the planner or of     *)
(* fillMissingPrompts: the element of that key stays locked and keeps the    *)
(* text until the user writes another, while its revision is edited, across  *)
(* replans and promotions, whatever was read before the model call           *)
(* (reconcileLockedPrompts, UpdatePrompt).  Left out are elements of a plan  *)
(* under review that have an id the active revision knows under another key: *)
(* fillMissingPrompts tells prompts apart by id and revision numbers only.   *)
LockedStaysLocked ==
  [][\A f \in {"active", "pending"} : agg[f] # None /\ agg'[f] # None =>
       \A x \in DOMAIN agg[f].els, y \in DOMAIN agg'[f].els :
         LET before == agg[f].els[x].prompt
             after == agg'[f].els[y].prompt
         IN  (/\ agg[f].els[x].key = agg'[f].els[y].key /\ before.locked
              /\ f = "pending" => ~Reassigned(agg, x))
             => after.locked /\ (after.text = before.text \/ after.rev > before.rev)]_vars

=============================================================================
