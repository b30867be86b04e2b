-------------------------- MODULE StoryboardProofs --------------------------
(***************************************************************************)
(* Proofs about the storyboard (StoryboardService), for any elements,      *)
(* plans, jobs and uploads and any number of commands.                     *)
(*                                                                         *)
(* The argument: every command takes a sound aggregate to a sound one      *)
(* (Follows), whatever the dependencies are and whichever candidates they  *)
(* invalidate.  A save that succeeds replaces the very aggregate the       *)
(* command was applied to, because the version has not moved (SlowInv);    *)
(* what fillMissingPrompts read before the model call is still true of the *)
(* version it writes on (FillInv).                                         *)
(***************************************************************************)
EXTENDS StoryboardService, TLAPS

-----------------------------------------------------------------------------
(* Sound aggregates *)

IsBinding(b) ==
  b \in [id : Ids, target : Elements, token : {b.token}, revision : {b.revision},
         state : {"candidate", "active", "superseded", "rejected"}]

IsShaped(a) ==
  a \in [version : Nat, active : {a.active}, pending : {a.pending}, bindings : {a.bindings}, applied : {a.applied}]

IsAggregate(a) ==
  /\ IsShaped(a)
  /\ \A rev \in {a.active, a.pending} : rev # None => IsRevision(rev)
  /\ a.bindings \in Seq({a.bindings[i] : i \in DOMAIN a.bindings})
  /\ \A i \in DOMAIN a.bindings : IsBinding(a.bindings[i])

(* No two bindings have the same id. *)
UniqueIds(bindings) ==
  \A i, j \in DOMAIN bindings : bindings[i].id = bindings[j].id => i = j

(* A live binding sits in the slot of its element. *)
InSlot(rev, b) ==
  b.state \in {"candidate", "active"} =>
    /\ rev # None /\ b.target \in DOMAIN rev.els
    /\ b.state = "candidate" => b.id \in rev.els[b.target].slot.cands
    /\ b.state = "active" => b.id = rev.els[b.target].slot.active

(* What a slot names is a binding of its element. *)
Backed(bindings, e, slot) ==
  /\ \A x \in slot.cands : \E i \in DOMAIN bindings :
       bindings[i].id = x /\ bindings[i].target = e /\ bindings[i].state = "candidate"
  /\ slot.active # None => \E i \in DOMAIN bindings :
       bindings[i].id = slot.active /\ bindings[i].target = e /\ bindings[i].state = "active"

(* No two elements of a revision have the same key. *)
UniqueKeys(rev) ==
  \A x, y \in DOMAIN rev.els : rev.els[x].key = rev.els[y].key => x = y

(* A prompt the user wrote stays until the user writes another. *)
KeepsLock(p, q) ==
  p.locked => q.locked /\ q.rev >= p.rev /\ (q.text = p.text \/ q.rev > p.rev)

(* A later state of the same element: its locked prompt is kept, and an      *)
(* element with the same revision numbers has the same lock.                 *)
Succeeds(x, y) ==
  /\ y.key = x.key /\ KeepsLock(x.prompt, y.prompt)
  /\ y.rev >= x.rev
  /\ y.rev = x.rev => /\ y.prompt.rev >= x.prompt.rev
                      /\ y.prompt.rev = x.prompt.rev => y.prompt.locked = x.prompt.locked

(* A plan under review has no candidates, assets only as a copy of those of *)
(* the active revision, and under a key of the active revision the element  *)
(* with the same id.                                                        *)
Reviewed(active, pending) ==
  \A e \in DOMAIN pending.els :
    /\ pending.els[e].slot.cands = {}
    /\ pending.els[e].slot.active # None => pending.preserve /\ HasElement(active, e)
    /\ \A d : HasElement(active, d) /\ active.els[d].key = pending.els[e].key =>
         d = e /\ Succeeds(active.els[d], pending.els[e])

Sound(a) ==
  /\ IsAggregate(a)
  /\ \A rev \in {a.active, a.pending} : rev # None => UniqueKeys(rev)
  /\ UniqueIds(a.bindings)
  /\ \A i \in DOMAIN a.bindings : InSlot(a.active, a.bindings[i])
  /\ a.active # None => \A e \in DOMAIN a.active.els : Backed(a.bindings, e, a.active.els[e].slot)
  /\ a.pending # None => Reviewed(a.active, a.pending)

-----------------------------------------------------------------------------
(* What a command may do *)

(* A binding becomes active only as the answer to the current input. *)
AdoptsCurrent(a, n) ==
  \A i \in DOMAIN a.bindings :
    /\ i \in DOMAIN n.bindings /\ n.bindings[i].id = a.bindings[i].id
    /\ n.bindings[i].state = "active" =>
         \/ a.bindings[i].state = "active"
         \/ a.bindings[i].token = ResolveGenerationInput(a, a.bindings[i].target)

(* The elements of r outside F keep their locked prompts in s, by key. *)
KeepsLocks(r, s, F) ==
  r # None /\ s # None =>
    \A x \in DOMAIN r.els, y \in DOMAIN s.els :
      x \notin F /\ r.els[x].key = s.els[y].key => KeepsLock(r.els[x].prompt, s.els[y].prompt)

(* The elements under review whose id the active revision knows under      *)
(* another key                                                             *)
Exempt(a) == {e \in Elements : Reassigned(a, e)}

KeepsAssets(a, n) ==
  (a.active # None /\ a.pending # None /\ a.pending.preserve /\ n.pending = None /\ n.active # a.active) =>
    \A e \in DOMAIN a.active.els \cap DOMAIN a.pending.els :
      (/\ a.active.els[e].slot.status = "active" /\ GenerationCompatible(a.active.els[e], a.pending.els[e])
       /\ DependencySignature(a.active.deps, e) = DependencySignature(a.pending.deps, e))
      => n.active.els[e].slot.active = a.active.els[e].slot.active

Allowed(a, n) ==
  /\ AdoptsCurrent(a, n)
  /\ KeepsLocks(a.active, n.active, {}) /\ KeepsLocks(a.pending, n.pending, Exempt(a))
  /\ KeepsAssets(a, n)

Follows(a, n, id) ==
  /\ Sound(n) /\ Allowed(a, n)
  /\ n.version = a.version + 1 /\ n.applied = a.applied \cup ({id} \ {None})

-----------------------------------------------------------------------------
(* The inductive invariant *)

SlowInv ==
  slow # None =>
    /\ slow.before \in Nat /\ slow.before <= agg.version
    /\ slow.before = agg.version => Follows(agg, slow.next, slow.id)

(* What was read of the elements in todo is still true of the revision. *)
Recent(active, todo, seen) ==
  \A e \in todo :
    /\ HasElement(active, e) /\ ~active.els[e].prompt.locked
    /\ seen[e] = <<active.els[e].rev, active.els[e].prompt.rev>>

FillInv ==
  fill # None =>
    /\ fill \in [turn : {fill.turn}, todo : {fill.todo}, base : {fill.base}, seen : {fill.seen}]
    /\ fill.base # None =>
         /\ fill.base \in Nat /\ fill.base <= agg.version
         /\ fill.base = agg.version => Recent(agg.active, fill.todo, fill.seen)

StoryboardInv ==
  /\ Sound(agg) /\ events = agg.applied /\ None \notin agg.applied /\ confirmed \in Nat
  /\ SlowInv /\ FillInv

-----------------------------------------------------------------------------
(* Elements and revisions *)

(* The parts of an element *)
LEMMA ElementParts ==
  ASSUME NEW x \in ElementRows
  PROVE  /\ x.key \in Keys /\ x.required \in BOOLEAN
         /\ x.rev \in Nat /\ x.title \in STRING /\ x.content \in STRING /\ x.meta \in STRING
         /\ x.prompt \in Prompts /\ x.prompt.text \in STRING /\ x.prompt.rev \in Nat
         /\ x.prompt.locked \in BOOLEAN
         /\ x.slot \in Slots /\ x.slot.epoch \in Nat /\ x.slot.active \in Ids \cup {None}
         /\ x.slot.cands \subseteq Ids
  BY Zenon DEF ElementRows, Prompts, Slots

(* The parts of a revision *)
LEMMA RevisionParts ==
  ASSUME NEW r, IsRevision(r)
  PROVE  /\ r \in Revisions(DOMAIN r.els)
         /\ DOMAIN r.els \subseteq Elements /\ r # None
         /\ \A e \in DOMAIN r.els : e \in Elements /\ r.els[e] \in ElementRows
  <1>1. PICK D \in SUBSET Elements : r \in Revisions(D)
    BY Zenon DEF IsRevision
  <1>2. DOMAIN r.els = D /\ r.els \in [D -> ElementRows]
    BY Zenon, <1>1 DEF Revisions
  <1> QED BY Zenon, <1>1, <1>2, RowAssumption

(* Succeeds is reflexive and transitive. *)
LEMMA SucceedsSelf ==
  ASSUME NEW x \in ElementRows PROVE Succeeds(x, x)
  BY ElementParts DEF Succeeds, KeepsLock

LEMMA SucceedsOn ==
  ASSUME NEW x \in ElementRows, NEW y \in ElementRows, NEW z \in ElementRows, Succeeds(x, y), Succeeds(y, z)
  PROVE  Succeeds(x, z)
  <1>1. /\ x.rev \in Nat /\ y.rev \in Nat /\ z.rev \in Nat
        /\ x.prompt.rev \in Nat /\ y.prompt.rev \in Nat /\ z.prompt.rev \in Nat
    BY Zenon, ElementParts
  <1> QED BY <1>1 DEF Succeeds, KeepsLock

(* The same element, stale or not *)
Alike(x, y) ==
  /\ y \in ElementRows /\ y.key = x.key /\ y.rev = x.rev
  /\ y.prompt.rev = x.prompt.rev /\ y.prompt.locked = x.prompt.locked /\ y.prompt.text = x.prompt.text
  /\ y.slot.active = x.slot.active /\ y.slot.cands = x.slot.cands

LEMMA StalePrompt ==
  ASSUME NEW q \in Prompts
  PROVE  LET p == [q EXCEPT !.status = "stale"]
         IN  p \in Prompts /\ p.text = q.text /\ p.rev = q.rev /\ p.locked = q.locked
  BY Zenon DEF Prompts

LEMMA StaleSlot ==
  ASSUME NEW q \in Slots
  PROVE  LET s == [q EXCEPT !.status = "stale"]
         IN  s \in Slots /\ s.epoch = q.epoch /\ s.active = q.active /\ s.cands = q.cands
  BY Zenon DEF Slots

LEMMA WithPrompt ==
  ASSUME NEW x \in ElementRows, NEW p \in Prompts
  PROVE  LET y == [x EXCEPT !.prompt = p]
         IN  y \in ElementRows /\ y.key = x.key /\ y.rev = x.rev /\ y.prompt = p /\ y.slot = x.slot
  BY Zenon DEF ElementRows

LEMMA WithSlot ==
  ASSUME NEW x \in ElementRows, NEW s \in Slots
  PROVE  LET y == [x EXCEPT !.slot = s]
         IN  y \in ElementRows /\ y.key = x.key /\ y.rev = x.rev /\ y.prompt = x.prompt /\ y.slot = s
  BY Zenon DEF ElementRows

LEMMA MarkedAlike ==
  ASSUME NEW x \in ElementRows
  PROVE  Alike(x, MarkElementStale(x)) /\ Alike(x, MarkElementAssetSlotsStale(x)) /\ Alike(x, x)
  <1> DEFINE p == [x.prompt EXCEPT !.status = "stale"]
             s == [x.slot EXCEPT !.status = "stale"]
             y == [x EXCEPT !.prompt = p]
  <1>1. p \in Prompts /\ p.rev = x.prompt.rev /\ p.locked = x.prompt.locked /\ p.text = x.prompt.text
    BY Zenon, ElementParts, StalePrompt
  <1>2. s \in Slots /\ s.active = x.slot.active /\ s.cands = x.slot.cands
    BY Zenon, ElementParts, StaleSlot
  <1>3. MarkElementStale(x) = MarkElementAssetSlotsStale(y)
    BY Zenon DEF MarkElementStale
  <1>4. \A z \in ElementRows : z.slot = x.slot =>
          MarkElementAssetSlotsStale(z) \in {z, [z EXCEPT !.slot = s]}
    BY Zenon DEF MarkElementAssetSlotsStale
  <1> HIDE DEF p, s
  <1>5. y \in ElementRows /\ y.key = x.key /\ y.rev = x.rev /\ y.prompt = p /\ y.slot = x.slot
    BY Zenon, <1>1, WithPrompt
  <1> HIDE DEF y
  <1>6. ASSUME NEW z \in ElementRows, z.slot = x.slot, z.key = x.key, z.rev = x.rev,
               z.prompt.rev = x.prompt.rev, z.prompt.locked = x.prompt.locked, z.prompt.text = x.prompt.text
        PROVE  Alike(x, MarkElementAssetSlotsStale(z)) /\ Alike(x, z)
    <2>1. [z EXCEPT !.slot = s] \in ElementRows /\ [z EXCEPT !.slot = s].slot = s
          /\ [z EXCEPT !.slot = s].key = z.key /\ [z EXCEPT !.slot = s].rev = z.rev /\ [z EXCEPT !.slot = s].prompt = z.prompt
      BY Zenon, <1>2, WithSlot
    <2> QED BY Zenon, <1>2, <1>4, <1>6, <2>1 DEF Alike
  <1> QED BY Zenon, <1>1, <1>3, <1>5, <1>6

-----------------------------------------------------------------------------
(* Aggregates *)

(* Fields of an aggregate are replaced. *)
LEMMA SetActive ==
  ASSUME NEW a, IsShaped(a), NEW x
  PROVE  LET m == [a EXCEPT !.active = x]
         IN  /\ IsShaped(m) /\ m.active = x /\ m.pending = a.pending /\ m.bindings = a.bindings
             /\ m.version = a.version /\ m.applied = a.applied
  BY Zenon DEF IsShaped

LEMMA SetPending ==
  ASSUME NEW a, IsShaped(a), NEW x
  PROVE  LET m == [a EXCEPT !.pending = x]
         IN  /\ IsShaped(m) /\ m.active = a.active /\ m.pending = x /\ m.bindings = a.bindings
             /\ m.version = a.version /\ m.applied = a.applied
  BY Zenon DEF IsShaped

LEMMA SetBindings ==
  ASSUME NEW a, IsShaped(a), NEW x
  PROVE  LET m == [a EXCEPT !.bindings = x]
         IN  /\ IsShaped(m) /\ m.active = a.active /\ m.pending = a.pending /\ m.bindings = x
             /\ m.version = a.version /\ m.applied = a.applied
  BY Zenon DEF IsShaped

(* touchCommand: what it leaves alone *)
LEMMA Touched ==
  ASSUME NEW a, NEW n, NEW id, Sound(n), Allowed(a, n), n.version = a.version, n.applied = a.applied
  PROVE  Follows(a, TouchCommand(n, id), id)
  <1> DEFINE m == TouchCommand(n, id)
  <1>1. IsShaped(n)
    BY Zenon DEF Sound, IsAggregate
  <1>2. /\ IsShaped(m) /\ m.active = n.active /\ m.pending = n.pending /\ m.bindings = n.bindings
        /\ m.version = n.version + 1 /\ m.applied = n.applied \cup ({id} \ {None})
    <2> DEFINE v == n.version + 1
               x == n.applied \cup ({id} \ {None})
    <2>1. m = [n EXCEPT !.version = v, !.applied = x]
      BY Zenon DEF TouchCommand
    <2>2. v \in Nat
      BY <1>1 DEF IsShaped
    <2> HIDE DEF m, v, x
    <2>3. IsShaped(m) /\ m.active = n.active /\ m.pending = n.pending /\ m.bindings = n.bindings
          /\ m.version = v /\ m.applied = x
      BY Zenon, <1>1, <2>1, <2>2 DEF IsShaped
    <2> QED BY Zenon, <2>3 DEF v, x
  <1> HIDE DEF m
  <1>3. Sound(m)
    BY Zenon, <1>2 DEF Sound, IsAggregate
  <1>4. Allowed(a, m)
    BY Zenon, <1>2 DEF Allowed, AdoptsCurrent, KeepsAssets
  <1> QED BY Zenon, <1>2, <1>3, <1>4 DEF Follows, m

(* A revision keeps its own locks. *)
LEMMA LocksOfSelf ==
  ASSUME NEW r, r # None => IsRevision(r) /\ UniqueKeys(r), NEW F
  PROVE  KeepsLocks(r, r, F)
  <1> SUFFICES ASSUME r # None, NEW x \in DOMAIN r.els, NEW y \in DOMAIN r.els, r.els[x].key = r.els[y].key
               PROVE  KeepsLock(r.els[x].prompt, r.els[y].prompt)
    BY Zenon DEF KeepsLocks
  <1>1. x = y /\ r.els[x] \in ElementRows
    BY Zenon, RevisionParts DEF UniqueKeys
  <1> QED BY Zenon, <1>1, SucceedsSelf DEF Succeeds

(* mutableReviewRevision: an edit keeps the elements and what is in their  *)
(* slots, and the elements outside F keep their locked prompts.            *)
Edited(r, s, F) ==
  /\ IsRevision(s) /\ DOMAIN s.els = DOMAIN r.els /\ s.preserve = r.preserve
  /\ \A e \in DOMAIN r.els :
       /\ s.els[e].key = r.els[e].key /\ (e \in F \/ Succeeds(r.els[e], s.els[e]))
       /\ s.els[e].slot.active = r.els[e].slot.active /\ s.els[e].slot.cands = r.els[e].slot.cands

LEMMA EditIsSound ==
  ASSUME NEW a, Sound(a), ReviewRevision(a) # None, NEW s, Edited(ReviewRevision(a), s, Exempt(a))
  PROVE  LET m == WithReview(a, s)
         IN  /\ Sound(m) /\ Allowed(a, m) /\ m.version = a.version /\ m.applied = a.applied
             /\ m.pending = None <=> a.pending = None
  <1> DEFINE m == WithReview(a, s)
             r == ReviewRevision(a)
  <1>1. IsAggregate(a) /\ IsShaped(a) /\ UniqueIds(a.bindings)
    BY Zenon DEF Sound, IsAggregate
  <1>2. IsRevision(s) /\ s # None
    BY Zenon, RevisionParts DEF Edited
  <1>3. /\ IsShaped(m) /\ m.bindings = a.bindings /\ m.version = a.version /\ m.applied = a.applied
        /\ a.pending # None => m.pending = s /\ m.active = a.active
        /\ a.pending = None => m.pending = None /\ m.active = s
    <2>1. CASE a.pending # None
      BY Zenon, <1>1, <2>1, SetPending DEF WithReview
    <2>2. CASE a.pending = None
      BY Zenon, <1>1, <2>2, SetActive DEF WithReview
    <2> QED BY Zenon, <2>1, <2>2
  <1>4. (a.pending # None => r = a.pending) /\ (a.pending = None => r = a.active)
    BY Zenon DEF ReviewRevision
  <1>5. IsRevision(r)
    BY <1>1, <1>4 DEF IsAggregate
  <1>6. /\ \A e \in DOMAIN r.els : e \in Elements /\ r.els[e] \in ElementRows
        /\ \A e \in DOMAIN s.els : s.els[e] \in ElementRows
    BY Zenon, <1>2, <1>5, RevisionParts
  <1> HIDE DEF m, r
  <1>7. /\ DOMAIN s.els = DOMAIN r.els /\ s.preserve = r.preserve
        /\ \A e \in DOMAIN r.els :
             /\ s.els[e].key = r.els[e].key /\ (e \in Exempt(a) \/ Succeeds(r.els[e], s.els[e]))
             /\ s.els[e].slot.active = r.els[e].slot.active /\ s.els[e].slot.cands = r.els[e].slot.cands
    BY Zenon DEF Edited, r
  <1>u. UniqueKeys(r) /\ UniqueKeys(s)
    <2>1. UniqueKeys(r)
      BY <1>4 DEF Sound, r
    <2> QED BY Zenon, <1>7, <2>1 DEF UniqueKeys
  <1>8. KeepsLocks(r, s, Exempt(a))
    <2>1. \A x \in DOMAIN r.els, y \in DOMAIN s.els : r.els[x].key = s.els[y].key => x = y
      BY Zenon, <1>7, <1>u DEF UniqueKeys
    <2> QED BY Zenon, <1>7, <2>1 DEF KeepsLocks, Succeeds
  <1>9. CASE a.pending # None
    <2>1. Reviewed(a.active, s)
      <3>1. SUFFICES ASSUME NEW e \in DOMAIN s.els
                     PROVE  /\ s.els[e].slot.cands = {}
                            /\ s.els[e].slot.active # None => s.preserve /\ HasElement(a.active, e)
                            /\ \A d : HasElement(a.active, d) /\ a.active.els[d].key = s.els[e].key =>
                                 d = e /\ Succeeds(a.active.els[d], s.els[e])
        BY Zenon DEF Reviewed
      <3>2. /\ r.els[e].slot.cands = {}
            /\ r.els[e].slot.active # None => r.preserve /\ HasElement(a.active, e)
            /\ \A d : HasElement(a.active, d) /\ a.active.els[d].key = r.els[e].key =>
                 d = e /\ Succeeds(a.active.els[d], r.els[e])
        BY Zenon, <1>4, <1>7, <1>9 DEF Sound, Reviewed
      <3>3. ASSUME NEW d, HasElement(a.active, d), a.active.els[d].key = s.els[e].key
            PROVE  d = e /\ Succeeds(a.active.els[d], s.els[e])
        <4>1. a.active.els[d] \in ElementRows
          BY Zenon, <1>1, <3>3, RevisionParts DEF IsAggregate, HasElement
        <4>2. d = e /\ Succeeds(a.active.els[d], r.els[e]) /\ e \in DOMAIN r.els
          BY Zenon, <1>7, <3>2, <3>3
        <4>3. e \notin Exempt(a)
          BY Zenon, <1>4, <1>7, <1>9, <3>3, <4>2 DEF Exempt, Reassigned
        <4>4. Succeeds(r.els[e], s.els[e])
          BY Zenon, <1>7, <4>2, <4>3
        <4> QED BY Zenon, <1>6, <4>1, <4>2, <4>4, SucceedsOn
      <3> QED BY Zenon, <1>7, <3>2, <3>3
    <2>2. Sound(m)
      BY Zenon, <1>1, <1>2, <1>3, <1>9, <1>u, <2>1 DEF Sound, IsAggregate
    <2>3. Allowed(a, m)
      <3>1. KeepsLocks(a.active, a.active, {})
        BY Zenon, LocksOfSelf DEF Sound, IsAggregate
      <3> QED BY Zenon, <1>2, <1>3, <1>4, <1>8, <1>9, <3>1 DEF Allowed, AdoptsCurrent, KeepsAssets
    <2> QED BY Zenon, <1>2, <1>3, <1>9, <2>2, <2>3 DEF m
  <1>10. CASE a.pending = None
    <2>1. \A i \in DOMAIN a.bindings : InSlot(s, a.bindings[i])
      BY Zenon, <1>2, <1>4, <1>7, <1>10 DEF Sound, InSlot
    <2>2. \A e \in DOMAIN s.els : Backed(a.bindings, e, s.els[e].slot)
      BY <1>4, <1>7, <1>10 DEF Sound, Backed, r, ReviewRevision
    <2>3. Sound(m)
      BY Zenon, <1>1, <1>2, <1>3, <1>10, <1>u, <2>1, <2>2 DEF Sound, IsAggregate
    <2>4. Allowed(a, m)
      <3>1. Exempt(a) = {}
        BY Zenon, <1>10 DEF Exempt, Reassigned, HasElement
      <3> QED BY Zenon, <1>3, <1>4, <1>8, <1>10, <3>1 DEF Allowed, AdoptsCurrent, KeepsAssets, KeepsLocks
    <2> QED BY Zenon, <1>3, <1>10, <2>3, <2>4 DEF m
  <1> QED BY Zenon, <1>9, <1>10 DEF m

-----------------------------------------------------------------------------
(* Superseding *)

(* Bindings are replaced one by one. *)
LEMMA BindingsReplaced ==
  ASSUME NEW a, IsAggregate(a), NEW bs, DOMAIN bs = DOMAIN a.bindings, bs = [i \in DOMAIN bs |-> bs[i]]
  PROVE  bs \in Seq({bs[i] : i \in DOMAIN bs})
  <1>1. DOMAIN a.bindings = 1 .. Len(a.bindings) /\ Len(a.bindings) \in Nat
    BY DEF IsAggregate
  <1> QED BY <1>1

LEMMA Retired ==
  ASSUME NEW b, IsBinding(b), NEW state \in {"superseded", "rejected"}
  PROVE  LET r == Retire(b, state) IN IsBinding(r) /\ r.id = b.id /\ r.target = b.target /\ r.state = state
  BY Zenon DEF IsBinding, Retire

LEMMA Detached ==
  ASSUME NEW slot \in Slots, NEW B
  PROVE  LET d == DetachCandidates(slot, B)
         IN  d \in Slots /\ d.epoch = slot.epoch /\ d.active = slot.active /\ d.cands = slot.cands \ B
  BY Zenon DEF Slots, DetachCandidates

(* The elements of a revision are replaced one by one. *)
LEMMA ElementsReplaced ==
  ASSUME NEW r, IsRevision(r), NEW els, DOMAIN els = DOMAIN r.els, els = [e \in DOMAIN r.els |-> els[e]],
         \A e \in DOMAIN r.els : els[e] \in ElementRows
  PROVE  LET s == [r EXCEPT !.els = els]
         IN  /\ IsRevision(s) /\ s # None /\ s.els = els
             /\ s.spec = r.spec /\ s.deps = r.deps /\ s.preserve = r.preserve
  <1> DEFINE s == [r EXCEPT !.els = els]
             D == DOMAIN r.els
  <1>1. /\ D \in SUBSET Elements
        /\ r \in Revisions(D)
    BY Zenon, RevisionParts
  <1>2. els \in [D -> ElementRows]
    BY Zenon
  <1> HIDE DEF D
  <1>3. /\ s \in Revisions(D)
        /\ s.els = els /\ s.spec = r.spec /\ s.deps = r.deps /\ s.preserve = r.preserve
    BY Zenon, <1>1, <1>2 DEF Revisions
  <1> HIDE DEF s
  <1>4. IsRevision(s)
    BY Zenon, <1>1, <1>3 DEF IsRevision
  <1> QED BY Zenon, <1>3, <1>4, RowAssumption DEF s

(* What superseding candidates leaves alone *)
Trimmed(m, n) ==
  /\ n.version = m.version /\ n.applied = m.applied /\ n.pending = m.pending
  /\ DOMAIN n.bindings = DOMAIN m.bindings
  /\ \A i \in DOMAIN m.bindings :
       /\ n.bindings[i].id = m.bindings[i].id
       /\ n.bindings[i].state = "active" => m.bindings[i].state = "active"
  /\ n.active = None <=> m.active = None
  /\ n.active # None =>
       /\ DOMAIN n.active.els = DOMAIN m.active.els
       /\ \A e \in DOMAIN m.active.els :
            /\ n.active.els[e].key = m.active.els[e].key
            /\ n.active.els[e].rev = m.active.els[e].rev /\ n.active.els[e].prompt = m.active.els[e].prompt

LEMMA SupersedeTrims ==
  ASSUME NEW m, Sound(m), m.active # None, NEW S, S \subseteq Candidates(m)
  PROVE  Sound(Supersede(m, S)) /\ Trimmed(m, Supersede(m, S))
  <1> DEFINE r == m.active
             Of(e) == {m.bindings[i].id : i \in {j \in S : m.bindings[j].target = e}}
             bs == [i \in DOMAIN m.bindings |-> IF i \in S THEN Retire(m.bindings[i], "superseded") ELSE m.bindings[i]]
             els == [e \in DOMAIN r.els |->
                       IF Of(e) = {} THEN r.els[e] ELSE [r.els[e] EXCEPT !.slot = DetachCandidates(@, Of(e))]]
             s == [r EXCEPT !.els = els]
             n == Supersede(m, S)
  <1>1. IsAggregate(m) /\ IsShaped(m) /\ UniqueIds(m.bindings) /\ IsRevision(r)
    BY Zenon DEF Sound, IsAggregate
  <1>2. n = [m EXCEPT !.bindings = bs, !.active = s]
    BY Zenon DEF Supersede
  <1>3. /\ \A e \in DOMAIN r.els : r.els[e] \in ElementRows /\ r.els[e].slot \in Slots
        /\ \A i \in DOMAIN m.bindings : IsBinding(m.bindings[i])
    BY Zenon, <1>1, RevisionParts, ElementParts DEF IsAggregate
  <1>4. \A e \in DOMAIN r.els :
          /\ els[e] \in ElementRows /\ els[e].key = r.els[e].key
          /\ els[e].rev = r.els[e].rev /\ els[e].prompt = r.els[e].prompt
          /\ els[e].slot.active = r.els[e].slot.active /\ els[e].slot.cands = r.els[e].slot.cands \ Of(e)
    <2>1. SUFFICES ASSUME NEW e \in DOMAIN r.els
                   PROVE  /\ els[e] \in ElementRows /\ els[e].key = r.els[e].key
                          /\ els[e].rev = r.els[e].rev /\ els[e].prompt = r.els[e].prompt
                          /\ els[e].slot.active = r.els[e].slot.active /\ els[e].slot.cands = r.els[e].slot.cands \ Of(e)
      BY Zenon
    <2> DEFINE x == r.els[e]
               d == DetachCandidates(x.slot, Of(e))
    <2>2. d \in Slots /\ d.active = x.slot.active /\ d.cands = x.slot.cands \ Of(e)
      BY Zenon, <1>3, Detached
    <2>3. els[e] = IF Of(e) = {} THEN x ELSE [x EXCEPT !.slot = d]
      BY Zenon
    <2>4. x \in ElementRows
      BY Zenon, <1>3
    <2> HIDE DEF els, d, x, Of
    <2>5. CASE Of(e) = {}
      BY Zenon, <2>2, <2>3, <2>4, <2>5 DEF x
    <2>6. CASE Of(e) # {}
      BY <2>2, <2>3, <2>4, <2>6, WithSlot DEF x
    <2> QED BY Zenon, <2>5, <2>6
  <1>5. DOMAIN els = DOMAIN r.els /\ els = [e \in DOMAIN r.els |-> els[e]]
    BY Zenon
  <1>6. /\ DOMAIN bs = DOMAIN m.bindings /\ bs = [i \in DOMAIN bs |-> bs[i]]
        /\ \A i \in S : bs[i] = Retire(m.bindings[i], "superseded")
        /\ \A i \in DOMAIN m.bindings \ S : bs[i] = m.bindings[i]
    BY Zenon DEF Candidates
  <1> HIDE DEF els, bs, s, n
  <1>7. IsRevision(s) /\ s # None /\ s.els = els /\ s.preserve = r.preserve
    <2>1. \A e \in DOMAIN r.els : els[e] \in ElementRows
      BY Zenon, <1>4
    <2>2. DOMAIN els = DOMAIN r.els /\ els = [e \in DOMAIN r.els |-> els[e]] /\ IsRevision(r)
      BY Zenon, <1>1, <1>5
    <2> HIDE DEF r
    <2> QED BY <2>1, <2>2, ElementsReplaced DEF s
  <1>8. /\ IsShaped(n) /\ n.active = s /\ n.pending = m.pending /\ n.bindings = bs
        /\ n.version = m.version /\ n.applied = m.applied
    BY Zenon, <1>1, <1>2 DEF IsShaped
  <1>9. \A i \in DOMAIN m.bindings :
          /\ IsBinding(bs[i]) /\ bs[i].id = m.bindings[i].id /\ bs[i].target = m.bindings[i].target
          /\ i \in S => bs[i].state = "superseded"
          /\ i \notin S => bs[i] = m.bindings[i]
    BY <1>3, <1>6, Retired
  <1>10. bs \in Seq({bs[i] : i \in DOMAIN bs})
    BY <1>1, <1>6, BindingsReplaced
  <1>11. IsAggregate(n) /\ UniqueIds(n.bindings)
    BY <1>1, <1>6, <1>7, <1>8, <1>9, <1>10 DEF IsAggregate, UniqueIds
  <1>12. ASSUME NEW i \in DOMAIN m.bindings PROVE InSlot(s, bs[i])
    <2>1. CASE i \in S
      BY ZenonT(60), <1>9, <2>1 DEF InSlot
    <2>2. CASE i \notin S
      <3>1. InSlot(r, m.bindings[i]) /\ bs[i] = m.bindings[i]
        BY Zenon, <1>9, <2>2 DEF Sound
      <3>2. m.bindings[i].id \notin Of(m.bindings[i].target)
        BY <1>1, <2>2 DEF UniqueIds, Candidates
      <3> HIDE DEF Of
      <3> QED BY Zenon, <1>4, <1>5, <1>7, <3>1, <3>2 DEF InSlot
    <2> QED BY Zenon, <2>1, <2>2
  <1>13. ASSUME NEW e \in DOMAIN s.els PROVE Backed(bs, e, s.els[e].slot)
    <2>1. Backed(m.bindings, e, r.els[e].slot) /\ e \in DOMAIN r.els
      BY Zenon, <1>5, <1>7 DEF Sound
    <2>2. ASSUME NEW x \in s.els[e].slot.cands
          PROVE  \E i \in DOMAIN bs : bs[i].id = x /\ bs[i].target = e /\ bs[i].state = "candidate"
      <3>1. x \in r.els[e].slot.cands /\ x \notin Of(e)
        BY Zenon, <1>4, <1>7, <2>1
      <3>2. PICK i \in DOMAIN m.bindings :
              m.bindings[i].id = x /\ m.bindings[i].target = e /\ m.bindings[i].state = "candidate"
        BY Zenon, <2>1, <3>1 DEF Backed
      <3>3. i \notin S
        BY Zenon, <3>1, <3>2
      <3> QED BY Zenon, <1>6, <1>9, <3>2, <3>3
    <2>3. ASSUME s.els[e].slot.active # None
          PROVE  \E i \in DOMAIN bs :
                   bs[i].id = s.els[e].slot.active /\ bs[i].target = e /\ bs[i].state = "active"
      <3>1. s.els[e].slot.active = r.els[e].slot.active
        BY Zenon, <1>4, <1>7, <2>1
      <3>2. PICK i \in DOMAIN m.bindings :
              m.bindings[i].id = r.els[e].slot.active /\ m.bindings[i].target = e /\ m.bindings[i].state = "active"
        BY Zenon, <2>1, <2>3, <3>1 DEF Backed
      <3>3. i \notin S
        BY Zenon, <3>2 DEF Candidates
      <3> QED BY Zenon, <1>6, <1>9, <3>1, <3>2, <3>3
    <2> QED BY Zenon, <2>2, <2>3 DEF Backed
  <1>14. ASSUME m.pending # None PROVE Reviewed(s, m.pending)
    <2>1. Reviewed(r, m.pending)
      BY Zenon, <1>14 DEF Sound
    <2>2. \A e : HasElement(s, e) <=> HasElement(r, e)
      BY Zenon, <1>5, <1>7 DEF HasElement
    <2>3. \A e : HasElement(r, e) => s.els[e].key = r.els[e].key
      BY Zenon, <1>4, <1>7 DEF HasElement
    <2>4. \A e, y : HasElement(r, e) /\ Succeeds(r.els[e], y) => Succeeds(s.els[e], y)
      BY Zenon, <1>4, <1>7 DEF Succeeds, HasElement
    <2> QED BY Zenon, <2>1, <2>2, <2>3, <2>4 DEF Reviewed
  <1>u. UniqueKeys(s)
    <2>1. UniqueKeys(r)
      BY <1>1 DEF Sound
    <2>2. DOMAIN s.els = DOMAIN r.els /\ \A e \in DOMAIN r.els : s.els[e].key = r.els[e].key
      BY Zenon, <1>4, <1>5, <1>7
    <2> QED BY Zenon, <2>1, <2>2 DEF UniqueKeys
  <1>15. Sound(n)
    BY Zenon, <1>6, <1>7, <1>8, <1>11, <1>12, <1>13, <1>14, <1>u DEF Sound
  <1>16. Trimmed(m, n)
    BY Zenon, <1>4, <1>5, <1>6, <1>7, <1>8, <1>9 DEF Trimmed, Candidates
  <1> QED BY Zenon, <1>15, <1>16 DEF n

(* supersedeInvalidCandidates, whatever the dependencies are *)
LEMMA InvalidIs ==
  ASSUME NEW m, Sound(m)
  PROVE  LET n == SupersedeInvalidCandidates(m) IN Sound(n) /\ Trimmed(m, n)
  <1> DEFINE n == SupersedeInvalidCandidates(m)
  <1>1. CASE m.active = None
    <2>1. n = m
      BY Zenon, <1>1 DEF SupersedeInvalidCandidates
    <2> QED BY Zenon, <1>1, <2>1 DEF Trimmed
  <1>2. CASE m.active # None
    <2>1. n = Supersede(m, InvalidCandidates(m))
      BY Zenon, <1>2 DEF SupersedeInvalidCandidates
    <2>2. InvalidCandidates(m) \subseteq Candidates(m)
      BY Zenon DEF InvalidCandidates
    <2> QED BY Zenon, <1>2, <2>1, <2>2, SupersedeTrims
  <1> QED BY Zenon, <1>1, <1>2

LEMMA InvalidTrimmed ==
  ASSUME NEW a, NEW m, Sound(m), Allowed(a, m), m.version = a.version, m.applied = a.applied,
         a.pending # None => m.pending # None, NEW id
  PROVE  Follows(a, TouchCommand(SupersedeInvalidCandidates(m), id), id)
  <1> DEFINE n == SupersedeInvalidCandidates(m)
  <1>1. Sound(n) /\ Trimmed(m, n)
    BY Zenon, InvalidIs
  <1> HIDE DEF n
  <1>2. AdoptsCurrent(a, n)
    BY Zenon, <1>1 DEF Trimmed, Allowed, AdoptsCurrent
  <1>3. KeepsLocks(a.active, n.active, {})
    BY Zenon, <1>1 DEF Trimmed, Allowed, KeepsLocks
  <1>4. KeepsLocks(a.pending, n.pending, Exempt(a)) /\ KeepsAssets(a, n)
    BY Zenon, <1>1 DEF Trimmed, Allowed, KeepsAssets
  <1>5. Allowed(a, n) /\ n.version = a.version /\ n.applied = a.applied
    BY Zenon, <1>1, <1>2, <1>3, <1>4 DEF Allowed, Trimmed
  <1> QED BY Zenon, <1>1, <1>5, Touched DEF n

-----------------------------------------------------------------------------
(* Edits of the revision under review *)

(* An element is replaced. *)
LEMMA Put ==
  ASSUME NEW r, IsRevision(r), NEW e \in DOMAIN r.els, NEW x \in ElementRows
  PROVE  LET s == PutElement(r, e, x)
         IN  /\ IsRevision(s) /\ s # None /\ DOMAIN s.els = DOMAIN r.els /\ s.preserve = r.preserve
             /\ s.spec = r.spec /\ s.deps = r.deps
             /\ s.els[e] = x /\ \A f \in DOMAIN r.els : f # e => s.els[f] = r.els[f]
  <1> DEFINE els == [r.els EXCEPT ![e] = x]
             s == [r EXCEPT !.els = els]
  <1>1. \A f \in DOMAIN r.els : r.els[f] \in ElementRows
    BY Zenon, RevisionParts
  <1>2. /\ DOMAIN els = DOMAIN r.els /\ els = [f \in DOMAIN r.els |-> els[f]]
        /\ els[e] = x /\ \A f \in DOMAIN r.els : f # e => els[f] = r.els[f]
    BY Zenon
  <1>3. PutElement(r, e, x) = s
    BY Zenon DEF PutElement
  <1> HIDE DEF els
  <1>4. \A f \in DOMAIN r.els : els[f] \in ElementRows
    BY Zenon, <1>1, <1>2
  <1>5. /\ IsRevision(s) /\ s # None /\ s.els = els
        /\ s.spec = r.spec /\ s.deps = r.deps /\ s.preserve = r.preserve
    BY Zenon, <1>2, <1>4, ElementsReplaced
  <1> HIDE DEF s
  <1> QED BY Zenon, <1>2, <1>3, <1>5

(* The slot of an element is replaced. *)
LEMMA PutSlotIs ==
  ASSUME NEW r, IsRevision(r), NEW e \in DOMAIN r.els, NEW slot \in Slots
  PROVE  LET s == PutSlot(r, e, slot)
         IN  /\ IsRevision(s) /\ s # None /\ DOMAIN s.els = DOMAIN r.els /\ s.preserve = r.preserve
             /\ s.els[e].slot = slot /\ s.els[e].key = r.els[e].key
             /\ s.els[e].rev = r.els[e].rev /\ s.els[e].prompt = r.els[e].prompt
             /\ \A f \in DOMAIN r.els : f # e => s.els[f] = r.els[f]
  <1> DEFINE x == [r.els[e] EXCEPT !.slot = slot]
  <1>1. r.els[e] \in ElementRows
    BY Zenon, RevisionParts
  <1>2. /\ x \in ElementRows /\ x.slot = slot /\ x.key = r.els[e].key
        /\ x.rev = r.els[e].rev /\ x.prompt = r.els[e].prompt
    BY Zenon, <1>1, WithSlot
  <1>3. PutSlot(r, e, slot) = PutElement(r, e, x)
    BY Zenon DEF PutSlot
  <1> HIDE DEF x
  <1> QED BY <1>2, <1>3, Put

(* markDependencyClosure, whatever the closure is *)
LEMMA ClosureMarked ==
  ASSUME NEW r, IsRevision(r), NEW e
  PROVE  LET s == MarkDependencyClosure(r, e)
         IN  /\ IsRevision(s) /\ s # None /\ DOMAIN s.els = DOMAIN r.els /\ s.preserve = r.preserve
             /\ \A f \in DOMAIN r.els : Alike(r.els[f], s.els[f])
  <1> DEFINE els == [x \in DOMAIN r.els |->
                       IF x \in DependencyClosure(r, e) THEN MarkElementStale(r.els[x]) ELSE r.els[x]]
             s == [r EXCEPT !.els = els]
  <1>1. \A f \in DOMAIN r.els : r.els[f] \in ElementRows
    BY Zenon, RevisionParts
  <1>2. DOMAIN els = DOMAIN r.els /\ els = [f \in DOMAIN r.els |-> els[f]]
    BY Zenon
  <1>3. MarkDependencyClosure(r, e) = s
    BY Zenon DEF MarkDependencyClosure
  <1>4. \A f \in DOMAIN r.els : els[f] \in {r.els[f], MarkElementStale(r.els[f])}
    BY Zenon
  <1> HIDE DEF els
  <1>5. \A f \in DOMAIN r.els : Alike(r.els[f], els[f])
    BY Zenon, <1>1, <1>4, MarkedAlike
  <1>6. \A f \in DOMAIN r.els : els[f] \in ElementRows
    BY Zenon, <1>5 DEF Alike
  <1>7. IsRevision(s) /\ s # None /\ s.els = els /\ s.preserve = r.preserve
    BY <1>2, <1>6, ElementsReplaced
  <1> HIDE DEF s
  <1> QED BY Zenon, <1>2, <1>3, <1>5, <1>7

LEMMA AlikeSucceeds ==
  ASSUME NEW x \in ElementRows, NEW y, Alike(x, y)
  PROVE  Succeeds(x, y) /\ y \in ElementRows /\ y.slot.active = x.slot.active /\ y.slot.cands = x.slot.cands
  BY ElementParts DEF Alike, Succeeds, KeepsLock

(* One element is edited, and its dependents may become stale. *)
LEMMA ElementEdited ==
  ASSUME NEW r, IsRevision(r), NEW e \in DOMAIN r.els, NEW x \in ElementRows, NEW F,
         x.key = r.els[e].key, e \in F \/ Succeeds(r.els[e], x),
         x.slot.active = r.els[e].slot.active, x.slot.cands = r.els[e].slot.cands
  PROVE  Edited(r, PutElement(r, e, x), F) /\ Edited(r, MarkDependencyClosure(PutElement(r, e, x), e), F)
  <1> DEFINE s == PutElement(r, e, x)
             m == MarkDependencyClosure(s, e)
  <1>1. \A f \in DOMAIN r.els : r.els[f] \in ElementRows
    BY Zenon, RevisionParts
  <1>2. /\ IsRevision(s) /\ DOMAIN s.els = DOMAIN r.els /\ s.preserve = r.preserve
        /\ s.els[e] = x /\ \A f \in DOMAIN r.els : f # e => s.els[f] = r.els[f]
    BY Put
  <1> HIDE DEF s
  <1>3. /\ IsRevision(m) /\ DOMAIN m.els = DOMAIN s.els /\ m.preserve = s.preserve
        /\ \A f \in DOMAIN s.els : Alike(s.els[f], m.els[f])
    BY Zenon, <1>2, ClosureMarked
  <1> HIDE DEF m
  <1>4. ASSUME NEW f \in DOMAIN r.els
        PROVE  /\ s.els[f].key = r.els[f].key /\ s.els[f] \in ElementRows
               /\ f \in F \/ Succeeds(r.els[f], s.els[f])
               /\ s.els[f].slot.active = r.els[f].slot.active /\ s.els[f].slot.cands = r.els[f].slot.cands
    <2>1. CASE f = e
      BY Zenon, <1>2, <2>1
    <2>2. CASE f # e
      BY Zenon, <1>1, <1>2, <2>2, SucceedsSelf
    <2> QED BY Zenon, <2>1, <2>2
  <1>5. ASSUME NEW f \in DOMAIN r.els
        PROVE  /\ m.els[f].key = r.els[f].key
               /\ f \in F \/ Succeeds(r.els[f], m.els[f])
               /\ m.els[f].slot.active = r.els[f].slot.active /\ m.els[f].slot.cands = r.els[f].slot.cands
    <2>1. Alike(s.els[f], m.els[f])
      BY Zenon, <1>2, <1>3
    <2>2. /\ m.els[f].key = s.els[f].key /\ Succeeds(s.els[f], m.els[f]) /\ m.els[f] \in ElementRows
          /\ m.els[f].slot.active = s.els[f].slot.active /\ m.els[f].slot.cands = s.els[f].slot.cands
      BY <1>4, <2>1, AlikeSucceeds DEF Alike
    <2> QED BY Zenon, <1>1, <1>4, <2>2, SucceedsOn
  <1>6. Edited(r, s, F)
    BY Zenon, <1>2, <1>4 DEF Edited
  <1>7. Edited(r, m, F)
    BY Zenon, <1>2, <1>3, <1>5 DEF Edited
  <1> QED BY Zenon, <1>6, <1>7 DEF m, s

(* An edit, with the candidates it invalidates, is a command. *)
LEMMA EditFollows ==
  ASSUME NEW a, Sound(a), ReviewRevision(a) # None, NEW s, Edited(ReviewRevision(a), s, Exempt(a)), NEW id
  PROVE  /\ Follows(a, TouchCommand(WithReview(a, s), id), id)
         /\ Follows(a, TouchCommand(SupersedeInvalidCandidates(WithReview(a, s)), id), id)
  <1> DEFINE m == WithReview(a, s)
  <1>1. /\ Sound(m) /\ Allowed(a, m) /\ m.version = a.version /\ m.applied = a.applied
        /\ m.pending = None <=> a.pending = None
    BY Zenon, EditIsSound
  <1> HIDE DEF m
  <1>2. Follows(a, TouchCommand(m, id), id)
    BY Zenon, <1>1, Touched
  <1>3. Follows(a, TouchCommand(SupersedeInvalidCandidates(m), id), id)
    BY Zenon, <1>1, InvalidTrimmed
  <1> QED BY Zenon, <1>2, <1>3 DEF m

(* The revision under review is one. *)
LEMMA ReviewIsRevision ==
  ASSUME NEW a, Sound(a), ReviewRevision(a) # None
  PROVE  IsRevision(ReviewRevision(a))
  BY Zenon DEF Sound, IsAggregate, ReviewRevision

(* mutateElement: a field and the revision number *)
LEMMA Mutated ==
  ASSUME NEW x \in ElementRows, NEW field \in {"title", "content", "meta"}, NEW value \in STRING
  PROVE  LET y == [MutateElement(x, field, value) EXCEPT !.rev = @ + 1]
         IN  y \in ElementRows /\ y.key = x.key /\ y.rev = x.rev + 1 /\ y.prompt = x.prompt /\ y.slot = x.slot
  <1> DEFINE z == MutateElement(x, field, value)
  <1>1. z \in ElementRows /\ z.key = x.key /\ z.rev = x.rev /\ z.prompt = x.prompt /\ z.slot = x.slot
    <2>1. CASE field = "title"
      <3>1. z = [x EXCEPT !.title = value]
        BY Zenon, <2>1 DEF MutateElement
      <3> QED BY Zenon, <3>1 DEF ElementRows
    <2>2. CASE field = "content"
      <3>1. z = [x EXCEPT !.content = value]
        BY Zenon, <2>2 DEF MutateElement
      <3> QED BY Zenon, <3>1 DEF ElementRows
    <2>3. CASE field = "meta"
      <3>1. z = [x EXCEPT !.meta = value]
        BY Zenon, <2>3 DEF MutateElement
      <3> QED BY Zenon, <3>1 DEF ElementRows
    <2> QED BY Zenon, <2>1, <2>2, <2>3
  <1> HIDE DEF z
  <1> DEFINE v == z.rev + 1
  <1>2. v \in Nat
    BY <1>1, ElementParts
  <1>3. [z EXCEPT !.rev = @ + 1] = [z EXCEPT !.rev = v]
    BY Zenon
  <1> HIDE DEF v
  <1>4. LET y == [z EXCEPT !.rev = v]
        IN  y \in ElementRows /\ y.key = z.key /\ y.rev = v /\ y.prompt = z.prompt /\ y.slot = z.slot
    BY Zenon, <1>1, <1>2 DEF ElementRows
  <1> QED BY Zenon, <1>1, <1>3, <1>4 DEF v, z

LEMMA MutationFollows ==
  ASSUME NEW a, Sound(a), NEW e, HasElement(ReviewRevision(a), e), NEW field \in {"title", "content", "meta"},
         NEW value \in STRING
  PROVE  Follows(a, ApplyMutation(a, e, field, value), None)
  <1> DEFINE r == ReviewRevision(a)
             el == [MutateElement(r.els[e], field, value) EXCEPT !.rev = @ + 1]
             st == MarkElementStale(el)
             s == PutElement(r, e, el)
             m == MarkDependencyClosure(PutElement(r, e, st), e)
  <1>1. r # None /\ IsRevision(r) /\ e \in DOMAIN r.els /\ r.els[e] \in ElementRows
    BY Zenon, ReviewIsRevision, RevisionParts DEF HasElement
  <1>2. ApplyMutation(a, e, field, value) \in
          {TouchCommand(WithReview(a, s), None),
           TouchCommand(SupersedeInvalidCandidates(WithReview(a, m)), None)}
    BY Zenon DEF ApplyMutation
  <1>3. /\ el \in ElementRows /\ el.key = r.els[e].key /\ el.rev = r.els[e].rev + 1
        /\ el.prompt = r.els[e].prompt /\ el.slot = r.els[e].slot
    BY <1>1, Mutated
  <1> HIDE DEF r, el
  <1>4. Alike(el, st)
    BY Zenon, <1>3, MarkedAlike
  <1> HIDE DEF st
  <1>5. ASSUME NEW x \in ElementRows, Alike(el, x)
        PROVE  /\ x.key = r.els[e].key /\ Succeeds(r.els[e], x)
               /\ x.slot.active = r.els[e].slot.active /\ x.slot.cands = r.els[e].slot.cands
    BY <1>1, <1>3, <1>5, ElementParts DEF Alike, Succeeds, KeepsLock
  <1>6. Alike(el, el) /\ st \in ElementRows
    BY Zenon, <1>3, <1>4 DEF Alike
  <1>7. Edited(r, s, Exempt(a)) /\ Edited(r, m, Exempt(a))
    BY Zenon, <1>1, <1>3, <1>4, <1>5, <1>6, ElementEdited
  <1> HIDE DEF s, m
  <1>8. /\ Follows(a, TouchCommand(WithReview(a, s), None), None)
        /\ Follows(a, TouchCommand(SupersedeInvalidCandidates(WithReview(a, m)), None), None)
    BY Zenon, <1>1, <1>7, EditFollows DEF r
  <1> QED BY Zenon, <1>2, <1>8

LEMMA ModuleFollows ==
  ASSUME NEW a, Sound(a), ReviewRevision(a) # None
  PROVE  Follows(a, MutateModule(a), None)
  <1> DEFINE r == ReviewRevision(a)
             els == [e \in DOMAIN r.els |-> MarkElementStale(r.els[e])]
             s == [r EXCEPT !.els = els]
  <1>1. IsRevision(r) /\ \A e \in DOMAIN r.els : r.els[e] \in ElementRows
    BY Zenon, ReviewIsRevision, RevisionParts
  <1>2. MutateModule(a) = TouchCommand(SupersedeInvalidCandidates(WithReview(a, s)), None)
    BY Zenon DEF MutateModule
  <1>3. /\ DOMAIN els = DOMAIN r.els /\ els = [e \in DOMAIN r.els |-> els[e]]
        /\ \A e \in DOMAIN r.els : els[e] = MarkElementStale(r.els[e])
    BY Zenon
  <1> HIDE DEF r, els
  <1>4. ASSUME NEW e \in DOMAIN r.els
        PROVE  /\ els[e].key = r.els[e].key /\ Succeeds(r.els[e], els[e]) /\ els[e] \in ElementRows
               /\ els[e].slot.active = r.els[e].slot.active /\ els[e].slot.cands = r.els[e].slot.cands
    <2>1. Alike(r.els[e], els[e])
      BY Zenon, <1>1, <1>3, MarkedAlike
    <2> QED BY Zenon, <1>1, <2>1, AlikeSucceeds DEF Alike
  <1>5. IsRevision(s) /\ s.els = els /\ s.preserve = r.preserve
    BY <1>1, <1>3, <1>4, ElementsReplaced
  <1> HIDE DEF s
  <1>6. Edited(r, s, Exempt(a))
    BY Zenon, <1>3, <1>4, <1>5 DEF Edited
  <1> QED BY Zenon, <1>2, <1>6, EditFollows DEF r

(* updatePrompt never unlocks, but for the elements left out. *)
LEMMA PromptFollows ==
  ASSUME NEW a, Sound(a), NEW e, HasElement(ReviewRevision(a), e), NEW text \in STRING, NEW locked \in BOOLEAN,
         e \in Exempt(a) \/ (ReviewRevision(a).els[e].prompt.locked => locked), NEW id
  PROVE  Follows(a, UpdatePrompt(a, e, text, locked, id), id)
  <1> DEFINE r == ReviewRevision(a)
             old == r.els[e]
             p == [text |-> text, rev |-> old.prompt.rev + 1, locked |-> locked,
                   status |-> IF text = "" THEN "missing" ELSE "ready"]
             w == [old EXCEPT !.prompt = p]
             x == IF w.key \in Named THEN MarkElementAssetSlotsStale(w) ELSE w
             m == MarkDependencyClosure(PutElement(r, e, x), e)
  <1>1. r # None /\ IsRevision(r) /\ e \in DOMAIN r.els /\ old \in ElementRows
    BY Zenon, ReviewIsRevision, RevisionParts DEF HasElement
  <1>2. UpdatePrompt(a, e, text, locked, id) = TouchCommand(SupersedeInvalidCandidates(WithReview(a, m)), id)
    BY Zenon DEF UpdatePrompt
  <1>3. p \in Prompts /\ p.rev = old.prompt.rev + 1 /\ p.locked = locked
    BY <1>1, ElementParts DEF Prompts
  <1>l. e \in Exempt(a) \/ (old.prompt.locked => locked)
    BY Zenon
  <1> HIDE DEF r, old, p
  <1>4. w \in ElementRows /\ w.key = old.key /\ w.rev = old.rev /\ w.prompt = p /\ w.slot = old.slot
    BY Zenon, <1>1, <1>3, WithPrompt
  <1> HIDE DEF w
  <1>5. Alike(w, x)
    BY Zenon, <1>4, MarkedAlike
  <1> HIDE DEF x
  <1>6. /\ x \in ElementRows /\ x.key = old.key /\ (e \in Exempt(a) \/ Succeeds(old, x))
        /\ x.slot.active = old.slot.active /\ x.slot.cands = old.slot.cands
    BY <1>1, <1>3, <1>4, <1>5, <1>l, ElementParts DEF Alike, Succeeds, KeepsLock
  <1>7. Edited(r, m, Exempt(a))
    BY Zenon, <1>1, <1>6, ElementEdited DEF old
  <1> HIDE DEF m
  <1> QED BY Zenon, <1>1, <1>2, <1>7, EditFollows DEF r

(* regenerateAsset: the next generation epoch *)
LEMMA RegenerateFollows ==
  ASSUME NEW a, Sound(a), a.pending = None, NEW e, HasElement(a.active, e), NEW id
  PROVE  Follows(a, RegenerateAsset(a, e, id), id)
  <1> DEFINE r == a.active
             q == r.els[e].slot
             v == q.epoch + 1
             slot == [q EXCEPT !.epoch = v]
             x == [r.els[e] EXCEPT !.slot = slot]
             s == PutElement(r, e, x)
  <1>1. r # None /\ ReviewRevision(a) = r
    BY Zenon DEF HasElement, ReviewRevision
  <1>2. IsRevision(r) /\ e \in DOMAIN r.els /\ r.els[e] \in ElementRows /\ q \in Slots /\ v \in Nat
    BY <1>1, ReviewIsRevision, RevisionParts, ElementParts DEF HasElement
  <1>3. RegenerateAsset(a, e, id) = TouchCommand(SupersedeInvalidCandidates(WithReview(a, s)), id)
    BY Zenon DEF RegenerateAsset, WithNextEpoch, PutSlot, WithReview
  <1> HIDE DEF q, v
  <1>4. slot \in Slots /\ slot.active = q.active /\ slot.cands = q.cands
    BY Zenon, <1>2 DEF Slots
  <1> HIDE DEF slot
  <1>5. /\ x \in ElementRows /\ x.key = r.els[e].key
        /\ x.rev = r.els[e].rev /\ x.prompt = r.els[e].prompt /\ x.slot = slot
    BY Zenon, <1>2, <1>4, WithSlot
  <1> HIDE DEF x
  <1>6. Succeeds(r.els[e], x) /\ x.slot.active = r.els[e].slot.active /\ x.slot.cands = r.els[e].slot.cands
    BY <1>2, <1>4, <1>5, ElementParts DEF Succeeds, KeepsLock, q
  <1>7. Edited(r, s, Exempt(a))
    BY Zenon, <1>2, <1>5, <1>6, ElementEdited
  <1> HIDE DEF s
  <1> QED BY Zenon, <1>1, <1>3, <1>7, EditFollows

-----------------------------------------------------------------------------
(* Bindings *)

(* A binding is found by its id. *)
LEMMA ByID ==
  ASSUME NEW a, UniqueIds(a.bindings), NEW i \in DOMAIN a.bindings
  PROVE  BindingByID(a, a.bindings[i].id) = a.bindings[i] /\ a.bindings[i].id \in BindingIDs(a)
  <1> DEFINE b == a.bindings[i].id
             j == CHOOSE k \in DOMAIN a.bindings : a.bindings[k].id = b
  <1>1. j \in DOMAIN a.bindings /\ a.bindings[j].id = b
    BY Zenon
  <1>2. j = i
    BY Zenon, <1>1 DEF UniqueIds
  <1> QED BY Zenon, <1>2 DEF BindingByID, BindingIDs

LEMMA Activated ==
  ASSUME NEW b, IsBinding(b)
  PROVE  LET r == [b EXCEPT !.state = "active"]
         IN  IsBinding(r) /\ r.id = b.id /\ r.target = b.target /\ r.state = "active"
  BY Zenon DEF IsBinding

(* The state of the bindings with ids in S is set. *)
LEMMA StatesSet ==
  ASSUME NEW bs, \A i \in DOMAIN bs : IsBinding(bs[i]), NEW S, NEW state \in {"superseded", "rejected", "active"}
  PROVE  LET n == SetBindingState(bs, S, state)
         IN  /\ DOMAIN n = DOMAIN bs /\ n = [i \in DOMAIN n |-> n[i]]
             /\ \A i \in DOMAIN bs :
                  /\ IsBinding(n[i]) /\ n[i].id = bs[i].id /\ n[i].target = bs[i].target
                  /\ bs[i].id \notin S => n[i] = bs[i]
                  /\ bs[i].id \in S => n[i].state = state
  <1> DEFINE n == SetBindingState(bs, S, state)
             A(b) == [b EXCEPT !.state = "active"]
  <1>1. /\ DOMAIN n = DOMAIN bs /\ n = [i \in DOMAIN n |-> n[i]]
        /\ \A i \in DOMAIN bs : bs[i].id \notin S => n[i] = bs[i]
        /\ \A i \in DOMAIN bs : bs[i].id \in S =>
             n[i] = IF state = "active" THEN A(bs[i]) ELSE Retire(bs[i], state)
    BY Zenon DEF SetBindingState
  <1>2. ASSUME NEW i \in DOMAIN bs
        PROVE  /\ IsBinding(A(bs[i])) /\ A(bs[i]).id = bs[i].id /\ A(bs[i]).target = bs[i].target
               /\ A(bs[i]).state = "active"
    BY Zenon, Activated
  <1> HIDE DEF n, A
  <1>3. ASSUME NEW i \in DOMAIN bs, bs[i].id \in S
        PROVE  IsBinding(n[i]) /\ n[i].id = bs[i].id /\ n[i].target = bs[i].target /\ n[i].state = state
    <2>1. CASE state = "active"
      BY Zenon, <1>1, <1>2, <1>3, <2>1
    <2>2. CASE state # "active"
      BY <1>1, <1>3, <2>2, Retired
    <2> QED BY Zenon, <2>1, <2>2
  <1> QED BY Zenon, <1>1, <1>3 DEF n

(* Bindings and slots change together, elements and the plan under review   *)
(* stay.                                                                    *)
Relink(a, bs, s) == [a EXCEPT !.bindings = bs, !.active = s]

SamePrompt(p, q) == q.rev = p.rev /\ q.locked = p.locked /\ q.text = p.text

Links(a, bs, s) ==
  /\ a.active # None /\ IsRevision(s) /\ DOMAIN s.els = DOMAIN a.active.els
  /\ \A e \in DOMAIN s.els :
       /\ s.els[e].key = a.active.els[e].key /\ s.els[e].rev = a.active.els[e].rev
       /\ SamePrompt(a.active.els[e].prompt, s.els[e].prompt)
       /\ Backed(bs, e, s.els[e].slot)
  /\ bs \in Seq({bs[i] : i \in DOMAIN bs}) /\ UniqueIds(bs)
  /\ \A i \in DOMAIN bs : IsBinding(bs[i]) /\ InSlot(s, bs[i])
  /\ \A i \in DOMAIN a.bindings :
       /\ i \in DOMAIN bs /\ bs[i].id = a.bindings[i].id
       /\ bs[i].state = "active" =>
            \/ a.bindings[i].state = "active"
            \/ a.bindings[i].token = ResolveGenerationInput(a, a.bindings[i].target)

LEMMA Relinked ==
  ASSUME NEW a, Sound(a), NEW s, NEW bs, Links(a, bs, s)
  PROVE  LET n == Relink(a, bs, s)
         IN  /\ Sound(n) /\ Allowed(a, n) /\ n.version = a.version /\ n.applied = a.applied
             /\ n.pending = a.pending
  <1> DEFINE n == Relink(a, bs, s)
  <1>1. IsAggregate(a) /\ IsShaped(a)
    BY Zenon DEF Sound, IsAggregate
  <1>l. /\ a.active # None /\ s # None /\ IsRevision(s) /\ DOMAIN s.els = DOMAIN a.active.els
        /\ \A e \in DOMAIN s.els :
             /\ s.els[e].key = a.active.els[e].key /\ s.els[e].rev = a.active.els[e].rev
             /\ SamePrompt(a.active.els[e].prompt, s.els[e].prompt)
    BY Zenon, RowAssumption DEF Links
  <1>u. UniqueKeys(a.active) /\ UniqueKeys(s) /\ \A e \in DOMAIN s.els : a.active.els[e] \in ElementRows
    <2>1. UniqueKeys(a.active) /\ IsRevision(a.active)
      BY Zenon, <1>l DEF Sound, IsAggregate
    <2> QED BY Zenon, <1>l, <2>1, RevisionParts DEF UniqueKeys
  <1>2. /\ IsShaped(n) /\ n.active = s /\ n.pending = a.pending /\ n.bindings = bs
        /\ n.version = a.version /\ n.applied = a.applied
    BY Zenon, <1>1 DEF IsShaped, Relink
  <1> HIDE DEF n
  <1>3. IsAggregate(n)
    BY <1>1, <1>2, <1>l DEF IsAggregate, Links
  <1>4. ASSUME a.pending # None PROVE Reviewed(s, a.pending)
    <2>1. Reviewed(a.active, a.pending)
      BY Zenon, <1>4 DEF Sound
    <2>2. \A e : HasElement(s, e) <=> HasElement(a.active, e)
      BY Zenon, <1>l DEF HasElement
    <2>3. \A e : HasElement(s, e) => s.els[e].key = a.active.els[e].key
      BY Zenon, <1>l DEF HasElement
    <2>4. \A e, y : HasElement(s, e) /\ Succeeds(a.active.els[e], y) => Succeeds(s.els[e], y)
      BY Zenon, <1>l DEF Succeeds, KeepsLock, SamePrompt, HasElement
    <2> QED BY Zenon, <2>1, <2>2, <2>3, <2>4 DEF Reviewed
  <1>5. Sound(n)
    BY Zenon, <1>2, <1>3, <1>4, <1>u DEF Sound, Links
  <1>6. KeepsLocks(a.active, s, {})
    <2>1. \A x \in DOMAIN a.active.els, y \in DOMAIN s.els : a.active.els[x].key = s.els[y].key => x = y
      BY Zenon, <1>l, <1>u DEF UniqueKeys
    <2>2. \A x \in DOMAIN s.els : KeepsLock(a.active.els[x].prompt, s.els[x].prompt)
      BY <1>l, <1>u, ElementParts DEF KeepsLock, SamePrompt
    <2> QED BY Zenon, <1>l, <2>1, <2>2 DEF KeepsLocks
  <1>7. Allowed(a, n)
    <2>1. AdoptsCurrent(a, n)
      BY Zenon, <1>2 DEF AdoptsCurrent, Links
    <2>2. KeepsLocks(a.pending, n.pending, Exempt(a))
      BY Zenon, <1>1, <1>2, LocksOfSelf DEF Sound, IsAggregate
    <2> QED BY Zenon, <1>2, <1>6, <2>1, <2>2 DEF Allowed, KeepsAssets
  <1> QED BY Zenon, <1>2, <1>5, <1>7 DEF n

(* bindAsset: a new binding, in the slot if it answers the current input *)
LEMMA BindFollows ==
  ASSUME NEW a, Sound(a), NEW token, HasElement(a.active, token.target),
         NEW b \in Ids, b \notin BindingIDs(a), NEW id
  PROVE  Follows(a, BindAsset(a, b, token, id), id)
  <1> DEFINE r == a.active
             e == token.target
             valid == token = ResolveGenerationInput(a, e)
             state == IF valid THEN "candidate" ELSE "superseded"
             new == [id |-> b, target |-> e, token |-> IF valid THEN token ELSE None, state |-> state,
                     revision |-> NextArtifactRevision(a.bindings, e)]
             q == r.els[e].slot
             cands == q.cands \cup {b}
             slot == [q EXCEPT !.cands = cands, !.status = "candidate"]
             s == IF valid THEN PutSlot(r, e, slot) ELSE r
             bs == Append(a.bindings, new)
             k == Len(a.bindings)
             n == Relink(a, bs, s)
  <1>1. /\ r # None /\ IsRevision(r) /\ e \in DOMAIN r.els /\ e \in Elements
        /\ \A f \in DOMAIN r.els : r.els[f] \in ElementRows /\ r.els[f].slot \in Slots
    BY Zenon, RevisionParts, ElementParts DEF HasElement, Sound, IsAggregate
  <1>2. BindAsset(a, b, token, id) = TouchCommand(n, id)
    BY Zenon DEF BindAsset, Relink
  <1>3. IsBinding(new) /\ new.id = b /\ new.target = e /\ new.state = state
    <2> HIDE DEF valid, e
    <2> QED BY Zenon, <1>1 DEF IsBinding
  <1>4. /\ bs \in Seq({bs[i] : i \in DOMAIN bs}) /\ DOMAIN a.bindings = 1 .. k /\ k \in Nat
        /\ DOMAIN bs = 1 .. k + 1 /\ bs[k + 1] = new /\ \A i \in DOMAIN a.bindings : bs[i] = a.bindings[i]
    <2>1. a.bindings \in Seq({a.bindings[i] : i \in DOMAIN a.bindings})
      BY Zenon DEF Sound, IsAggregate
    <2>2. DOMAIN a.bindings = 1 .. k /\ k \in Nat
      BY <2>1
    <2> HIDE DEF new, k
    <2>3. /\ bs = [i \in 1 .. k + 1 |-> IF i = k + 1 THEN new ELSE a.bindings[i]]
      BY <2>1, <2>2 DEF k
    <2> HIDE DEF bs
    <2> QED BY <2>2, <2>3
  <1> HIDE DEF new, bs, k
  <1>5. \A i \in DOMAIN a.bindings : a.bindings[i].id # b /\ IsBinding(a.bindings[i])
    BY Zenon DEF BindingIDs, Sound, IsAggregate
  <1>6. UniqueIds(bs)
    <2>1. UniqueIds(a.bindings)
      BY Zenon DEF Sound
    <2>2. ASSUME NEW i \in DOMAIN bs
          PROVE  \/ i \in DOMAIN a.bindings /\ bs[i].id = a.bindings[i].id /\ bs[i].id # b
                 \/ i = k + 1 /\ bs[i].id = b
      BY <1>3, <1>4, <1>5
    <2> QED BY Zenon, <2>1, <2>2 DEF UniqueIds
  <1>7. slot \in Slots /\ slot.active = q.active /\ slot.cands = q.cands \cup {b}
    <2>1. q \in Slots /\ cands \in SUBSET Ids
      BY Zenon, <1>1 DEF Slots
    <2>2. slot \in Slots /\ slot.active = q.active /\ slot.cands = cands
      <3> HIDE DEF q, cands
      <3> QED BY Zenon, <2>1 DEF Slots
    <2> QED BY Zenon, <2>2
  <1> HIDE DEF slot
  <1>8. /\ IsRevision(s) /\ s # None /\ DOMAIN s.els = DOMAIN r.els
        /\ \A f \in DOMAIN r.els : /\ s.els[f].key = r.els[f].key
                                   /\ s.els[f].rev = r.els[f].rev /\ s.els[f].prompt = r.els[f].prompt
                                   /\ s.els[f].slot.active = r.els[f].slot.active
        /\ \A f \in DOMAIN r.els : f # e => s.els[f].slot.cands = r.els[f].slot.cands
        /\ s.els[e].slot.cands = q.cands \cup (IF valid THEN {b} ELSE {})
    <2>1. CASE valid
      <3> DEFINE p == PutSlot(r, e, slot)
      <3>1. /\ IsRevision(p) /\ p # None /\ DOMAIN p.els = DOMAIN r.els
            /\ p.els[e].slot = slot /\ p.els[e].key = r.els[e].key /\ p.els[e].rev = r.els[e].rev /\ p.els[e].prompt = r.els[e].prompt
            /\ \A f \in DOMAIN r.els : f # e => p.els[f] = r.els[f]
        BY <1>1, <1>7, PutSlotIs
      <3>2. s = p
        BY Zenon, <2>1
      <3> HIDE DEF p, s, valid, e, r
      <3> QED BY ZenonT(60), <1>7, <2>1, <3>1, <3>2 DEF q
    <2>2. CASE ~valid
      BY Zenon, <1>1, <2>2
    <2> QED BY Zenon, <2>1, <2>2
  <1>v. state = "candidate" => valid
    BY Zenon
  <1>u. state \in {"candidate", "superseded"} /\ (valid => state = "candidate")
    BY Zenon
  <1> HIDE DEF s, valid, state
  <1>9. ASSUME NEW i \in DOMAIN bs PROVE IsBinding(bs[i]) /\ InSlot(s, bs[i])
    <2>1. CASE i \in DOMAIN a.bindings
      <3>1. InSlot(r, a.bindings[i]) /\ bs[i] = a.bindings[i]
        BY Zenon, <1>4, <2>1 DEF Sound
      <3>2. InSlot(s, a.bindings[i])
        BY Zenon, <1>8, <3>1 DEF InSlot
      <3> QED BY Zenon, <1>5, <2>1, <3>1, <3>2
    <2>2. CASE i \notin DOMAIN a.bindings
      <3>1. bs[i] = new
        BY <1>4, <2>2
      <3>2. InSlot(s, new)
        BY Zenon, <1>1, <1>3, <1>8, <1>u, <1>v DEF InSlot
      <3> QED BY Zenon, <1>3, <3>1, <3>2
    <2> QED BY Zenon, <2>1, <2>2
  <1>10. ASSUME NEW f \in DOMAIN s.els PROVE Backed(bs, f, s.els[f].slot)
    <2>1. Backed(a.bindings, f, r.els[f].slot) /\ f \in DOMAIN r.els
      BY Zenon, <1>1, <1>8 DEF Sound
    <2>2. Backed(bs, f, r.els[f].slot)
      BY <1>4, <2>1 DEF Backed
    <2>3. \A x \in s.els[f].slot.cands : x \in r.els[f].slot.cands \/ (x = b /\ f = e /\ valid)
      BY Zenon, <1>8, <2>1
    <2>4. valid => k + 1 \in DOMAIN bs /\ bs[k + 1].id = b /\ bs[k + 1].target = e /\ bs[k + 1].state = "candidate"
      BY <1>3, <1>4, <1>u
    <2>5. s.els[f].slot.active = r.els[f].slot.active
      BY Zenon, <1>8, <2>1
    <2> QED BY <2>2, <2>3, <2>4, <2>5 DEF Backed
  <1>11. \A i \in DOMAIN a.bindings :
           /\ i \in DOMAIN bs /\ bs[i].id = a.bindings[i].id
           /\ bs[i].state = "active" =>
                \/ a.bindings[i].state = "active"
                \/ a.bindings[i].token = ResolveGenerationInput(a, a.bindings[i].target)
    BY <1>4
  <1>12. /\ Sound(n) /\ Allowed(a, n) /\ n.version = a.version /\ n.applied = a.applied
    <2>1. bs \in Seq({bs[i] : i \in DOMAIN bs})
      BY Zenon, <1>4
    <2>2. \A f \in DOMAIN s.els :
            /\ s.els[f].key = a.active.els[f].key /\ s.els[f].rev = a.active.els[f].rev
            /\ SamePrompt(a.active.els[f].prompt, s.els[f].prompt)
      BY Zenon, <1>8 DEF SamePrompt
    <2>3. Links(a, bs, s)
      BY Zenon, <1>1, <1>6, <1>8, <1>9, <1>10, <1>11, <2>1, <2>2 DEF Links
    <2> QED BY Zenon, <2>3, Relinked
  <1> HIDE DEF n
  <1> QED BY Zenon, <1>2, <1>12, Touched

(* activateBinding: the candidate takes the slot from the active binding. *)
LEMMA ActivateFollows ==
  ASSUME NEW a, Sound(a), NEW b \in BindingIDs(a), CanActivate(a, b), NEW id
  PROVE  Follows(a, ActivateBinding(a, b, id), id)
  <1>1. PICK k \in DOMAIN a.bindings : a.bindings[k].id = b
    BY Zenon DEF BindingIDs
  <1> DEFINE r == a.active
             e == a.bindings[k].target
             others == {x \in BindingIDs(a) : BindingByID(a, x).target = e /\ BindingByID(a, x).state = "active"}
             mid == SetBindingState(a.bindings, others, "superseded")
             one == {b}
             bs == SetBindingState(mid, one, "active")
             q == r.els[e].slot
             left == q.cands \ {b}
             slot == [q EXCEPT !.active = b, !.cands = left, !.status = "active"]
             p == PutSlot(r, e, slot)
             s == MarkDependencyClosure(p, e)
             n == Relink(a, bs, s)
  <1>2. /\ UniqueIds(a.bindings) /\ \A i \in DOMAIN a.bindings : IsBinding(a.bindings[i])
        /\ IsAggregate(a)
    BY Zenon DEF Sound, IsAggregate
  <1>3. \A i \in DOMAIN a.bindings : BindingByID(a, a.bindings[i].id) = a.bindings[i]
                                     /\ a.bindings[i].id \in BindingIDs(a)
    BY Zenon, <1>2, ByID
  <1>4. /\ a.bindings[k].state = "candidate" /\ HasElement(r, e) /\ b \in q.cands
        /\ a.bindings[k].token = ResolveGenerationInput(a, e)
    BY Zenon, <1>1, <1>3 DEF CanActivate
  <1>5. ActivateBinding(a, b, id) = TouchCommand(SupersedeInvalidCandidates(n), id)
    BY Zenon, <1>1, <1>3 DEF ActivateBinding, Relink
  <1>6. /\ r # None /\ IsRevision(r) /\ e \in DOMAIN r.els /\ q \in Slots /\ b \in Ids
        /\ \A f \in DOMAIN r.els : r.els[f] \in ElementRows
    BY Zenon, <1>1, <1>2, <1>4, RevisionParts, ElementParts DEF HasElement, Sound, IsAggregate, IsBinding
  <1>7. \A i \in DOMAIN a.bindings :
          a.bindings[i].id \in others <=> a.bindings[i].target = e /\ a.bindings[i].state = "active"
    BY Zenon, <1>3
  <1> HIDE DEF others
  <1>8. /\ DOMAIN mid = DOMAIN a.bindings
        /\ \A i \in DOMAIN a.bindings :
             /\ IsBinding(mid[i]) /\ mid[i].id = a.bindings[i].id /\ mid[i].target = a.bindings[i].target
             /\ a.bindings[i].id \notin others => mid[i] = a.bindings[i]
             /\ a.bindings[i].id \in others => mid[i].state = "superseded"
    BY <1>2, StatesSet
  <1> HIDE DEF mid
  <1>9. /\ DOMAIN bs = DOMAIN mid /\ bs = [i \in DOMAIN bs |-> bs[i]]
        /\ \A i \in DOMAIN mid :
             /\ IsBinding(bs[i]) /\ bs[i].id = mid[i].id /\ bs[i].target = mid[i].target
             /\ mid[i].id \notin one => bs[i] = mid[i]
             /\ mid[i].id \in one => bs[i].state = "active"
    <2>1. \A i \in DOMAIN mid : IsBinding(mid[i])
      BY Zenon, <1>8
    <2> HIDE DEF one
    <2> QED BY <2>1, StatesSet
  <1> HIDE DEF bs
  <1>10. \A i \in DOMAIN a.bindings :
           /\ IsBinding(bs[i]) /\ bs[i].id = a.bindings[i].id /\ bs[i].target = a.bindings[i].target
           /\ i = k => bs[i].state = "active"
           /\ i # k /\ a.bindings[i].target = e /\ a.bindings[i].state = "active" => bs[i].state = "superseded"
           /\ i # k /\ ~(a.bindings[i].target = e /\ a.bindings[i].state = "active") => bs[i] = a.bindings[i]
    <2>1. \A i \in DOMAIN a.bindings : a.bindings[i].id = b <=> i = k
      BY Zenon, <1>1, <1>2 DEF UniqueIds
    <2> QED BY <1>7, <1>8, <1>9, <2>1
  <1>11. DOMAIN bs = DOMAIN a.bindings /\ bs \in Seq({bs[i] : i \in DOMAIN bs}) /\ UniqueIds(bs)
    <2>1. DOMAIN bs = DOMAIN a.bindings
      BY Zenon, <1>8, <1>9
    <2>2. bs \in Seq({bs[i] : i \in DOMAIN bs})
      BY <1>2, <1>9, <2>1, BindingsReplaced
    <2> QED BY <1>2, <1>10, <2>1, <2>2 DEF UniqueIds
  <1>12. slot \in Slots /\ slot.active = b /\ slot.cands = q.cands \ {b}
    <2>1. left \in SUBSET Ids /\ q \in Slots /\ b \in Ids
      BY Zenon, <1>6 DEF Slots
    <2>2. slot \in Slots /\ slot.active = b /\ slot.cands = left
      <3> HIDE DEF q, left
      <3> QED BY Zenon, <2>1 DEF Slots
    <2> QED BY Zenon, <2>2
  <1>e. a.bindings[k].target = e /\ r.els[e].slot = q
    BY Zenon
  <1> HIDE DEF slot, e, q
  <1>13. /\ IsRevision(p) /\ DOMAIN p.els = DOMAIN r.els
         /\ p.els[e].slot = slot /\ p.els[e].key = r.els[e].key /\ p.els[e].rev = r.els[e].rev /\ p.els[e].prompt = r.els[e].prompt
         /\ \A f \in DOMAIN r.els : f # e => p.els[f] = r.els[f]
    BY <1>6, <1>12, PutSlotIs
  <1> HIDE DEF p
  <1>14. IsRevision(s) /\ s # None /\ DOMAIN s.els = DOMAIN p.els /\ \A f \in DOMAIN p.els : Alike(p.els[f], s.els[f])
    BY Zenon, <1>13, ClosureMarked
  <1> HIDE DEF s
  <1>15. /\ DOMAIN s.els = DOMAIN r.els
         /\ s.els[e].slot.active = b /\ s.els[e].slot.cands = q.cands \ {b}
         /\ \A f \in DOMAIN r.els :
              /\ s.els[f].key = r.els[f].key /\ s.els[f].rev = r.els[f].rev
              /\ SamePrompt(r.els[f].prompt, s.els[f].prompt)
              /\ f # e => /\ s.els[f].slot.active = r.els[f].slot.active
                          /\ s.els[f].slot.cands = r.els[f].slot.cands
    <2>1. \A f \in DOMAIN r.els : f # e => Alike(r.els[f], s.els[f])
      BY Zenon, <1>13, <1>14
    <2>2. Alike(p.els[e], s.els[e])
      BY Zenon, <1>6, <1>13, <1>14
    <2> QED BY Zenon, <1>12, <1>13, <1>14, <2>1, <2>2 DEF Alike, SamePrompt
  <1>16. ASSUME NEW i \in DOMAIN bs PROVE IsBinding(bs[i]) /\ InSlot(s, bs[i])
    <2>1. i \in DOMAIN a.bindings /\ InSlot(r, a.bindings[i]) /\ IsBinding(bs[i])
      BY ZenonT(60), <1>10, <1>11 DEF Sound
    <2>2. CASE i = k
      BY <1>1, <1>e, <1>6, <1>10, <1>14, <1>15, <2>1, <2>2 DEF InSlot
    <2>3. CASE i # k /\ a.bindings[i].target = e /\ a.bindings[i].state = "active"
      BY Zenon, <1>10, <2>1, <2>3 DEF InSlot
    <2>4. CASE i # k /\ ~(a.bindings[i].target = e /\ a.bindings[i].state = "active")
      <3>1. bs[i] = a.bindings[i] /\ bs[i].id # b
        BY Zenon, <1>1, <1>2, <1>10, <2>1, <2>4 DEF UniqueIds
      <3>3. ASSUME bs[i].state \in {"candidate", "active"}
            PROVE  /\ bs[i].target \in DOMAIN r.els
                   /\ bs[i].state = "candidate" => bs[i].id \in s.els[bs[i].target].slot.cands
                   /\ bs[i].state = "active" => bs[i].id = s.els[bs[i].target].slot.active
        <4>1. /\ bs[i].target \in DOMAIN r.els
              /\ bs[i].state = "candidate" => bs[i].id \in r.els[bs[i].target].slot.cands
              /\ bs[i].state = "active" => bs[i].id = r.els[bs[i].target].slot.active
          BY Zenon, <2>1, <3>1, <3>3 DEF InSlot
        <4>2. CASE bs[i].target = e
          BY Zenon, <1>e, <1>15, <2>4, <3>1, <3>3, <4>1, <4>2
        <4>3. CASE bs[i].target # e
          BY Zenon, <1>15, <4>1, <4>3
        <4> QED BY Zenon, <4>2, <4>3
      <3> QED BY Zenon, <1>14, <1>15, <2>1, <3>3 DEF InSlot
    <2> QED BY Zenon, <2>1, <2>2, <2>3, <2>4
  <1>17. ASSUME NEW f \in DOMAIN s.els PROVE Backed(bs, f, s.els[f].slot)
    <2>1. Backed(a.bindings, f, r.els[f].slot) /\ f \in DOMAIN r.els
      BY Zenon, <1>6, <1>15 DEF Sound
    <2>2. ASSUME NEW x \in s.els[f].slot.cands
          PROVE  \E i \in DOMAIN bs : bs[i].id = x /\ bs[i].target = f /\ bs[i].state = "candidate"
      <3>1. x \in r.els[f].slot.cands /\ (f = e => x # b)
        BY Zenon, <1>e, <1>15, <2>1
      <3>2. PICK i \in DOMAIN a.bindings :
              a.bindings[i].id = x /\ a.bindings[i].target = f /\ a.bindings[i].state = "candidate"
        BY Zenon, <2>1, <3>1 DEF Backed
      <3>3. i # k
        BY Zenon, <1>1, <1>e, <3>1, <3>2
      <3> QED BY Zenon, <1>10, <1>11, <3>2, <3>3
    <2>3. ASSUME s.els[f].slot.active # None
          PROVE  \E i \in DOMAIN bs :
                   bs[i].id = s.els[f].slot.active /\ bs[i].target = f /\ bs[i].state = "active"
      <3>1. CASE f = e
        BY Zenon, <1>1, <1>e, <1>10, <1>11, <1>15, <3>1
      <3>2. CASE f # e
        <4>1. s.els[f].slot.active = r.els[f].slot.active
          BY Zenon, <1>15, <2>1, <3>2
        <4>2. PICK i \in DOMAIN a.bindings :
                a.bindings[i].id = r.els[f].slot.active /\ a.bindings[i].target = f /\ a.bindings[i].state = "active"
          BY Zenon, <2>1, <2>3, <4>1 DEF Backed
        <4> QED BY Zenon, <1>10, <1>11, <3>2, <4>1, <4>2
      <3> QED BY Zenon, <3>1, <3>2
    <2> QED BY Zenon, <2>2, <2>3 DEF Backed
  <1>18. \A i \in DOMAIN a.bindings :
           /\ i \in DOMAIN bs /\ bs[i].id = a.bindings[i].id
           /\ bs[i].state = "active" =>
                \/ a.bindings[i].state = "active"
                \/ a.bindings[i].token = ResolveGenerationInput(a, a.bindings[i].target)
    BY Zenon, <1>4, <1>e, <1>10, <1>11
  <1>19. Links(a, bs, s)
    BY Zenon, <1>6, <1>11, <1>14, <1>15, <1>16, <1>17, <1>18 DEF Links
  <1>20. /\ Sound(n) /\ Allowed(a, n) /\ n.version = a.version /\ n.applied = a.applied /\ n.pending = a.pending
    BY Zenon, <1>19, Relinked
  <1> HIDE DEF n
  <1> QED BY Zenon, <1>5, <1>20, InvalidTrimmed

(* rejectBinding: the candidate leaves the slot. *)
LEMMA RejectFollows ==
  ASSUME NEW a, Sound(a), NEW b \in BindingIDs(a), CanReject(a, b), NEW id
  PROVE  Follows(a, RejectBinding(a, b, id), id)
  <1>1. PICK k \in DOMAIN a.bindings : a.bindings[k].id = b
    BY DEF BindingIDs
  <1> DEFINE r == a.active
             e == a.bindings[k].target
             one == {b}
             bs == SetBindingState(a.bindings, one, "rejected")
             q == r.els[e].slot
             left == q.cands \ {b}
             status == IF q.active # None THEN "active" ELSE IF left # {} THEN "candidate" ELSE "missing"
             slot == [q EXCEPT !.cands = left, !.status = status]
             s == PutSlot(r, e, slot)
             n == Relink(a, bs, s)
  <1>2. /\ UniqueIds(a.bindings) /\ \A i \in DOMAIN a.bindings : IsBinding(a.bindings[i])
        /\ IsAggregate(a)
    BY DEF Sound, IsAggregate
  <1>3. BindingByID(a, b) = a.bindings[k]
    BY Zenon, <1>1, <1>2, ByID
  <1>4. a.bindings[k].state = "candidate" /\ HasElement(r, e)
    BY Zenon, <1>3 DEF CanReject
  <1>5. RejectBinding(a, b, id) = TouchCommand(n, id)
    BY Zenon, <1>3 DEF RejectBinding, Relink
  <1>6. /\ r # None /\ IsRevision(r) /\ e \in DOMAIN r.els /\ q \in Slots
        /\ \A f \in DOMAIN r.els : r.els[f] \in ElementRows
    BY Zenon, <1>2, <1>4, RevisionParts, ElementParts DEF HasElement, Sound, IsAggregate
  <1>9. /\ DOMAIN bs = DOMAIN a.bindings /\ bs = [i \in DOMAIN bs |-> bs[i]]
        /\ \A i \in DOMAIN a.bindings :
             /\ IsBinding(bs[i]) /\ bs[i].id = a.bindings[i].id /\ bs[i].target = a.bindings[i].target
             /\ a.bindings[i].id \notin one => bs[i] = a.bindings[i]
             /\ a.bindings[i].id \in one => bs[i].state = "rejected"
    <2> HIDE DEF one
    <2> QED BY <1>2, StatesSet
  <1> HIDE DEF bs
  <1>10. \A i \in DOMAIN a.bindings :
           /\ IsBinding(bs[i]) /\ bs[i].id = a.bindings[i].id /\ bs[i].target = a.bindings[i].target
           /\ i = k => bs[i].state = "rejected"
           /\ i # k => bs[i] = a.bindings[i]
    <2>1. \A i \in DOMAIN a.bindings : a.bindings[i].id = b <=> i = k
      BY <1>1, <1>2 DEF UniqueIds
    <2> QED BY Zenon, <1>9, <2>1
  <1>11. DOMAIN bs = DOMAIN a.bindings /\ bs \in Seq({bs[i] : i \in DOMAIN bs}) /\ UniqueIds(bs)
    <2>2. bs \in Seq({bs[i] : i \in DOMAIN bs})
      BY <1>2, <1>9, BindingsReplaced
    <2> QED BY <1>2, <1>9, <1>10, <2>2 DEF UniqueIds
  <1>12. slot \in Slots /\ slot.active = q.active /\ slot.cands = q.cands \ {b}
    <2>1. left \in SUBSET Ids /\ q \in Slots /\ status \in {"missing", "candidate", "active", "stale"}
      BY Zenon, <1>6 DEF Slots
    <2>2. slot \in Slots /\ slot.active = q.active /\ slot.cands = left
      <3> HIDE DEF q, left, status
      <3> QED BY Zenon, <2>1 DEF Slots
    <2> QED BY Zenon, <2>2
  <1>e. a.bindings[k].target = e /\ r.els[e].slot = q
    OBVIOUS
  <1> HIDE DEF slot, e, q
  <1>13. /\ IsRevision(s) /\ s # None /\ DOMAIN s.els = DOMAIN r.els
         /\ s.els[e].slot = slot /\ s.els[e].key = r.els[e].key /\ s.els[e].rev = r.els[e].rev /\ s.els[e].prompt = r.els[e].prompt
         /\ \A f \in DOMAIN r.els : f # e => s.els[f] = r.els[f]
    BY <1>6, <1>12, PutSlotIs
  <1> HIDE DEF s
  <1>15. \A f \in DOMAIN r.els :
           /\ s.els[f].key = r.els[f].key /\ s.els[f].rev = r.els[f].rev
           /\ SamePrompt(r.els[f].prompt, s.els[f].prompt)
           /\ s.els[f].slot.active = r.els[f].slot.active
           /\ s.els[f].slot.cands = r.els[f].slot.cands \ (IF f = e THEN {b} ELSE {})
    BY Zenon, <1>e, <1>12, <1>13 DEF SamePrompt
  <1>16. ASSUME NEW i \in DOMAIN bs PROVE IsBinding(bs[i]) /\ InSlot(s, bs[i])
    <2>1. i \in DOMAIN a.bindings /\ InSlot(r, a.bindings[i]) /\ IsBinding(bs[i])
      BY Zenon, <1>10, <1>11 DEF Sound
    <2>2. CASE i = k
      BY Zenon, <1>10, <2>1, <2>2 DEF InSlot
    <2>4. CASE i # k
      <3>1. bs[i] = a.bindings[i] /\ bs[i].id # b
        BY Zenon, <1>1, <1>2, <1>10, <2>1, <2>4 DEF UniqueIds
      <3>2. ASSUME bs[i].state \in {"candidate", "active"}
            PROVE  /\ bs[i].target \in DOMAIN r.els
                   /\ bs[i].state = "candidate" => bs[i].id \in s.els[bs[i].target].slot.cands
                   /\ bs[i].state = "active" => bs[i].id = s.els[bs[i].target].slot.active
        BY Zenon, <1>15, <2>1, <3>1, <3>2 DEF InSlot
      <3> QED BY Zenon, <1>13, <2>1, <3>2 DEF InSlot
    <2> QED BY Zenon, <2>2, <2>4
  <1>17. ASSUME NEW f \in DOMAIN s.els PROVE Backed(bs, f, s.els[f].slot)
    <2>1. Backed(a.bindings, f, r.els[f].slot) /\ f \in DOMAIN r.els
      BY Zenon, <1>6, <1>13 DEF Sound
    <2>2. ASSUME NEW x \in s.els[f].slot.cands
          PROVE  \E i \in DOMAIN bs : bs[i].id = x /\ bs[i].target = f /\ bs[i].state = "candidate"
      <3>1. x \in r.els[f].slot.cands /\ (f = e => x # b)
        BY <1>e, <1>15, <2>1
      <3>2. PICK i \in DOMAIN a.bindings :
              a.bindings[i].id = x /\ a.bindings[i].target = f /\ a.bindings[i].state = "candidate"
        BY <2>1, <3>1 DEF Backed
      <3>3. i # k
        BY <1>1, <1>e, <3>1, <3>2
      <3> QED BY Zenon, <1>10, <1>11, <3>2, <3>3
    <2>3. ASSUME s.els[f].slot.active # None
          PROVE  \E i \in DOMAIN bs :
                   bs[i].id = s.els[f].slot.active /\ bs[i].target = f /\ bs[i].state = "active"
      <3>1. s.els[f].slot.active = r.els[f].slot.active
        BY Zenon, <1>e, <1>15, <2>1
      <3>2. PICK i \in DOMAIN a.bindings :
              a.bindings[i].id = r.els[f].slot.active /\ a.bindings[i].target = f /\ a.bindings[i].state = "active"
        BY <2>1, <2>3, <3>1 DEF Backed
      <3>3. i # k
        BY Zenon, <1>4, <3>2
      <3> QED BY Zenon, <1>10, <1>11, <3>1, <3>2, <3>3
    <2> QED BY <2>2, <2>3 DEF Backed
  <1>18. \A i \in DOMAIN a.bindings :
           /\ i \in DOMAIN bs /\ bs[i].id = a.bindings[i].id
           /\ bs[i].state = "active" =>
                \/ a.bindings[i].state = "active"
                \/ a.bindings[i].token = ResolveGenerationInput(a, a.bindings[i].target)
    BY Zenon, <1>10, <1>11
  <1>19. Links(a, bs, s)
    BY Zenon, <1>6, <1>11, <1>13, <1>15, <1>16, <1>17, <1>18 DEF Links
  <1>20. /\ Sound(n) /\ Allowed(a, n) /\ n.version = a.version /\ n.applied = a.applied
    BY Zenon, <1>19, Relinked
  <1> HIDE DEF n
  <1> QED BY Zenon, <1>5, <1>20, Touched

-----------------------------------------------------------------------------
(* Whole-plan revisions *)

LEMMA HighestIs ==
  ASSUME NEW m \in Nat, NEW n \in Nat PROVE Highest(m, n) \in Nat
  BY Zenon DEF Highest

LEMMA EmptySlotIs ==
  EmptySlot \in Slots /\ EmptySlot.active = None /\ EmptySlot.cands = {} /\ EmptySlot.epoch \in Nat
  BY Zenon DEF EmptySlot, Slots

(* reconcileAssetSlots carries an approved binding of a compatible element. *)
LEMMA SlotReconciled ==
  ASSUME NEW slot \in Slots, NEW old \in Slots, NEW compatible \in BOOLEAN
  PROVE  LET c == ReconcileAssetSlot(slot, old, compatible)
         IN  /\ c \in Slots /\ c.cands = {} /\ c.active \in {None, old.active}
             /\ compatible /\ old.status = "active" => c.active = old.active
  <1> DEFINE wasStale == old.status = "stale" \/ (~compatible /\ old.active # None)
             carried == compatible /\ old.status = "active" /\ old.active # None
             h == Highest(slot.epoch, old.epoch + IF compatible THEN 0 ELSE 1)
             x == IF carried THEN old.active ELSE None
             status == IF carried THEN "active" ELSE IF wasStale THEN "stale" ELSE "missing"
             c == [epoch |-> h, active |-> x, cands |-> {}, status |-> status]
  <1>1. ReconcileAssetSlot(slot, old, compatible) = c
    BY Zenon DEF ReconcileAssetSlot
  <1>2. h \in Nat
    <2>1. slot.epoch \in Nat /\ old.epoch + (IF compatible THEN 0 ELSE 1) \in Nat
      BY DEF Slots
    <2> QED BY Zenon, <2>1, HighestIs
  <1>3. /\ x \in Ids \cup {None} /\ x \in {None, old.active}
        /\ compatible /\ old.status = "active" => x = old.active
    BY Zenon DEF Slots
  <1>4. status \in {"missing", "candidate", "active", "stale"}
    BY Zenon
  <1> HIDE DEF h, x, status
  <1>5. c \in Slots /\ c.cands = {} /\ c.active = x
    BY Zenon, <1>2, <1>3, <1>4 DEF Slots
  <1> QED BY Zenon, <1>1, <1>3, <1>5

LEMMA PromptNormalized ==
  ASSUME NEW text \in STRING PROVE NormalizePromptSlot(text) \in Prompts
  BY Zenon DEF NormalizePromptSlot, Prompts

(* Element e of a plan has no candidates, an asset only if it is preserved,  *)
(* and the prompt the user locked under its key.                             *)
Fresh(active, k, e, preserve, x) ==
  /\ x \in ElementRows /\ x.key = k /\ x.slot.cands = {}
  /\ x.slot.active # None => preserve /\ HasElement(active, e)
  /\ \A d : HasElement(active, d) /\ active.els[d].key = k => d = e /\ Succeeds(active.els[d], x)

(* A key of a plan stands for the element of the active revision it matches. *)
LEMMA KeyMatched ==
  ASSUME NEW active, active # None => IsRevision(active) /\ UniqueKeys(active), NEW plan, IsPlan(plan),
         NEW k \in DOMAIN plan.els
  PROVE  /\ IdOf(active, plan, k) \in Elements
         /\ Matched(active, k) # {} =>
              HasElement(active, IdOf(active, plan, k)) /\ active.els[IdOf(active, plan, k)].key = k
         /\ \A d : HasElement(active, d) /\ active.els[d].key = k =>
              Matched(active, k) # {} /\ d = IdOf(active, plan, k)
  <1> DEFINE e == IdOf(active, plan, k)
             M == Matched(active, k)
  <1>1. \A d : HasElement(active, d) /\ active.els[d].key = k <=> d \in M
    BY Zenon, RevisionParts DEF Matched, HasElement
  <1>2. \A c, d \in M : c = d
    BY Zenon, <1>1 DEF UniqueKeys, HasElement
  <1>3. plan.els[k].id \in Elements
    BY Zenon DEF IsPlan
  <1>4. e = IF M # {} THEN CHOOSE d \in M : TRUE ELSE plan.els[k].id
    BY Zenon DEF IdOf
  <1>5. M \subseteq Elements
    BY Zenon DEF Matched
  <1> HIDE DEF M, e
  <1>6. M # {} => e \in M
    BY Zenon, <1>4
  <1> QED BY Zenon, <1>1, <1>2, <1>3, <1>4, <1>5, <1>6 DEF e, M

LEMMA RevSet ==
  ASSUME NEW x \in ElementRows, NEW v \in Nat
  PROVE  LET y == [x EXCEPT !.rev = v]
         IN  y \in ElementRows /\ y.key = x.key /\ y.rev = v /\ y.prompt = x.prompt /\ y.slot = x.slot
  BY Zenon DEF ElementRows

LEMMA ElementReconciled ==
  ASSUME NEW active, active # None => IsRevision(active) /\ UniqueKeys(active), NEW plan, IsPlan(plan),
         NEW k \in DOMAIN plan.els, NEW preserve \in BOOLEAN
  PROVE  Fresh(active, k, IdOf(active, plan, k), preserve, ReconcileElement(active, plan, k, preserve))
  <1> DEFINE p == plan.els[k]
             e == IdOf(active, plan, k)
             exists == Matched(active, k) # {}
             old == active.els[e]
             prompt == IF exists /\ old.prompt.locked THEN old.prompt ELSE NormalizePromptSlot(p.text)
             fresh == [key |-> k, required |-> p.required, rev |-> 1,
                       title |-> p.title, content |-> p.content, meta |-> p.meta,
                       prompt |-> prompt, slot |-> EmptySlot]
             slot == ReconcileAssetSlot(fresh.slot, old.slot, GenerationCompatible(old, fresh))
             el == IF exists /\ preserve THEN [fresh EXCEPT !.slot = slot] ELSE fresh
             v == IF SameElementPlan(old, el) THEN old.rev ELSE old.rev + 1
             y == [el EXCEPT !.rev = v]
  <1>1. ReconcileElement(active, plan, k, preserve) = IF ~exists THEN el ELSE y
    BY Zenon DEF ReconcileElement
  <1>2. /\ p.title \in STRING /\ p.content \in STRING /\ p.meta \in STRING /\ p.text \in STRING
        /\ p.required \in BOOLEAN /\ k \in Keys
    BY Zenon DEF IsPlan
  <1>m. /\ exists => HasElement(active, e) /\ old.key = k
        /\ \A d : HasElement(active, d) /\ active.els[d].key = k => exists /\ d = e
    BY Zenon, KeyMatched
  <1>3. exists => /\ old \in ElementRows /\ old.slot \in Slots /\ old.prompt \in Prompts
                  /\ old.rev \in Nat /\ old.prompt.rev \in Nat
    BY Zenon, <1>m, RevisionParts, ElementParts DEF HasElement
  <1>4. prompt \in Prompts /\ (exists /\ old.prompt.locked => prompt = old.prompt)
    BY Zenon, <1>2, <1>3, PromptNormalized
  <1> HIDE DEF p, prompt, old, exists, e
  <1>5. fresh \in ElementRows /\ fresh.key = k /\ fresh.prompt = prompt /\ fresh.slot = EmptySlot
    BY Zenon, <1>2, <1>4, EmptySlotIs DEF ElementRows
  <1> HIDE DEF fresh
  <1>6. exists => slot \in Slots /\ slot.cands = {} /\ slot.active \in {None, old.slot.active}
    <2>1. GenerationCompatible(old, fresh) \in BOOLEAN
      BY Zenon DEF GenerationCompatible
    <2> QED BY Zenon, <1>3, <1>5, <2>1, EmptySlotIs, SlotReconciled
  <1> HIDE DEF slot
  <1>7. /\ el \in ElementRows /\ el.key = k /\ el.prompt = prompt /\ el.slot.cands = {}
        /\ el.slot.active # None => preserve /\ exists
    <2>1. CASE exists /\ preserve
      BY Zenon, <1>5, <1>6, <2>1, WithSlot
    <2>2. CASE ~(exists /\ preserve)
      BY Zenon, <1>5, <2>2, EmptySlotIs
    <2> QED BY Zenon, <2>1, <2>2
  <1> HIDE DEF el
  <1>8. ASSUME exists PROVE Fresh(active, k, e, preserve, y)
    <2>1. v \in Nat /\ v \in {old.rev, old.rev + 1} /\ (v = old.rev => SameElementPlan(old, el))
      BY <1>3, <1>8
    <2> HIDE DEF v
    <2>2. y \in ElementRows /\ y.key = k /\ y.rev = v /\ y.prompt = el.prompt /\ y.slot = el.slot
      BY Zenon, <1>7, <2>1, RevSet
    <2> HIDE DEF y
    <2>3. SameElementPlan(old, el) => el.prompt = old.prompt
      <3> DEFINE o == [old EXCEPT !.rev = 0]
                 n == [el EXCEPT !.rev = 0]
      <3>1. o.prompt = old.prompt /\ n.prompt = el.prompt
        BY Zenon, <1>3, <1>7, <1>8, RevSet
      <3> QED BY Zenon, <3>1 DEF SameElementPlan
    <2>4. Succeeds(old, y)
      BY <1>3, <1>4, <1>7, <1>8, <1>m, <2>1, <2>2, <2>3 DEF Succeeds, KeepsLock
    <2> QED BY Zenon, <1>7, <1>8, <1>m, <2>2, <2>4 DEF Fresh, old
  <1>9. ASSUME ~exists PROVE Fresh(active, k, e, preserve, el)
    BY Zenon, <1>7, <1>9, <1>m DEF Fresh
  <1> QED BY Zenon, <1>1, <1>8, <1>9 DEF e

(* invalidateDependencyIncompatibleSlots, whatever the signatures are: an    *)
(* element loses its asset, or nothing.                                      *)
Loosened(active, cand, s) ==
  /\ IsRevision(s) /\ s # None /\ DOMAIN s.els = DOMAIN cand.els /\ s.preserve = cand.preserve
  /\ \A e \in DOMAIN cand.els :
       /\ s.els[e] \in ElementRows /\ s.els[e].key = cand.els[e].key
       /\ s.els[e].rev = cand.els[e].rev /\ s.els[e].prompt = cand.els[e].prompt
       /\ cand.els[e].slot.cands = {} => s.els[e].slot.cands = {}
       /\ s.els[e].slot.active = None \/ s.els[e].slot.active = cand.els[e].slot.active
       /\ DependencySignature(active.deps, e) = DependencySignature(cand.deps, e) =>
            s.els[e].slot.active = cand.els[e].slot.active

LEMMA Invalidated ==
  ASSUME NEW active, IsRevision(active), NEW cand, IsRevision(cand)
  PROVE  Loosened(active, cand, InvalidateDependencyIncompatibleSlots(active, cand))
  <1> DEFINE Incompatible(e) ==
               /\ HasElement(active, e) /\ cand.els[e].slot.active # None
               /\ DependencySignature(active.deps, e) # DependencySignature(cand.deps, e)
             Slot(e) == [epoch |-> Highest(cand.els[e].slot.epoch, active.els[e].slot.epoch + 1),
                         active |-> None, cands |-> {}, status |-> "stale"]
             els == [e \in DOMAIN cand.els |->
                       IF Incompatible(e) THEN [cand.els[e] EXCEPT !.slot = Slot(e)] ELSE cand.els[e]]
             s == [cand EXCEPT !.els = els]
  <1>1. InvalidateDependencyIncompatibleSlots(active, cand) = s
    BY Zenon DEF InvalidateDependencyIncompatibleSlots
  <1>2. /\ \A e \in DOMAIN cand.els : cand.els[e] \in ElementRows
        /\ \A e \in DOMAIN active.els : active.els[e] \in ElementRows
    BY Zenon, RevisionParts
  <1>3. ASSUME NEW e \in DOMAIN cand.els
        PROVE  /\ els[e] \in ElementRows /\ els[e].key = cand.els[e].key
               /\ els[e].rev = cand.els[e].rev /\ els[e].prompt = cand.els[e].prompt
               /\ cand.els[e].slot.cands = {} => els[e].slot.cands = {}
               /\ els[e].slot.active = None \/ els[e].slot.active = cand.els[e].slot.active
               /\ DependencySignature(active.deps, e) = DependencySignature(cand.deps, e) =>
                    els[e].slot.active = cand.els[e].slot.active
    <2> DEFINE x == cand.els[e]
               d == Slot(e)
               h == Highest(x.slot.epoch, active.els[e].slot.epoch + 1)
    <2>1. els[e] = IF Incompatible(e) THEN [x EXCEPT !.slot = d] ELSE x
      BY Zenon
    <2>2. CASE Incompatible(e)
      <3>1. h \in Nat
        <4>1. x.slot.epoch \in Nat /\ active.els[e].slot.epoch + 1 \in Nat
          BY <1>2, <2>2, ElementParts DEF HasElement
        <4> QED BY Zenon, <4>1, HighestIs
      <3>2. d = [epoch |-> h, active |-> None, cands |-> {}, status |-> "stale"]
        BY Zenon
      <3> HIDE DEF h, d
      <3>3. d \in Slots /\ d.active = None /\ d.cands = {}
        BY Zenon, <3>1, <3>2 DEF Slots
      <3>4. x \in ElementRows /\ DependencySignature(active.deps, e) # DependencySignature(cand.deps, e)
        BY Zenon, <1>2, <2>2
      <3> HIDE DEF x, els, Incompatible
      <3>5. /\ els[e] \in ElementRows /\ els[e].key = x.key
            /\ els[e].rev = x.rev /\ els[e].prompt = x.prompt /\ els[e].slot = d
        BY <2>1, <2>2, <3>3, <3>4, WithSlot
      <3> QED BY Zenon, <3>3, <3>4, <3>5 DEF x
    <2>3. CASE ~Incompatible(e)
      <3> HIDE DEF Incompatible, els
      <3> QED BY Zenon, <1>2, <2>1, <2>3
    <2> QED BY Zenon, <2>2, <2>3
  <1>4. DOMAIN els = DOMAIN cand.els /\ els = [e \in DOMAIN cand.els |-> els[e]]
    BY Zenon
  <1> HIDE DEF els
  <1>5. IsRevision(s) /\ s # None /\ s.els = els /\ s.preserve = cand.preserve
    BY <1>3, <1>4, ElementsReplaced
  <1> HIDE DEF s
  <1> QED BY Zenon, <1>1, <1>3, <1>4, <1>5 DEF Loosened

(* reconcileRevision *)
LEMMA RevisionReconciled ==
  ASSUME NEW active, active # None => IsRevision(active) /\ UniqueKeys(active), NEW plan, IsPlan(plan),
         ValidateRevision(plan), NEW spec \in Nat, NEW preserve \in BOOLEAN, NEW id \in Requests
  PROVE  LET s == ReconcileRevision(active, plan, spec, preserve, id)
         IN  IsRevision(s) /\ s # None /\ UniqueKeys(s) /\ Reviewed(active, s)
  <1> DEFINE Id(k) == IdOf(active, plan, k)
             Key(e) == KeyOf(active, plan, e)
             D == {Id(k) : k \in DOMAIN plan.els}
             deps == [i \in DOMAIN plan.deps |->
                        <<Id(plan.deps[i][1]), Id(plan.deps[i][2]), plan.deps[i][3]>>]
             els == [e \in D |-> ReconcileElement(active, plan, Key(e), preserve)]
             cand == [id |-> id, spec |-> spec, scenario |-> plan.scenario, preserve |-> preserve,
                      deps |-> deps, els |-> els]
             s == ReconcileRevision(active, plan, spec, preserve, id)
  <1>1. \A e \in D : els[e] = ReconcileElement(active, plan, Key(e), preserve)
    BY Zenon
  <1>2. DOMAIN els = D /\ els = [e \in D |-> els[e]]
    BY Zenon
  <1>3. s = IF active # None /\ preserve THEN InvalidateDependencyIncompatibleSlots(active, cand) ELSE cand
    BY Zenon DEF ReconcileRevision
  <1>i. D \in SUBSET Elements /\ \A k \in DOMAIN plan.els : Id(k) \in Elements
    <2>1. ASSUME NEW k \in DOMAIN plan.els PROVE Id(k) \in Elements
      BY Zenon, KeyMatched
    <2> QED BY Zenon, <2>1
  <1>k. \A e \in D : Key(e) \in DOMAIN plan.els /\ Id(Key(e)) = e
    BY Zenon DEF KeyOf
  <1>d. deps \in Seq(Elements \X Elements \X BOOLEAN)
    <2>1. plan.deps \in Seq(Keys \X Keys \X BOOLEAN)
      BY Zenon DEF IsPlan
    <2>2. \A i \in DOMAIN plan.deps : plan.deps[i][1] \in DOMAIN plan.els /\ plan.deps[i][2] \in DOMAIN plan.els
      BY Zenon DEF ValidateRevision, Edges
    <2>3. \A i \in DOMAIN plan.deps : plan.deps[i][3] \in BOOLEAN
      BY <2>1
    <2> DEFINE T == Elements \X Elements \X BOOLEAN
               n == Len(plan.deps)
               E(i) == <<Id(plan.deps[i][1]), Id(plan.deps[i][2]), plan.deps[i][3]>>
    <2>4. \A i \in DOMAIN plan.deps : E(i) \in T
      BY Zenon, <1>i, <2>2, <2>3
    <2>5. DOMAIN plan.deps = 1 .. n /\ n \in Nat
      BY <2>1
    <2>6. deps = [i \in 1 .. n |-> E(i)]
      BY Zenon, <2>5
    <2> HIDE DEF E, T, n, deps
    <2>7. deps \in [1 .. n -> T]
      BY Zenon, <2>4, <2>5, <2>6
    <2>8. deps \in Seq(T)
      BY <2>5, <2>7
    <2> QED BY Zenon, <2>8 DEF T
  <1> HIDE DEF els, deps
  <1>4. \A e \in D : Fresh(active, Key(e), e, preserve, els[e])
    BY Zenon, <1>1, <1>k, ElementReconciled
  <1>5. IsRevision(cand) /\ cand # None /\ cand.els = els /\ cand.preserve = preserve
    <2>1. plan.scenario \in STRING
      BY Zenon DEF IsPlan
    <2>2. els \in [D -> ElementRows]
      BY Zenon, <1>2, <1>4 DEF Fresh
    <2> HIDE DEF D
    <2>3. cand \in Revisions(D) /\ cand.els = els /\ cand.preserve = preserve
      BY Zenon, <1>d, <2>1, <2>2 DEF Revisions
    <2> HIDE DEF cand
    <2> QED BY Zenon, <1>i, <2>3, RowAssumption DEF IsRevision
  <1>u. UniqueKeys(cand)
    <2>1. \A e \in D : els[e].key = Key(e)
      BY Zenon, <1>4 DEF Fresh
    <2>2. DOMAIN cand.els = D /\ cand.els = els
      BY Zenon, <1>2, <1>5
    <2>3. ASSUME NEW x \in D, NEW y \in D, Key(x) = Key(y) PROVE x = y
      <3>1. x = Id(Key(x)) /\ y = Id(Key(y))
        BY Zenon, <1>k
      <3> QED BY <2>3, <3>1
    <2> HIDE DEF D, Key, cand
    <2>4. \A x, y \in D : els[x].key = els[y].key => x = y
      BY <2>1, <2>3
    <2> QED BY <2>2, <2>4 DEF UniqueKeys
  <1> HIDE DEF cand, s
  <1>6. ASSUME active # None, preserve
        PROVE  IsRevision(s) /\ s # None /\ UniqueKeys(s) /\ Reviewed(active, s)
    <2>1. Loosened(active, cand, s)
      BY Zenon, <1>3, <1>5, <1>6, Invalidated
    <2>2. \A e \in DOMAIN s.els :
            /\ s.els[e].slot.cands = {}
            /\ s.els[e].slot.active # None => s.preserve /\ HasElement(active, e)
      <3>1. \A e \in DOMAIN cand.els :
              cand.els[e].slot.cands = {} /\ (cand.els[e].slot.active # None => HasElement(active, e))
        BY Zenon, <1>2, <1>4, <1>5 DEF Fresh
      <3>2. s.preserve
        BY Zenon, <1>5, <1>6, <2>1 DEF Loosened
      <3> QED BY Zenon, <2>1, <3>1, <3>2 DEF Loosened
    <2>3. ASSUME NEW e \in DOMAIN s.els, NEW d, HasElement(active, d), active.els[d].key = s.els[e].key
          PROVE  d = e /\ Succeeds(active.els[d], s.els[e])
      <3>1. e \in D /\ cand.els[e] = els[e] /\ s.els[e].key = els[e].key
            /\ s.els[e].rev = els[e].rev /\ s.els[e].prompt = els[e].prompt
        BY Zenon, <1>2, <1>5, <2>1 DEF Loosened
      <3>2. d = e /\ Succeeds(active.els[d], els[e])
        BY Zenon, <1>4, <2>3, <3>1 DEF Fresh
      <3> QED BY Zenon, <3>1, <3>2 DEF Succeeds
    <2>4. UniqueKeys(s)
      BY Zenon, <1>u, <2>1 DEF UniqueKeys, Loosened
    <2> QED BY Zenon, <2>1, <2>2, <2>3, <2>4 DEF Reviewed, Loosened
  <1>7. ASSUME ~(active # None /\ preserve)
        PROVE  IsRevision(s) /\ s # None /\ UniqueKeys(s) /\ Reviewed(active, s)
    <2>1. s = cand
      BY Zenon, <1>3, <1>7
    <2>2. Reviewed(active, cand)
      BY Zenon, <1>2, <1>4, <1>5 DEF Reviewed, Fresh
    <2> QED BY Zenon, <1>5, <1>u, <2>1, <2>2
  <1> QED BY Zenon, <1>6, <1>7 DEF s

LEMMA PlanFollows ==
  ASSUME NEW a, Sound(a), a.pending = None, NEW plan, IsPlan(plan), ValidateRevision(plan),
         NEW spec \in Nat, NEW preserve \in BOOLEAN, NEW id \in Requests
  PROVE  Follows(a, CreatePendingRevision(a, plan, spec, preserve, id), id)
  <1> DEFINE s == ReconcileRevision(a.active, plan, spec, preserve, id)
             n == [a EXCEPT !.pending = s]
  <1>1. IsAggregate(a) /\ IsShaped(a) /\ (a.active # None => IsRevision(a.active) /\ UniqueKeys(a.active))
    BY Zenon DEF Sound, IsAggregate
  <1>2. IsRevision(s) /\ s # None /\ UniqueKeys(s) /\ Reviewed(a.active, s)
    BY Zenon, <1>1, RevisionReconciled
  <1>3. CreatePendingRevision(a, plan, spec, preserve, id) = TouchCommand(n, id)
    BY Zenon DEF CreatePendingRevision
  <1> HIDE DEF s
  <1>4. /\ IsShaped(n) /\ n.active = a.active /\ n.pending = s /\ n.bindings = a.bindings
        /\ n.version = a.version /\ n.applied = a.applied
    BY Zenon, <1>1, SetPending
  <1> HIDE DEF n
  <1>5. Sound(n)
    BY Zenon, <1>1, <1>2, <1>4 DEF Sound, IsAggregate
  <1>6. Allowed(a, n)
    <2>1. KeepsLocks(a.active, n.active, {})
      BY Zenon, <1>1, <1>4, LocksOfSelf DEF Sound, IsAggregate
    <2> QED BY Zenon, <1>4, <2>1 DEF Allowed, AdoptsCurrent, KeepsAssets, KeepsLocks
  <1> QED BY Zenon, <1>3, <1>4, <1>5, <1>6, Touched

LEMMA DeclineFollows ==
  ASSUME NEW a, Sound(a), NEW id
  PROVE  Follows(a, RejectPendingRevision(a, id), id)
  <1> DEFINE n == [a EXCEPT !.pending = None]
  <1>1. IsAggregate(a) /\ IsShaped(a)
    BY Zenon DEF Sound, IsAggregate
  <1>2. RejectPendingRevision(a, id) = TouchCommand(n, id)
    BY Zenon DEF RejectPendingRevision
  <1>4. /\ IsShaped(n) /\ n.active = a.active /\ n.pending = None /\ n.bindings = a.bindings
        /\ n.version = a.version /\ n.applied = a.applied
    BY Zenon, <1>1, SetPending
  <1> HIDE DEF n
  <1>5. Sound(n)
    BY Zenon, <1>1, <1>4 DEF Sound, IsAggregate
  <1>6. Allowed(a, n)
    <2>1. KeepsLocks(a.active, n.active, {})
      BY Zenon, <1>1, <1>4, LocksOfSelf DEF Sound, IsAggregate
    <2> QED BY Zenon, <1>4, <2>1 DEF Allowed, AdoptsCurrent, KeepsAssets, KeepsLocks
  <1> QED BY Zenon, <1>2, <1>4, <1>5, <1>6, Touched

(* rebaseApprovedAssets: an asset of the promoted revision is the one that   *)
(* is active now, and every compatible one is kept.                          *)
Rebased(active, cand, s) ==
  /\ IsRevision(s) /\ s # None /\ DOMAIN s.els = DOMAIN cand.els
  /\ \A e \in DOMAIN cand.els :
       /\ s.els[e].key = cand.els[e].key
       /\ s.els[e].rev = cand.els[e].rev /\ s.els[e].prompt = cand.els[e].prompt
       /\ s.els[e].slot.cands = {}
       /\ s.els[e].slot.active # None =>
            HasElement(active, e) /\ s.els[e].slot.active = active.els[e].slot.active

KeepsApproved(active, cand, s) ==
  \A e \in DOMAIN active.els \cap DOMAIN cand.els :
    (/\ active.els[e].slot.status = "active" /\ GenerationCompatible(active.els[e], cand.els[e])
     /\ DependencySignature(active.deps, e) = DependencySignature(cand.deps, e))
    => s.els[e].slot.active = active.els[e].slot.active

LEMMA RebaseIs ==
  ASSUME NEW active, IsRevision(active), NEW cand, IsRevision(cand), Reviewed(active, cand)
  PROVE  LET s == RebaseApprovedAssets(active, cand)
         IN  Rebased(active, cand, s) /\ KeepsApproved(active, cand, s)
  <1> DEFINE Slot(e) == ReconcileAssetSlot(cand.els[e].slot, active.els[e].slot,
                                           GenerationCompatible(active.els[e], cand.els[e]))
             els == [e \in DOMAIN cand.els |->
                       IF HasElement(active, e) THEN [cand.els[e] EXCEPT !.slot = Slot(e)] ELSE cand.els[e]]
             c == [cand EXCEPT !.els = els]
             s == InvalidateDependencyIncompatibleSlots(active, c)
  <1>1. RebaseApprovedAssets(active, cand) = s
    BY Zenon DEF RebaseApprovedAssets
  <1>2. /\ \A e \in DOMAIN cand.els : cand.els[e] \in ElementRows /\ cand.els[e].slot \in Slots
        /\ \A e \in DOMAIN active.els : active.els[e] \in ElementRows /\ active.els[e].slot \in Slots
        /\ active # None
    BY Zenon, RevisionParts, ElementParts
  <1>3. ASSUME NEW e \in DOMAIN cand.els
        PROVE  /\ els[e] \in ElementRows /\ els[e].key = cand.els[e].key
               /\ els[e].rev = cand.els[e].rev /\ els[e].prompt = cand.els[e].prompt /\ els[e].slot.cands = {}
               /\ els[e].slot.active # None =>
                    HasElement(active, e) /\ els[e].slot.active = active.els[e].slot.active
               /\ HasElement(active, e) /\ GenerationCompatible(active.els[e], cand.els[e])
                    /\ active.els[e].slot.status = "active" => els[e].slot.active = active.els[e].slot.active
    <2> DEFINE x == cand.els[e]
               d == Slot(e)
    <2>1. els[e] = IF HasElement(active, e) THEN [x EXCEPT !.slot = d] ELSE x
      BY Zenon
    <2>2. CASE HasElement(active, e)
      <3>1. active.els[e].slot \in Slots /\ x \in ElementRows /\ x.slot \in Slots
        BY Zenon, <1>2, <2>2 DEF HasElement
      <3>2. /\ d \in Slots /\ d.cands = {} /\ d.active \in {None, active.els[e].slot.active}
            /\ GenerationCompatible(active.els[e], x) /\ active.els[e].slot.status = "active" =>
                 d.active = active.els[e].slot.active
        <4> DEFINE g == GenerationCompatible(active.els[e], x)
                   o == active.els[e].slot
                   f == x.slot
        <4>g. g \in BOOLEAN
          BY Zenon DEF GenerationCompatible
        <4> HIDE DEF g, o, f
        <4>1. /\ ReconcileAssetSlot(f, o, g) \in Slots /\ ReconcileAssetSlot(f, o, g).cands = {}
              /\ ReconcileAssetSlot(f, o, g).active \in {None, o.active}
              /\ g /\ o.status = "active" => ReconcileAssetSlot(f, o, g).active = o.active
          BY Zenon, <3>1, <4>g, SlotReconciled DEF o, f
        <4> QED BY Zenon, <4>1 DEF g, o, f
      <3> HIDE DEF d, els
      <3>3. /\ els[e] \in ElementRows /\ els[e].key = x.key
            /\ els[e].rev = x.rev /\ els[e].prompt = x.prompt /\ els[e].slot = d
        BY <2>1, <2>2, <3>1, <3>2, WithSlot
      <3> QED BY Zenon, <2>2, <3>2, <3>3
    <2>3. CASE ~HasElement(active, e)
      <3>1. x.slot.cands = {} /\ x.slot.active = None
        BY Zenon, <2>3 DEF Reviewed
      <3> HIDE DEF els
      <3> QED BY Zenon, <1>2, <2>1, <2>3, <3>1
    <2> QED BY Zenon, <2>2, <2>3
  <1>4. DOMAIN els = DOMAIN cand.els /\ els = [e \in DOMAIN cand.els |-> els[e]]
    BY Zenon
  <1> HIDE DEF els
  <1>5. IsRevision(c) /\ c.els = els /\ c.deps = cand.deps
    BY <1>3, <1>4, ElementsReplaced
  <1> HIDE DEF c
  <1>6. Loosened(active, c, s)
    BY Zenon, <1>5, Invalidated
  <1> HIDE DEF s
  <1>7. Rebased(active, cand, s)
    <2>1. SUFFICES ASSUME NEW e \in DOMAIN cand.els
                   PROVE  /\ s.els[e].key = cand.els[e].key
                          /\ s.els[e].rev = cand.els[e].rev /\ s.els[e].prompt = cand.els[e].prompt
                          /\ s.els[e].slot.cands = {}
                          /\ s.els[e].slot.active # None =>
                               HasElement(active, e) /\ s.els[e].slot.active = active.els[e].slot.active
      BY Zenon, <1>4, <1>5, <1>6 DEF Loosened, Rebased
    <2>2. /\ s.els[e].key = els[e].key /\ s.els[e].rev = els[e].rev /\ s.els[e].prompt = els[e].prompt
          /\ els[e].slot.cands = {} => s.els[e].slot.cands = {}
          /\ s.els[e].slot.active = None \/ s.els[e].slot.active = els[e].slot.active
      BY Zenon, <1>4, <1>5, <1>6 DEF Loosened
    <2> QED BY Zenon, <1>3, <2>2
  <1>8. KeepsApproved(active, cand, s)
    <2>1. SUFFICES ASSUME NEW e \in DOMAIN active.els \cap DOMAIN cand.els,
                          active.els[e].slot.status = "active", GenerationCompatible(active.els[e], cand.els[e]),
                          DependencySignature(active.deps, e) = DependencySignature(cand.deps, e)
                   PROVE  s.els[e].slot.active = active.els[e].slot.active
      BY Zenon DEF KeepsApproved
    <2>2. HasElement(active, e) /\ e \in DOMAIN cand.els
      BY Zenon, <1>2 DEF HasElement
    <2>3. els[e].slot.active = active.els[e].slot.active
      BY Zenon, <1>3, <2>1, <2>2
    <2>4. s.els[e].slot.active = c.els[e].slot.active
      BY Zenon, <1>4, <1>5, <1>6, <2>1, <2>2 DEF Loosened
    <2> QED BY Zenon, <1>5, <2>3, <2>4
  <1> QED BY Zenon, <1>1, <1>7, <1>8

LEMMA PreserveSet ==
  ASSUME NEW r, IsRevision(r)
  PROVE  LET s == [r EXCEPT !.preserve = FALSE] IN IsRevision(s) /\ s # None /\ s.els = r.els
  <1> DEFINE s == [r EXCEPT !.preserve = FALSE]
             D == DOMAIN r.els
  <1>1. /\ D \in SUBSET Elements
        /\ r \in Revisions(D)
    BY Zenon, RevisionParts
  <1> HIDE DEF D
  <1>2. s \in Revisions(D) /\ s.els = r.els
    BY Zenon, <1>1 DEF Revisions
  <1> HIDE DEF s
  <1> QED BY Zenon, <1>1, <1>2, RowAssumption DEF IsRevision, s

(* promotePendingRevision: the bindings the new revision names stay active,  *)
(* the others are superseded.                                                *)
LEMMA PromoteFollows ==
  ASSUME NEW a, Sound(a), a.pending # None, NEW id
  PROVE  Follows(a, PromotePendingRevision(a, id), id)
  <1> DEFINE r == a.active
             w == a.pending
             c == IF r # None /\ w.preserve THEN RebaseApprovedAssets(r, w) ELSE w
             s == [c EXCEPT !.preserve = FALSE]
             m == [a EXCEPT !.active = s, !.pending = None]
             referenced == UNION {{s.els[e].slot.active} \cup s.els[e].slot.cands : e \in DOMAIN s.els}
             live == {b \in BindingIDs(m) : BindingByID(m, b).state \in {"candidate", "active"}}
             gone == live \ referenced
             bs == SetBindingState(m.bindings, gone, "superseded")
             n == [m EXCEPT !.bindings = bs]
  <1>1. /\ IsAggregate(a) /\ IsShaped(a) /\ UniqueIds(a.bindings) /\ IsRevision(w)
        /\ r # None => IsRevision(r)
        /\ Reviewed(r, w) /\ \A i \in DOMAIN a.bindings : IsBinding(a.bindings[i])
    BY Zenon DEF Sound, IsAggregate
  <1>2. PromotePendingRevision(a, id) = TouchCommand(n, id)
    BY Zenon DEF PromotePendingRevision, SupersedeUnreferencedBindings
  <1>3. Rebased(r, w, c) /\ (r # None /\ w.preserve => KeepsApproved(r, w, c))
    <2>1. CASE r # None /\ w.preserve
      BY Zenon, <1>1, <2>1, RebaseIs
    <2>2. CASE ~(r # None /\ w.preserve)
      <3>1. \A e \in DOMAIN w.els : w.els[e].slot.cands = {} /\ w.els[e].slot.active = None
        BY Zenon, <1>1, <2>2 DEF Reviewed, HasElement
      <3> QED BY Zenon, <1>1, <2>2, <3>1 DEF Rebased
    <2> QED BY Zenon, <2>1, <2>2
  <1> HIDE DEF c
  <1>4. IsRevision(s) /\ s # None /\ s.els = c.els
    BY Zenon, <1>3, PreserveSet DEF Rebased
  <1> HIDE DEF s
  <1>5. /\ Rebased(r, w, s) /\ (r # None /\ w.preserve => KeepsApproved(r, w, s))
    BY ZenonT(60), <1>3, <1>4 DEF Rebased, KeepsApproved
  <1>6. /\ IsShaped(m) /\ m.active = s /\ m.pending = None /\ m.bindings = a.bindings
        /\ m.version = a.version /\ m.applied = a.applied
    BY Zenon, <1>1 DEF IsShaped
  <1> HIDE DEF m
  <1>7. \A i \in DOMAIN a.bindings :
          a.bindings[i].id \in live <=> a.bindings[i].state \in {"candidate", "active"}
    <2>1. \A i \in DOMAIN a.bindings : BindingByID(m, a.bindings[i].id) = a.bindings[i]
                                       /\ a.bindings[i].id \in BindingIDs(m)
      BY Zenon, <1>1, <1>6, ByID
    <2> QED BY Zenon, <2>1
  <1>8. \A x : x \in referenced <=> \E e \in DOMAIN s.els : x = s.els[e].slot.active
    BY <1>5 DEF Rebased
  <1> HIDE DEF live, referenced
  <1>9. /\ DOMAIN bs = DOMAIN a.bindings /\ bs = [i \in DOMAIN bs |-> bs[i]]
        /\ \A i \in DOMAIN a.bindings :
             /\ IsBinding(bs[i]) /\ bs[i].id = a.bindings[i].id /\ bs[i].target = a.bindings[i].target
             /\ a.bindings[i].id \notin gone => bs[i] = a.bindings[i]
             /\ a.bindings[i].id \in gone => bs[i].state = "superseded"
    <2> HIDE DEF gone
    <2> QED BY <1>1, <1>6, StatesSet
  <1> HIDE DEF bs
  <1>10. /\ IsShaped(n) /\ n.active = s /\ n.pending = None /\ n.bindings = bs
         /\ n.version = a.version /\ n.applied = a.applied
    BY <1>6, SetBindings
  <1> HIDE DEF n
  <1>11. bs \in Seq({bs[i] : i \in DOMAIN bs}) /\ UniqueIds(bs)
    <2>1. bs \in Seq({bs[i] : i \in DOMAIN bs})
      BY <1>1, <1>9, BindingsReplaced
    <2> QED BY <1>1, <1>9, <2>1 DEF UniqueIds
  <1>12. IsAggregate(n)
    BY <1>4, <1>9, <1>10, <1>11 DEF IsAggregate
  <1>13. ASSUME NEW e \in DOMAIN s.els, s.els[e].slot.active # None
         PROVE  \E i \in DOMAIN a.bindings :
                  /\ a.bindings[i].id = s.els[e].slot.active /\ a.bindings[i].target = e
                  /\ a.bindings[i].state = "active" /\ bs[i] = a.bindings[i]
    <2>1. HasElement(r, e) /\ s.els[e].slot.active = r.els[e].slot.active
      BY Zenon, <1>5, <1>13 DEF Rebased
    <2>2. PICK i \in DOMAIN a.bindings :
            a.bindings[i].id = s.els[e].slot.active /\ a.bindings[i].target = e /\ a.bindings[i].state = "active"
      BY <1>13, <2>1 DEF Sound, Backed, HasElement
    <2>3. a.bindings[i].id \notin gone
      BY Zenon, <1>8, <2>2
    <2> QED BY Zenon, <1>9, <2>2, <2>3
  <1>14. ASSUME NEW i \in DOMAIN bs PROVE InSlot(s, bs[i])
    <2>1. SUFFICES ASSUME bs[i].state \in {"candidate", "active"}
                   PROVE  /\ bs[i].target \in DOMAIN s.els /\ bs[i].state = "active"
                          /\ bs[i].id = s.els[bs[i].target].slot.active
      BY Zenon, <1>4 DEF InSlot
    <2>2. a.bindings[i].id \notin gone /\ bs[i] = a.bindings[i] /\ i \in DOMAIN a.bindings
      BY Zenon, <1>9, <2>1
    <2>3. a.bindings[i].id \in referenced
      BY Zenon, <1>7, <2>1, <2>2
    <2>4. PICK e \in DOMAIN s.els : a.bindings[i].id = s.els[e].slot.active
      BY Zenon, <1>8, <2>3
    <2>5. a.bindings[i].id # None
      BY Zenon, <1>1, <2>2, RowAssumption DEF IsBinding
    <2>6. PICK j \in DOMAIN a.bindings :
            a.bindings[j].id = s.els[e].slot.active /\ a.bindings[j].target = e /\ a.bindings[j].state = "active"
      BY Zenon, <1>13, <2>4, <2>5
    <2>7. j = i
      BY Zenon, <1>1, <2>2, <2>4, <2>6 DEF UniqueIds
    <2> QED BY Zenon, <2>2, <2>4, <2>6, <2>7
  <1>15. ASSUME NEW e \in DOMAIN s.els PROVE Backed(bs, e, s.els[e].slot)
    <2>1. s.els[e].slot.cands = {}
      BY Zenon, <1>5 DEF Rebased
    <2> QED BY <1>9, <1>13, <2>1 DEF Backed
  <1>u. UniqueKeys(s)
    <2>1. UniqueKeys(w)
      BY Zenon DEF Sound
    <2> QED BY Zenon, <1>5, <2>1 DEF UniqueKeys, Rebased
  <1>16. Sound(n)
    BY Zenon, <1>4, <1>10, <1>11, <1>12, <1>14, <1>15, <1>u DEF Sound
  <1>17. AdoptsCurrent(a, n)
    <2>1. \A i \in DOMAIN a.bindings : i \in DOMAIN bs /\ bs[i].id = a.bindings[i].id
                                       /\ (bs[i].state = "active" => a.bindings[i].state = "active")
      BY Zenon, <1>9
    <2> QED BY Zenon, <1>10, <2>1 DEF AdoptsCurrent
  <1>18. KeepsLocks(a.active, n.active, {}) /\ KeepsLocks(a.pending, n.pending, Exempt(a))
    <2>1. \A e \in DOMAIN w.els : s.els[e].prompt = w.els[e].prompt /\ s.els[e].key = w.els[e].key
      BY Zenon, <1>5 DEF Rebased
    <2>2. \A x, y : /\ HasElement(r, x) /\ y \in DOMAIN w.els /\ r.els[x].key = w.els[y].key
                    => KeepsLock(r.els[x].prompt, w.els[y].prompt)
      BY Zenon, <1>1 DEF Reviewed, Succeeds
    <2>3. DOMAIN s.els = DOMAIN w.els
      BY Zenon, <1>5 DEF Rebased
    <2> QED BY Zenon, <1>10, <2>1, <2>2, <2>3 DEF KeepsLocks, HasElement
  <1>19. KeepsAssets(a, n)
    BY Zenon, <1>5, <1>10 DEF KeepsAssets, KeepsApproved
  <1> QED BY Zenon, <1>2, <1>10, <1>16, <1>17, <1>18, <1>19, Touched DEF Allowed

(* Element f has the same revision numbers and the same lock in r and in s.  *)
LeavesAlone(r, s, f) ==
  /\ HasElement(s, f) /\ s.els[f].rev = r.els[f].rev
  /\ s.els[f].prompt.rev = r.els[f].prompt.rev /\ s.els[f].prompt.locked = r.els[f].prompt.locked

(* updatePrompt leaves the other elements of the active revision as they     *)
(* were, stale or not.                                                       *)
LEMMA PromptOthers ==
  ASSUME NEW a, Sound(a), NEW e, HasElement(ReviewRevision(a), e), NEW text \in STRING, NEW locked \in BOOLEAN,
         e \in Exempt(a) \/ (ReviewRevision(a).els[e].prompt.locked => locked), NEW id, NEW f, f # e, HasElement(a.active, f)
  PROVE  LeavesAlone(a.active, UpdatePrompt(a, e, text, locked, id).active, f)
  <1> DEFINE r == ReviewRevision(a)
             old == r.els[e]
             p == [text |-> text, rev |-> old.prompt.rev + 1, locked |-> locked,
                   status |-> IF text = "" THEN "missing" ELSE "ready"]
             w == [old EXCEPT !.prompt = p]
             x == IF w.key \in Named THEN MarkElementAssetSlotsStale(w) ELSE w
             s == PutElement(r, e, x)
             m == MarkDependencyClosure(s, e)
             b == WithReview(a, m)
             c == SupersedeInvalidCandidates(b)
             n == TouchCommand(c, id)
  <1>1. r # None /\ IsRevision(r) /\ e \in DOMAIN r.els /\ old \in ElementRows
    BY Zenon, ReviewIsRevision, RevisionParts DEF HasElement
  <1>2. UpdatePrompt(a, e, text, locked, id) = n
    BY Zenon DEF UpdatePrompt
  <1>3. p \in Prompts /\ p.rev = old.prompt.rev + 1 /\ p.locked = locked
    BY <1>1, ElementParts DEF Prompts
  <1>l. e \in Exempt(a) \/ (old.prompt.locked => locked)
    BY Zenon
  <1> HIDE DEF r, old, p
  <1>4. w \in ElementRows /\ w.key = old.key /\ w.rev = old.rev /\ w.prompt = p /\ w.slot = old.slot
    BY Zenon, <1>1, <1>3, WithPrompt
  <1> HIDE DEF w
  <1>5. Alike(w, x)
    BY Zenon, <1>4, MarkedAlike
  <1> HIDE DEF x
  <1>6. /\ x \in ElementRows /\ x.key = old.key /\ (e \in Exempt(a) \/ Succeeds(old, x))
        /\ x.slot.active = old.slot.active /\ x.slot.cands = old.slot.cands
    BY <1>1, <1>3, <1>4, <1>5, <1>l, ElementParts DEF Alike, Succeeds, KeepsLock
  <1>7. Edited(r, m, Exempt(a))
    BY Zenon, <1>1, <1>6, ElementEdited DEF old
  <1>8. IsRevision(s) /\ DOMAIN s.els = DOMAIN r.els /\ (f \in DOMAIN r.els => s.els[f] = r.els[f])
    BY <1>1, <1>6, Put
  <1> HIDE DEF s
  <1>9. DOMAIN m.els = DOMAIN r.els /\ m # None /\ (f \in DOMAIN r.els => Alike(r.els[f], m.els[f]))
    BY Zenon, <1>8, ClosureMarked
  <1> HIDE DEF m
  <1>10. Sound(b)
    BY Zenon, <1>1, <1>7, EditIsSound DEF r
  <1>11. LeavesAlone(a.active, b.active, f)
    <2>1. IsShaped(a)
      BY Zenon DEF Sound, IsAggregate
    <2>2. CASE a.pending # None
      <3>1. b.active = a.active
        BY Zenon, <2>1, <2>2, SetPending DEF WithReview
      <3> QED BY Zenon, <3>1 DEF LeavesAlone
    <2>3. CASE a.pending = None
      <3>1. b.active = m /\ r = a.active
        BY Zenon, <2>1, <2>3, SetActive DEF WithReview, r, ReviewRevision
      <3> QED BY Zenon, <1>9, <3>1 DEF HasElement, Alike, LeavesAlone
    <2> QED BY Zenon, <2>2, <2>3
  <1> HIDE DEF b
  <1>12. Sound(c) /\ Trimmed(b, c)
    BY Zenon, <1>10, InvalidIs
  <1> HIDE DEF c
  <1>13. n.active = c.active
    BY Zenon, <1>12 DEF TouchCommand, Sound, IsAggregate, IsShaped
  <1> HIDE DEF n
  <1> QED BY Zenon, <1>2, <1>11, <1>12, <1>13 DEF Trimmed, HasElement, LeavesAlone

-----------------------------------------------------------------------------
(* Steps *)

(* The rows stay, or they are those of a command on the current version. *)
Stepped ==
  \/ UNCHANGED <<agg, events>>
  \/ /\ Sound(agg') /\ Allowed(agg, agg') /\ agg'.version = agg.version + 1
     /\ events' = agg'.applied /\ None \notin agg'.applied

Good == Stepped /\ SlowInv' /\ FillInv' /\ confirmed' \in Nat

(* SaveAggregate: a command on an older version is not saved, and neither    *)
(* store writes the rows without the event.                                  *)
LEMMA Saved ==
  ASSUME StoryboardInv, NEW next, NEW before \in Nat, NEW id, Save(next, before, id),
         before = agg.version => Follows(agg, next, id)
  PROVE  Stepped
  <1>1. events = agg.applied /\ None \notin agg.applied
    BY Zenon DEF StoryboardInv
  <1>2. CASE UNCHANGED <<agg, events>>
    BY Zenon, <1>2 DEF Stepped
  <1>3. CASE agg.version = before /\ agg' = next /\ events' = events \cup ({id} \ {None})
    BY Zenon, <1>1, <1>3 DEF Stepped, Follows
  <1>4. CASE Store = "postgres"
    <2>1. SaveAggregatePostgres(next, before, id)
      BY Zenon, <1>4 DEF Save
    <2>2. CASE next.version = before + 1 /\ agg.version = before /\ id \notin events
      BY Zenon, <1>3, <2>1, <2>2 DEF SaveAggregatePostgres
    <2>3. CASE ~(next.version = before + 1 /\ agg.version = before /\ id \notin events)
      <3>1. agg' = agg
        BY Zenon, <2>1, <2>3 DEF SaveAggregatePostgres
      <3>2. events' = events
        BY Zenon, <2>1, <2>3 DEF SaveAggregatePostgres
      <3> QED BY Zenon, <1>2, <3>1, <3>2
    <2> QED BY Zenon, <2>2, <2>3
  <1>5. CASE Store # "postgres"
    BY Zenon, <1>2, <1>3, <1>5 DEF Save, SaveAggregate
  <1> QED BY Zenon, <1>4, <1>5

(* A waiting handler's command stays applicable, or has become too old. *)
LEMMA SlowStays ==
  ASSUME StoryboardInv, Stepped, slow' = slow
  PROVE  SlowInv'
  <1>1. agg.version \in Nat /\ SlowInv
    BY Zenon DEF StoryboardInv, Sound, IsAggregate, IsShaped
  <1>2. CASE UNCHANGED <<agg, events>>
    BY Zenon, <1>1, <1>2 DEF SlowInv
  <1>3. CASE agg'.version = agg.version + 1
    BY <1>1, <1>3 DEF SlowInv
  <1> QED BY Zenon, <1>2, <1>3 DEF Stepped

LEMMA FillStays ==
  ASSUME StoryboardInv, Stepped, fill' = fill
  PROVE  FillInv'
  <1>1. agg.version \in Nat /\ FillInv
    BY Zenon DEF StoryboardInv, Sound, IsAggregate, IsShaped
  <1>2. CASE UNCHANGED <<agg, events>>
    BY Zenon, <1>1, <1>2 DEF FillInv
  <1>3. CASE agg'.version = agg.version + 1
    BY <1>1, <1>3 DEF FillInv
  <1> QED BY <1>2, <1>3 DEF Stepped

LEMMA Submitted ==
  ASSUME StoryboardInv, NEW kind, NEW next, NEW id, Submit(kind, next, id), Follows(agg, next, id)
  PROVE  Stepped /\ SlowInv'
  <1>1. agg.version \in Nat
    BY Zenon DEF StoryboardInv, Sound, IsAggregate, IsShaped
  <1>2. CASE Save(next, agg.version, id) /\ UNCHANGED slow
    <2>1. Stepped
      BY Zenon, <1>1, <1>2, Saved
    <2> QED BY Zenon, <1>2, <2>1, SlowStays
  <1>3. CASE UNCHANGED <<agg, events>> /\ slow' = [next |-> next, before |-> agg.version, id |-> id]
    <2>1. Stepped
      BY Zenon, <1>3 DEF Stepped
    <2>2. slow'.before = agg.version /\ slow'.next = next /\ slow'.id = id /\ agg' = agg
      BY Zenon, <1>3
    <2> QED BY <1>1, <2>1, <2>2 DEF SlowInv
  <1> QED BY Zenon, <1>2, <1>3 DEF Submit

(* A command that leaves fill and the spec alone *)
LEMMA CommandGood ==
  ASSUME StoryboardInv, NEW kind, NEW next, NEW id, Submit(kind, next, id), Follows(agg, next, id),
         UNCHANGED <<fill, confirmed>>
  PROVE  Good
  <1>1. Stepped /\ SlowInv'
    BY Zenon, Submitted
  <1>2. FillInv'
    BY Zenon, <1>1, FillStays
  <1> QED BY Zenon, <1>1, <1>2 DEF Good, StoryboardInv

(* A step that leaves the rows and the handlers alone *)
LEMMA RestGood ==
  ASSUME StoryboardInv, UNCHANGED <<agg, events, slow, fill>>, confirmed' \in Nat
  PROVE  Good
  <1>1. Stepped
    BY Zenon DEF Stepped
  <1> QED BY Zenon, <1>1, SlowStays, FillStays DEF Good

(* fillMissingPrompts, before and after the model call *)
LEMMA FillReadGood ==
  ASSUME StoryboardInv, NEW t, FillRead(t) \/ FillRecheck
  PROVE  Good
  <1>1. UNCHANGED <<agg, events, slow, confirmed>>
    BY Zenon DEF FillRead, FillRecheck
  <1>2. Stepped /\ agg.version \in Nat /\ FillInv
    BY Zenon, <1>1 DEF Stepped, StoryboardInv, Sound, IsAggregate, IsShaped
  <1>3. SlowInv'
    BY Zenon, <1>1, <1>2, SlowStays
  <1>4. CASE FillRead(t)
    <2> DEFINE seen == [e \in FillTargets |-> <<agg.active.els[e].rev, agg.active.els[e].prompt.rev>>]
    <2>1. fill' = [turn |-> t, todo |-> FillTargets, base |-> None, seen |-> seen]
      BY Zenon, <1>4 DEF FillRead
    <2> HIDE DEF seen
    <2>2. FillInv'
      BY Zenon, <2>1 DEF FillInv
    <2> QED BY Zenon, <1>1, <1>2, <1>3, <2>2 DEF Good, StoryboardInv
  <1>5. CASE FillRecheck
    <2> DEFINE Unlocked == {e \in fill.todo : HasElement(agg.active, e) /\ ~agg.active.els[e].prompt.locked}
               v == agg.version
               new == [fill EXCEPT !.todo = Unlocked, !.base = v]
    <2>1. /\ fill # None /\ \/ fill' = None
                            \/ /\ fill' = new
                               /\ \A e \in Unlocked :
                                    fill.seen[e] = <<agg.active.els[e].rev, agg.active.els[e].prompt.rev>>
      BY Zenon, <1>5 DEF FillRecheck
    <2>2. Unlocked = {e \in fill.todo : HasElement(agg.active, e) /\ ~agg.active.els[e].prompt.locked}
      BY Zenon
    <2> HIDE DEF Unlocked, v
    <2>3. fill \in [turn : {fill.turn}, todo : {fill.todo}, base : {fill.base}, seen : {fill.seen}]
      BY Zenon, <1>2, <2>1 DEF FillInv
    <2>4. new \in [turn : {new.turn}, todo : {new.todo}, base : {new.base}, seen : {new.seen}]
          /\ new.todo = Unlocked /\ new.base = v /\ new.seen = fill.seen
      BY Zenon, <2>3
    <2> HIDE DEF new
    <2>5. CASE fill' = None
      <3>1. FillInv'
        BY Zenon, <2>5 DEF FillInv
      <3> QED BY <1>1, <1>2, <1>3, <3>1 DEF Good, StoryboardInv
    <2>6. CASE fill' # None
      <3>1. Recent(agg.active, Unlocked, fill.seen)
        BY Zenon, <2>1, <2>2, <2>6 DEF Recent
      <3>2. fill' = new /\ agg' = agg /\ v \in Nat /\ v = agg.version
        BY Zenon, <1>1, <1>2, <2>1, <2>6 DEF v
      <3>3. FillInv'
        BY <2>4, <3>1, <3>2 DEF FillInv
      <3> QED BY <1>1, <1>2, <1>3, <3>3 DEF Good, StoryboardInv
    <2> QED BY Zenon, <2>5, <2>6
  <1> QED BY Zenon, <1>4, <1>5

(* A prompt that was not locked when it was checked is not locked in the     *)
(* version it is written on, neither in the active revision nor in a plan    *)
(* that knows the element under the same key.                                *)
LEMMA FillTargetUnlocked ==
  ASSUME StoryboardInv, NEW e, fill # None, fill.base # None, e \in fill.todo, FillAccepted(e)
  PROVE  /\ HasElement(ReviewRevision(agg), e)
         /\ e \in Exempt(agg) \/ ~ReviewRevision(agg).els[e].prompt.locked
  <1> DEFINE r == ReviewRevision(agg)
  <1>1. /\ agg.version = fill.base /\ HasElement(r, e)
        /\ fill.seen[e] = <<r.els[e].rev, r.els[e].prompt.rev>>
    BY Zenon DEF FillAccepted
  <1>2. /\ HasElement(agg.active, e) /\ ~agg.active.els[e].prompt.locked
        /\ fill.seen[e] = <<agg.active.els[e].rev, agg.active.els[e].prompt.rev>>
    BY Zenon, <1>1 DEF StoryboardInv, FillInv, Recent
  <1>3. r.els[e].rev = agg.active.els[e].rev /\ r.els[e].prompt.rev = agg.active.els[e].prompt.rev
    BY <1>1, <1>2
  <1>4. CASE agg.pending = None
    BY Zenon, <1>1, <1>2, <1>4 DEF ReviewRevision
  <1>5. CASE agg.pending # None
    <2>1. r = agg.pending /\ Reviewed(agg.active, agg.pending)
      BY Zenon, <1>5 DEF ReviewRevision, StoryboardInv, Sound
    <2>2. CASE agg.active.els[e].key = r.els[e].key
      <3>1. Succeeds(agg.active.els[e], r.els[e])
        BY Zenon, <1>1, <1>2, <2>1, <2>2 DEF Reviewed, HasElement
      <3> QED BY Zenon, <1>1, <1>2, <1>3, <3>1 DEF Succeeds
    <2>3. CASE agg.active.els[e].key # r.els[e].key
      <3>1. Reassigned(agg, e)
        BY Zenon, <1>1, <1>2, <2>1, <2>3 DEF Reassigned
      <3>2. e \in Elements
        BY Zenon, <1>2, RevisionParts DEF StoryboardInv, Sound, IsAggregate, HasElement
      <3> QED BY Zenon, <1>1, <3>1, <3>2 DEF Exempt
    <2> QED BY Zenon, <2>2, <2>3
  <1> QED BY Zenon, <1>4, <1>5

LEMMA FillWriteGood ==
  ASSUME StoryboardInv, NEW e, NEW text \in STRING, FillWrite(e, text)
  PROVE  Good
  <1> DEFINE id == <<"fill", fill.turn, e>>
             next == UpdatePrompt(agg, e, text, FALSE, id)
  <1>1. fill # None /\ fill.base # None /\ e \in fill.todo /\ UNCHANGED confirmed
    BY Zenon DEF FillWrite
  <1>2. /\ Sound(agg) /\ agg.version \in Nat /\ FillInv /\ confirmed \in Nat
        /\ events = agg.applied /\ None \notin events
    BY Zenon DEF StoryboardInv, Sound, IsAggregate, IsShaped
  <1>3. CASE ~(FillAccepted(e) /\ id \notin agg.applied)
    <2>1. fill' = None /\ UNCHANGED <<agg, events, slow>>
      BY Zenon, <1>3 DEF FillWrite
    <2>2. Stepped /\ FillInv'
      BY Zenon, <2>1 DEF Stepped, FillInv
    <2> QED BY Zenon, <1>1, <1>2, <2>1, <2>2, SlowStays DEF Good
  <1>4. CASE FillAccepted(e) /\ id \notin agg.applied
    <2> DEFINE todo == fill.todo \ {e}
               base == fill.base + 1
               new == [fill EXCEPT !.todo = todo, !.base = base]
    <2>1. Submit("fill", next, id) /\ fill' = new
      BY Zenon, <1>4 DEF FillWrite
    <2>2. /\ HasElement(ReviewRevision(agg), e)
          /\ e \in Exempt(agg) \/ ~ReviewRevision(agg).els[e].prompt.locked
      BY Zenon, <1>1, <1>4, FillTargetUnlocked
    <2>3. Follows(agg, next, id)
      BY Zenon, <1>2, <2>2, PromptFollows
    <2>4. ASSUME NEW f, f # e, HasElement(agg.active, f)
          PROVE  LeavesAlone(agg.active, next.active, f)
      BY Zenon, <1>2, <2>2, <2>4, PromptOthers
    <2> HIDE DEF next, id
    <2>5. Stepped /\ SlowInv'
      BY Zenon, <2>1, <2>3, Submitted
    <2>6. agg' = next
      <3>1. Save(next, agg.version, id)
        BY Zenon, <2>1, ServiceAssumption DEF Submit
      <3>2. next.version = agg.version + 1 /\ id \notin events
        BY Zenon, <1>2, <1>4, <2>3 DEF Follows
      <3> QED BY Zenon, <3>1, <3>2 DEF Save, SaveAggregate, SaveAggregatePostgres
    <2>7. /\ fill \in [turn : {fill.turn}, todo : {fill.todo}, base : {fill.base}, seen : {fill.seen}]
          /\ fill.base = agg.version /\ Recent(agg.active, fill.todo, fill.seen)
      BY Zenon, <1>1, <1>2, <1>4 DEF FillInv, FillAccepted
    <2>8. agg'.version = base /\ base \in Nat
      BY <1>2, <2>3, <2>6, <2>7 DEF Follows
    <2>9. \A f : f \in todo => f \in fill.todo /\ f # e
      BY Zenon
    <2> HIDE DEF todo, base
    <2>10. new \in [turn : {new.turn}, todo : {new.todo}, base : {new.base}, seen : {new.seen}]
           /\ new.todo = todo /\ new.base = base /\ new.seen = fill.seen
      BY Zenon, <2>7
    <2> HIDE DEF new
    <2>11. Recent(next.active, todo, fill.seen)
      BY Zenon, <2>4, <2>7, <2>9 DEF Recent, LeavesAlone
    <2>12. FillInv'
      BY <2>1, <2>6, <2>8, <2>10, <2>11 DEF FillInv
    <2> QED BY Zenon, <1>1, <1>2, <2>5, <2>12 DEF Good
  <1> QED BY Zenon, <1>3, <1>4

(* A handler that was overtaken saves nothing. *)
LEMMA FinishGood ==
  ASSUME StoryboardInv, FinishSlow
  PROVE  Good
  <1>1. /\ slow # None /\ Save(slow.next, slow.before, slow.id) /\ slow' = None /\ UNCHANGED <<fill, confirmed>>
    BY Zenon DEF FinishSlow
  <1>2. slow.before \in Nat /\ (slow.before = agg.version => Follows(agg, slow.next, slow.id))
    BY Zenon, <1>1 DEF StoryboardInv, SlowInv
  <1>3. Stepped
    BY Zenon, <1>1, <1>2, Saved
  <1>4. SlowInv'
    BY Zenon, <1>1 DEF SlowInv
  <1> QED BY Zenon, <1>1, <1>3, <1>4, FillStays DEF Good, StoryboardInv

(* Every step *)
LEMMA StepGood ==
  ASSUME StoryboardInv, Next
  PROVE  Good
  <1>0. Sound(agg) /\ confirmed \in Nat
    BY Zenon DEF StoryboardInv
  <1>1. CASE FinishSlow
    BY Zenon, <1>1, FinishGood
  <1>2. CASE PromoteRevision
    <2>1. \A id : Follows(agg, PromotePendingRevision(agg, id), id)
      BY Zenon, <1>0, <1>2, PromoteFollows DEF PromoteRevision
    <2> QED BY Zenon, <1>2, <2>1, CommandGood DEF PromoteRevision, Quiet
  <1>3. CASE RejectRevision
    <2>1. \A id : Follows(agg, RejectPendingRevision(agg, id), id)
      BY Zenon, <1>0, DeclineFollows
    <2> QED BY Zenon, <1>3, <2>1, CommandGood DEF RejectRevision, Quiet
  <1>4. CASE ConfirmSpec
    BY <1>0, <1>4, RestGood DEF ConfirmSpec
  <1>5. CASE EditModule
    <2>1. Follows(agg, MutateModule(agg), None)
      BY Zenon, <1>0, <1>5, ModuleFollows DEF EditModule
    <2> QED BY Zenon, <1>5, <2>1, CommandGood DEF EditModule, Quiet
  <1>6. ASSUME NEW q \in Requests, NEW plan \in Plans, NEW preserve \in BOOLEAN, PlanStoryboard(q, plan, preserve)
        PROVE  Good
    <2>1. Follows(agg, CreatePendingRevision(agg, plan, confirmed, preserve, q), q)
      BY Zenon, <1>0, <1>6, PlanFollows, RowAssumption DEF PlanStoryboard
    <2> QED BY Zenon, <1>6, <2>1, CommandGood DEF PlanStoryboard, Quiet
  <1>7. ASSUME NEW e \in Elements, NEW field \in Fields, NEW v \in Values, EditElement(e, field, v)
        PROVE  Good
    <2>1. Follows(agg, ApplyMutation(agg, e, field, v), None)
      BY Zenon, <1>0, <1>7, MutationFollows, ServiceAssumption DEF EditElement
    <2> QED BY Zenon, <1>7, <2>1, CommandGood DEF EditElement, Quiet
  <1>8. ASSUME NEW e \in Elements, NEW text \in Texts, EditPrompt(e, text)
        PROVE  Good
    <2>1. \A id : Follows(agg, UpdatePrompt(agg, e, text, TRUE, id), id)
      BY Zenon, <1>0, <1>8, PromptFollows, ServiceAssumption DEF EditPrompt
    <2> QED BY Zenon, <1>8, <2>1, CommandGood DEF EditPrompt, Quiet
  <1>9. ASSUME NEW t, FillRead(t) \/ FillRecheck
        PROVE  Good
    BY Zenon, <1>9, FillReadGood
  <1>10. ASSUME NEW e \in Elements, NEW text \in Texts, FillWrite(e, text)
         PROVE  Good
    BY Zenon, <1>10, FillWriteGood, ServiceAssumption
  <1>11. ASSUME NEW r \in Regenerations, NEW e \in Elements, RegenerateTarget(r, e)
         PROVE  Good
    <2>1. /\ agg.pending = None /\ HasElement(agg.active, e) /\ UNCHANGED <<fill, confirmed>>
          /\ Submit("regenerate", RegenerateAsset(agg, e, <<"epoch", r>>), <<"epoch", r>>)
      BY Zenon, <1>11 DEF RegenerateTarget, MayGenerate
    <2>2. Follows(agg, RegenerateAsset(agg, e, <<"epoch", r>>), <<"epoch", r>>)
      BY Zenon, <1>0, <2>1, RegenerateFollows
    <2> QED BY Zenon, <2>1, <2>2, CommandGood
  <1>12. ASSUME NEW j \in Jobs, NEW e \in Elements, GenerateMedia(j, e)
         PROVE  Good
    <2>1. UNCHANGED <<agg, events, slow, confirmed>> /\ fill' = None
      BY Zenon, <1>12 DEF GenerateMedia
    <2>2. Stepped /\ FillInv'
      BY Zenon, <2>1 DEF Stepped, FillInv
    <2> QED BY Zenon, <1>0, <2>1, <2>2, SlowStays DEF Good
  <1>13. ASSUME NEW j \in Jobs, NEW token \in snapshots, CreateTargetRegenerationWorkflow(j, token)
         PROVE  Good
    BY Zenon, <1>0, <1>13, RestGood DEF CreateTargetRegenerationWorkflow
  <1>14. ASSUME NEW j \in Jobs, CommitJob(j)
         PROVE  Good
    <2>1. j \in Ids /\ j \notin BindingIDs(agg) /\ HasElement(agg.active, jobs[j].target)
      BY Zenon, <1>14 DEF CommitJob, InFlight, TokenMatches, Ids
    <2>2. Follows(agg, BindAsset(agg, j, jobs[j], <<"bind", j>>), <<"bind", j>>)
      BY Zenon, <1>0, <2>1, BindFollows
    <2> QED BY Zenon, <1>14, <2>2, CommandGood DEF CommitJob, Quiet
  <1>15. ASSUME NEW j \in Jobs, DropJob(j)
         PROVE  Good
    BY Zenon, <1>0, <1>15, RestGood DEF DropJob
  <1>16. ASSUME NEW b \in Jobs \cup Uploads, AdoptCandidate(b)
         PROVE  Good
    <2>1. Follows(agg, ActivateBinding(agg, b, <<"activate", b>>), <<"activate", b>>)
      BY Zenon, <1>0, <1>16, ActivateFollows DEF AdoptCandidate
    <2> QED BY Zenon, <1>16, <2>1, CommandGood DEF AdoptCandidate, Quiet
  <1>17. ASSUME NEW b \in Jobs \cup Uploads, DeclineCandidate(b)
         PROVE  Good
    <2>1. Follows(agg, RejectBinding(agg, b, <<"reject", b>>), <<"reject", b>>)
      BY Zenon, <1>0, <1>17, RejectFollows DEF DeclineCandidate
    <2> QED BY Zenon, <1>17, <2>1, CommandGood DEF DeclineCandidate, Quiet
  <1>18. ASSUME NEW u \in Uploads, NEW e \in Elements, BindTargetAsset(u, e)
         PROVE  Good
    <2> DEFINE token == ResolveGenerationInput(agg, e)
    <2>1. token.target = e
      BY Zenon DEF ResolveGenerationInput
    <2>2. /\ u \in Ids /\ u \notin BindingIDs(agg) /\ HasElement(agg.active, e)
          /\ Submit("bind", BindAsset(agg, u, token, <<"bind", u>>), <<"bind", u>>) /\ Quiet
      BY Zenon, <1>18 DEF BindTargetAsset, Ids
    <2> HIDE DEF token
    <2>3. Follows(agg, BindAsset(agg, u, token, <<"bind", u>>), <<"bind", u>>)
      BY Zenon, <1>0, <2>1, <2>2, BindFollows
    <2> QED BY Zenon, <2>2, <2>3, CommandGood DEF Quiet
  <1> QED BY <1>1, <1>2, <1>3, <1>4, <1>5, <1>6, <1>7, <1>8, <1>9, <1>10, <1>11, <1>12, <1>13, <1>14, <1>15,
             <1>16, <1>17, <1>18 DEF Next

LEMMA StartIsSound == Init => StoryboardInv
  <1> SUFFICES ASSUME Init PROVE StoryboardInv
    BY Zenon
  <1>1. /\ agg = NewStoryboardAggregate /\ events = {} /\ slow = None /\ fill = None /\ confirmed = 1
    BY Zenon DEF Init
  <1>2. /\ agg.version = 0 /\ agg.active = None /\ agg.pending = None /\ agg.bindings = <<>> /\ agg.applied = {}
        /\ IsShaped(agg)
    BY Zenon, <1>1 DEF NewStoryboardAggregate, IsShaped
  <1>3. IsAggregate(agg) /\ UniqueIds(agg.bindings)
    BY <1>2 DEF IsAggregate, UniqueIds
  <1>4. Sound(agg)
    BY <1>2, <1>3 DEF Sound
  <1> QED BY Zenon, <1>1, <1>2, <1>4 DEF StoryboardInv, SlowInv, FillInv

-----------------------------------------------------------------------------
(* Theorems *)

(* The storyboard keeps its inductive invariant: the stored aggregate is     *)
(* sound, the events are its ledger, and what a waiting handler or           *)
(* fillMissingPrompts holds is either current or too old to be written       *)
(* (loadForCommand, SaveAggregate).                                          *)
THEOREM StoryboardIsSound == Spec => []StoryboardInv
  <1>1. StoryboardInv /\ [Next]_vars => StoryboardInv'
    <2> SUFFICES ASSUME StoryboardInv, [Next]_vars PROVE StoryboardInv'
      BY Zenon
    <2>1. CASE Next
      <3>1. Good
        BY Zenon, <2>1, StepGood
      <3> QED BY Zenon, <3>1 DEF Good, Stepped, StoryboardInv
    <2>2. CASE UNCHANGED vars
      <3>1. Good
        BY Zenon, <2>2, RestGood DEF vars, StoryboardInv
      <3> QED BY <3>1 DEF Good, Stepped, StoryboardInv
    <2> QED BY Zenon, <2>1, <2>2
  <1> QED BY <1>1, StartIsSound, PTL DEF Spec

(* The ledger of the aggregate and the stored domain events are the same     *)
(* set, whichever handler was overtaken, in both stores (SaveAggregate).     *)
THEOREM LedgerMatchesEvents == Spec => []EventsMatchLedger
  <1>1. StoryboardInv => EventsMatchLedger
    BY Zenon DEF StoryboardInv, EventsMatchLedger
  <1> QED BY <1>1, StoryboardIsSound, PTL

(* The bindings and the slots of the active revision always agree, for every *)
(* number of elements, plans and candidates (activateBinding, rejectBinding, *)
(* supersedeUnreferencedBindings, reconcileAssetSlot).                       *)
THEOREM BindingsAgree == Spec => []BindingsMatchSlots
  <1>1. ASSUME StoryboardInv PROVE BindingsMatchSlots
    <2>1. Sound(agg)
      BY Zenon, <1>1 DEF StoryboardInv
    <2>2. \A b \in BindingIDs(agg) : \E i \in DOMAIN agg.bindings :
            agg.bindings[i].id = b /\ BindingByID(agg, b) = agg.bindings[i]
      BY <2>1, ByID DEF Sound, BindingIDs
    <2>3. \A b \in BindingIDs(agg) : BindingByID(agg, b).id = b /\ InSlot(agg.active, BindingByID(agg, b))
      BY Zenon, <2>1, <2>2 DEF Sound
    <2>4. agg.active = None => \A b \in BindingIDs(agg) : ~Live(b)
      BY Zenon, <2>3 DEF InSlot, Live
    <2>5. ASSUME agg.active # None, NEW e \in Elements
          PROVE  LET Of(state) == {b \in BindingIDs(agg) : /\ BindingByID(agg, b).target = e
                                                           /\ BindingByID(agg, b).state = state}
                     slot == IF e \in DOMAIN agg.active.els THEN agg.active.els[e].slot ELSE EmptySlot
                 IN  Of("candidate") = slot.cands /\ Of("active") = {slot.active} \ {None}
      <3> DEFINE Of(state) == {b \in BindingIDs(agg) : /\ BindingByID(agg, b).target = e
                                                       /\ BindingByID(agg, b).state = state}
                 slot == IF e \in DOMAIN agg.active.els THEN agg.active.els[e].slot ELSE EmptySlot
      <3>1. \A b \in Of("candidate") : b \in slot.cands
        BY Zenon, <2>3 DEF InSlot
      <3>2. \A b \in Of("active") : b = slot.active
        BY Zenon, <2>3 DEF InSlot
      <3>3. None \notin BindingIDs(agg)
        BY <2>1, RowAssumption DEF Sound, IsAggregate, IsBinding, BindingIDs
      <3>4. e \in DOMAIN agg.active.els => Backed(agg.bindings, e, slot)
        BY Zenon, <2>1, <2>5 DEF Sound
      <3>5. \A i \in DOMAIN agg.bindings :
              /\ BindingByID(agg, agg.bindings[i].id) = agg.bindings[i]
              /\ agg.bindings[i].id \in BindingIDs(agg)
        BY Zenon, <2>1, ByID DEF Sound
      <3>6. \A x \in slot.cands : x \in Of("candidate")
        BY <3>4, <3>5 DEF Backed, EmptySlot
      <3>7. slot.active # None => slot.active \in Of("active")
        BY <3>4, <3>5 DEF Backed, EmptySlot
      <3>8. Of("candidate") = slot.cands
        BY Zenon, <3>1, <3>6
      <3>9. Of("active") = {slot.active} \ {None}
        BY Zenon, <3>2, <3>3, <3>7
      <3> QED BY Zenon, <3>8, <3>9
    <2> QED BY Zenon, <2>4, <2>5 DEF BindingsMatchSlots
  <1> QED BY <1>1, StoryboardIsSound, PTL

(* Every step leaves the aggregate alone or is one the aggregate allows. *)
LEMMA StepAllowed ==
  ASSUME StoryboardInv, [Next]_vars
  PROVE  agg' = agg \/ (Sound(agg') /\ Allowed(agg, agg'))
  <1>1. CASE Next
    BY Zenon, <1>1, StepGood DEF Good, Stepped
  <1>2. CASE UNCHANGED vars
    BY Zenon, <1>2 DEF vars
  <1> QED BY Zenon, <1>1, <1>2

(* A binding becomes the asset of its slot only while its token is that of   *)
(* the current generation input of the slot, also when the command that      *)
(* adopts it was overtaken by others (activateBinding).                      *)
THEOREM AdoptionIsCurrent == Spec => AdoptedIsCurrent
  <1> DEFINE Current == \A b \in BindingIDs(agg) :
               (/\ BindingByID(agg, b).state # "active"
                /\ BindingByID(agg', b).state = "active")
               => BindingByID(agg, b).token = ResolveGenerationInput(agg, BindingByID(agg, b).target)
  <1>1. ASSUME StoryboardInv, [Next]_vars PROVE Current
    <2> SUFFICES ASSUME NEW b \in BindingIDs(agg),
                        BindingByID(agg, b).state # "active", BindingByID(agg', b).state = "active"
                 PROVE  BindingByID(agg, b).token = ResolveGenerationInput(agg, BindingByID(agg, b).target)
      BY Zenon
    <2>1. Sound(agg') /\ Allowed(agg, agg')
      BY Zenon, <1>1, StepAllowed
    <2>2. PICK i \in DOMAIN agg.bindings : agg.bindings[i].id = b
      BY Zenon DEF BindingIDs
    <2>3. BindingByID(agg, b) = agg.bindings[i]
      BY Zenon, <1>1, <2>2, ByID DEF StoryboardInv, Sound
    <2>4. i \in DOMAIN agg'.bindings /\ agg'.bindings[i].id = b
      BY Zenon, <2>1, <2>2 DEF Allowed, AdoptsCurrent
    <2>5. BindingByID(agg', b) = agg'.bindings[i]
      BY Zenon, <2>1, <2>4, ByID DEF Sound
    <2> QED BY Zenon, <2>1, <2>3, <2>5 DEF Allowed, AdoptsCurrent
  <1>2. StoryboardInv /\ [Next]_vars => [Current]_vars
    BY Zenon, <1>1
  <1> QED BY <1>2, StoryboardIsSound, PTL DEF Spec, AdoptedIsCurrent

(* Promoting a plan that preserves approved assets keeps every asset active  *)
(* at that moment whose element, prompt and dependencies the plan leaves as  *)
(* they are, also one adopted during the review (rebaseApprovedAssets).      *)
THEOREM PromotionKeepsAdopted == Spec => AdoptedSurvivesPromotion
  <1>1. ASSUME StoryboardInv, [Next]_vars PROVE KeepsAssets(agg, agg')
    <2>1. CASE agg' = agg
      BY Zenon, <2>1 DEF KeepsAssets
    <2>2. CASE Allowed(agg, agg')
      BY Zenon, <2>2 DEF Allowed
    <2> QED BY Zenon, <1>1, <2>1, <2>2, StepAllowed
  <1>2. StoryboardInv /\ [Next]_vars => [KeepsAssets(agg, agg')]_vars
    BY Zenon, <1>1
  <1> QED BY <1>2, StoryboardIsSound, PTL DEF Spec, AdoptedSurvivesPromotion, KeepsAssets

(* A prompt the user wrote is kept under its key until the user writes       *)
(* another: while its revision is edited, across replans, whatever ids the   *)
(* planner gives, and promotions, and whatever fillMissingPrompts read       *)
(* before its model call; left out are the elements under review whose id    *)
(* the active revision knows under another key (reconcileRevision,           *)
(* updatePrompt, fillMissingPrompts).                                        *)
THEOREM LocksAreKept == Spec => LockedStaysLocked
  <1> DEFINE Kept == \A f \in {"active", "pending"} : agg[f] # None /\ agg'[f] # None =>
               \A x \in DOMAIN agg[f].els, y \in DOMAIN agg'[f].els :
                 LET before == agg[f].els[x].prompt
                     after == agg'[f].els[y].prompt
                 IN  (/\ agg[f].els[x].key = agg'[f].els[y].key /\ before.locked
                      /\ f = "pending" => ~Reassigned(agg, x))
                     => after.locked /\ (after.text = before.text \/ after.rev > before.rev)
  <1>1. ASSUME StoryboardInv, [Next]_vars PROVE Kept
    <2>1. KeepsLocks(agg.active, agg'.active, {}) /\ KeepsLocks(agg.pending, agg'.pending, Exempt(agg))
      <3>1. CASE agg' = agg
        BY Zenon, <1>1, <3>1, LocksOfSelf DEF StoryboardInv, Sound, IsAggregate
      <3>2. CASE Allowed(agg, agg')
        BY Zenon, <3>2 DEF Allowed
      <3> QED BY Zenon, <1>1, <3>1, <3>2, StepAllowed
    <2>2. ASSUME NEW r, NEW s, NEW F, KeepsLocks(r, s, F), r # None, s # None,
                 NEW x \in DOMAIN r.els, NEW y \in DOMAIN s.els, r.els[x].key = s.els[y].key,
                 r.els[x].prompt.locked, x \notin F
          PROVE  /\ s.els[y].prompt.locked
                 /\ s.els[y].prompt.text = r.els[x].prompt.text \/ s.els[y].prompt.rev > r.els[x].prompt.rev
      BY Zenon, <2>2 DEF KeepsLocks, KeepsLock
    <2>3. \A x : x \notin {} /\ (~Reassigned(agg, x) => x \notin Exempt(agg))
      BY Zenon DEF Exempt
    <2> SUFFICES ASSUME NEW f \in {"active", "pending"}, agg[f] # None, agg'[f] # None,
                        NEW x \in DOMAIN agg[f].els, NEW y \in DOMAIN agg'[f].els,
                        agg[f].els[x].key = agg'[f].els[y].key, agg[f].els[x].prompt.locked,
                        f = "pending" => ~Reassigned(agg, x)
                 PROVE  /\ agg'[f].els[y].prompt.locked
                        /\ \/ agg'[f].els[y].prompt.text = agg[f].els[x].prompt.text
                           \/ agg'[f].els[y].prompt.rev > agg[f].els[x].prompt.rev
      BY Zenon
    <2>4. CASE f = "active"
      <3> DEFINE F == {}
      <3>1. KeepsLocks(agg[f], agg'[f], F) /\ x \notin F
        BY Zenon, <2>1, <2>3, <2>4
      <3> HIDE DEF F
      <3> QED BY Zenon, <2>2, <3>1
    <2>5. CASE f = "pending"
      BY Zenon, <2>1, <2>2, <2>3, <2>5
    <2> QED BY Zenon, <2>4, <2>5
  <1>2. StoryboardInv /\ [Next]_vars => [Kept]_vars
    BY Zenon, <1>1
  <1> QED BY <1>2, StoryboardIsSound, PTL DEF Spec, LockedStaysLocked

=============================================================================
