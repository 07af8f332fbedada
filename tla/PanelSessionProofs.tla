-------------------------- MODULE PanelSessionProofs --------------------------
(***************************************************************************)
(* The side panel loses no note that was typed, for every set of sites,    *)
(* items and notes and every bound: PanelIsSafe is an invariant.  By       *)
(* itself it is not inductive.  SnapshotOK says what a recovery and an     *)
(* edited field have to do with each other, SavesOK who waits for an       *)
(* update that is on its way, and WaitingOK what each request may rely on  *)
(* when its answer arrives.                                                *)
(***************************************************************************)
EXTENDS PanelSession, TLAPS

\* A snapshot without a site is empty, and what lies aside is of a site.
SnapshotOK ==
  /\ snap.site = Nobody => snap = EmptySnap
  /\ snap.recovery # NoRecovery => snap.recovery.draft.site # Nobody
  /\ snap.recovery # NoRecovery /\ snap.dirty => snap.recovery.draft = InField(snap)
\* Who waits for a save is the last one that sent one.
SavesOK ==
  /\ \A k \in DOMAIN saves :
       /\ saves[k].to.site \in Sites
       /\ saves[k].mine => /\ k = Len(saves) /\ task.stage = "save" /\ ~task.answered
                           /\ saves[k].to = task.sent
  /\ task.stage = "save" => task.sent.site \in Sites
  /\ mutation # NoMutation => mutation.site \in Sites
\* What each request may rely on while it waits.
WaitingOK ==
  /\ task.kind = "initialize" => snap = EmptySnap
  /\ task.kind = "refresh" /\ task.stage = "active" /\ task.calm /\ snap.dirty =>
       task.sent = InField(snap)
  /\ task.stage = "save" /\ task.kind # "retry" => snap.recovery = NoRecovery
  /\ task.stage = "save" /\ task.kind = "retry" =>
       snap.recovery # NoRecovery /\ task.sent = snap.recovery.draft /\ task.same
  /\ task.stage = "save" /\ task.answered /\ task.answer.ok /\ task.same =>
       draft = NoDraft \/ draft # task.sent
  /\ task.stage = "mutation" => mutation # NoMutation /\ SameSession(snap, mutation)
  /\ task.stage \in {"mutation", "reconcile"} => draft = NoDraft
  /\ task.kind \in {"retry", "discard"} /\ task.stage = "active" => draft = NoDraft
  /\ task.kind = "discard" => task.stage = "active" /\ snap.recovery # NoRecovery
  /\ task.kind = "export" /\ task.stage # "save" /\ task.calm => draft = NoDraft
  /\ task.stage = "exported" => task.kind = "export"
  /\ task.stage = "reconcile" => task.kind = "clear"
IInv == PanelTypeOK /\ SnapshotOK /\ SavesOK /\ WaitingOK /\ PanelIsSafe
-----------------------------------------------------------------------------
(* The constants of the module have their types.                           *)

LEMMA ConstantTypes ==
  /\ EmptySnap \in Readbacks /\ NoDraft \in Drafts /\ NoRecovery \in Recoveries
  /\ NoAnswer \in PanelAnswers /\ IdleTask \in PanelTasks /\ NoMutation \in Changes
<1>1. NoDraft \in Drafts
  BY DEF NoDraft, Drafts, AnySite, SomeItem, Notes
<1>2. NoRecovery \in Recoveries
  BY <1>1 DEF NoRecovery, Recoveries, AnySite
<1>3. EmptySnap \in Readbacks
  BY <1>2 DEF EmptySnap, Readbacks, PanelSnapshots, AnySite, SomeItem, Notes, NoteLists
<1>4. NoAnswer \in PanelAnswers
  BY <1>3 DEF NoAnswer, PanelAnswers
<1> QED
  BY <1>1, <1>2, <1>3, <1>4
  DEF IdleTask, NoMutation, PanelTasks, Changes, TaskKinds, Stages, SomeItem, AnySite

LEMMA EmptyFacts ==
  /\ EmptySnap.site = Nobody /\ EmptySnap.item = Nobody /\ EmptySnap.dirty = FALSE
  /\ EmptySnap.recovery = NoRecovery /\ NoRecovery.draft = NoDraft /\ NoDraft.site = Nobody
  /\ \A i : ~Has(EmptySnap, i)
<1>1. \A i : ~Has(EmptySnap, i)
  BY DEF EmptySnap, Has
<1> QED BY <1>1 DEF EmptySnap, NoRecovery, NoDraft

\* A snapshot made from a readback is of its session, and is not edited.
LEMMA AppliedFacts ==
  ASSUME NEW rb \in Readbacks, NEW preferred, NEW recovery \in Recoveries,
         NEW s \in Applied(rb, preferred, recovery)
  PROVE  /\ s \in PanelSnapshots /\ ~s.dirty /\ s.site = rb.site
         /\ rb.site # Nobody => s.epoch = rb.epoch /\ s.recovery = recovery
         /\ rb.site = Nobody => s = EmptySnap
<1>1. CASE rb.site = Nobody
  <2>1. s = EmptySnap
    BY <1>1 DEF Applied
  <2>2. EmptySnap \in PanelSnapshots /\ ~EmptySnap.dirty
    BY ConstantTypes DEF Readbacks
  <2>3. EmptySnap.site = Nobody
    BY DEF EmptySnap
  <2> QED BY <1>1, <2>1, <2>2, <2>3
<1>2. CASE rb.site # Nobody
  <2>1. PICK i \in Selections(rb, preferred) :
          s = [rb EXCEPT !.item = i, !.text = NoteOf(rb, i), !.recovery = recovery]
    BY <1>2 DEF Applied
  <2>2. i \in SomeItem
    BY DEF Selections, SomeItem
  <2>3. NoteOf(rb, i) \in Notes
    BY DEF NoteOf, Has, Notes, NoteLists, Readbacks, PanelSnapshots
  <2> QED BY <1>2, <2>1, <2>2, <2>3 DEF Readbacks, PanelSnapshots
<1> QED BY <1>1, <1>2

LEMMA ReadbackFacts ==
  ASSUME NEW sessions \in PanelStores, NEW s \in Sites
  PROVE  Readback(sessions, s) \in Readbacks /\ Readback(sessions, s).site = s
  BY ConstantTypes DEF Readback, Readbacks, PanelSnapshots, AnySite, EmptySnap, PanelStores

\* The strengthened invariant holds when the panel is opened.
THEOREM InitInv == PanelInit => IInv
<1> SUFFICES ASSUME PanelInit PROVE IInv
  OBVIOUS
<1>1. front \in Sites
  BY PanelNamesOK DEF PanelInit
<1>2. PanelTypeOK
  <2>1. stored \in PanelStores
    BY DEF PanelInit, NoteLists, Notes, PanelStores
  <2>2. snap \in PanelSnapshots /\ draft \in Drafts /\ front \in AnySite /\ mutation \in Changes
    BY <1>1, ConstantTypes DEF PanelInit, Readbacks, AnySite
  <2>4. saves \in Seq(Updates)
    <3>1. saves = <<>>
      BY DEF PanelInit
    <3> QED BY <3>1
  <2>3. task \in PanelTasks
    BY ConstantTypes DEF PanelInit, TaskKinds, Stages, PanelTasks
  <2>5. CountersOK
    <3>1. /\ MaxTyped \in Nat /\ MaxPanelEvents \in Nat
          /\ MaxElsewhere \in Nat /\ MaxPanelFaults \in Nat
      BY PanelConstantsOK
    <3>2. typed = 0 /\ panelEvents = 0 /\ elsewhere = 0 /\ panelFaults = 0
      BY DEF PanelInit
    <3> QED BY <3>1, <3>2 DEF CountersOK
  <2>6. timer \in BOOLEAN
    BY DEF PanelInit
  <2> QED BY <2>1, <2>2, <2>3, <2>4, <2>5, <2>6 DEF PanelTypeOK
<1>3. SnapshotOK /\ SavesOK /\ PanelIsSafe
  <2>1. snap = EmptySnap /\ snap.recovery = NoRecovery /\ ~snap.dirty
    BY DEF PanelInit, EmptySnap
  <2>3. saves = <<>>
    BY DEF PanelInit
  <2>4. DOMAIN saves = {}
    BY <2>3
  <2>2. task.stage = "active" /\ mutation = NoMutation /\ draft = NoDraft
    BY DEF PanelInit, IdleTask
  <2> QED BY <2>1, <2>2, <2>4 DEF SnapshotOK, SavesOK, PanelIsSafe, DraftIsKept, ExportIsComplete
<1>4. WaitingOK
  BY DEF PanelInit, WaitingOK, IdleTask
<1> QED BY <1>2, <1>3, <1>4 DEF IInv

\* What happens to the parts of the state that only requests change.
LEMMA ForgetFacts ==
  ASSUME saves \in Seq(Updates)
  PROVE  /\ Forget \in Seq(Updates) /\ Len(Forget) = Len(saves)
         /\ \A k \in DOMAIN saves : ~Forget[k].mine /\ Forget[k].to = saves[k].to
<1>1. DOMAIN saves = 1 .. Len(saves) /\ Len(saves) \in Nat
  OBVIOUS
<1>2. \A k \in DOMAIN saves : saves[k] \in Updates
  BY <1>1
<1>3. \A k \in DOMAIN saves : /\ Forget[k] \in Updates
                              /\ ~Forget[k].mine /\ Forget[k].to = saves[k].to
  BY <1>2 DEF Forget, Updates
<1>4. Forget = [k \in 1 .. Len(saves) |-> Forget[k]]
  BY <1>1 DEF Forget
<1> QED BY <1>1, <1>3, <1>4

\* No update that is on its way is waited for, and no request waits for one.
Unwaited == /\ task'.stage # "save"
            /\ \/ saves' = Forget
               \/ saves' = saves /\ \A k \in DOMAIN saves : ~saves[k].mine
LEMMA UnwaitedFacts ==
  ASSUME SavesOK, saves \in Seq(Updates), Unwaited,
         mutation' # NoMutation => mutation'.site \in Sites
  PROVE  SavesOK' /\ saves' \in Seq(Updates)
<1>1. DOMAIN saves' = DOMAIN saves /\ saves' \in Seq(Updates)
  BY ForgetFacts DEF Unwaited
<1>2. \A k \in DOMAIN saves' : saves'[k].to.site \in Sites /\ ~saves'[k].mine
  BY <1>1, ForgetFacts DEF SavesOK, Unwaited
<1> QED BY <1>1, <1>2 DEF SavesOK, Unwaited

\* The update that a request sends is the one it waits for.
LEMMA Sent ==
  ASSUME SavesOK, saves \in Seq(Updates),
         NEW t \in PanelTasks, t.sent.site \in Sites, Send(t),
         mutation' # NoMutation => mutation'.site \in Sites
  PROVE  /\ SavesOK' /\ saves' \in Seq(Updates)
         /\ task' \in PanelTasks /\ task' = [t EXCEPT !.stage = "save", !.answered = FALSE,
                                                     !.answer = NoAnswer]
<1> DEFINE last == [to |-> t.sent, mine |-> TRUE]
<1>1. task' \in PanelTasks /\ task'.stage = "save" /\ ~task'.answered /\ task'.sent = t.sent
  BY ConstantTypes DEF Send, PanelTasks, Stages
<1>2. last \in Updates
  BY DEF PanelTasks, Updates
<1>3. saves' = Append(Forget, last) /\ Forget \in Seq(Updates)
  BY ForgetFacts DEF Send
<1>4. /\ saves' \in Seq(Updates) /\ Len(saves') = Len(saves) + 1
      /\ DOMAIN saves' = 1 .. Len(saves) + 1 /\ DOMAIN saves = 1 .. Len(saves)
      /\ saves'[Len(saves) + 1] = last
      /\ \A k \in DOMAIN saves : saves'[k] = Forget[k]
  BY <1>2, <1>3, ForgetFacts
<1>5. \A k \in DOMAIN saves' :
        /\ saves'[k].to.site \in Sites
        /\ saves'[k].mine => k = Len(saves') /\ saves'[k].to = task'.sent
  <2> SUFFICES ASSUME NEW k \in DOMAIN saves'
               PROVE  /\ saves'[k].to.site \in Sites
                      /\ saves'[k].mine => k = Len(saves') /\ saves'[k].to = task'.sent
    OBVIOUS
  <2>1. CASE k = Len(saves) + 1
    BY <1>1, <1>4, <2>1
  <2>2. CASE k # Len(saves) + 1
    <3>1. k \in DOMAIN saves
      BY <1>4, <2>2
    <3> QED BY <3>1, <1>4, ForgetFacts DEF SavesOK
  <2> QED BY <2>1, <2>2
<1> QED BY <1>1, <1>4, <1>5 DEF SavesOK, Send

LEMMA NewFacts ==
  ASSUME NEW kind \in TaskKinds, NEW stage \in Stages, NEW item \in SomeItem, NEW sent \in Drafts
  PROVE  /\ New(kind, stage, item, sent) \in PanelTasks
         /\ New(kind, stage, item, sent).kind = kind /\ New(kind, stage, item, sent).sent = sent
         /\ New(kind, stage, item, sent).stage = stage
         /\ New(kind, stage, item, sent).calm = TRUE /\ New(kind, stage, item, sent).same = TRUE
         /\ New(kind, stage, item, sent).answered = FALSE
<1>1. New(kind, stage, item, sent) \in PanelTasks
  BY ConstantTypes DEF New, PanelTasks
<1> QED BY <1>1, ConstantTypes DEF New, IdleTask, PanelTasks

LEMMA StartFacts ==
  ASSUME NEW kind \in TaskKinds, NEW item \in SomeItem, NEW sent \in Drafts
  PROVE  /\ New(kind, "save", item, sent) \in PanelTasks
         /\ New(kind, "save", item, sent).kind = kind
         /\ New(kind, "save", item, sent).sent = sent
<1>1. New(kind, "save", item, sent) \in PanelTasks
  BY ConstantTypes DEF New, PanelTasks, Stages
<1> QED BY <1>1, ConstantTypes DEF New, IdleTask, PanelTasks

LEMMA FieldFacts ==
  ASSUME PanelTypeOK, SnapshotOK
  PROVE  /\ InField(snap) \in Drafts
         /\ snap.dirty => snap.site \in Sites /\ InField(snap).site \in Sites
         /\ Discarded(snap) \in PanelSnapshots /\ ~Discarded(snap).dirty
         /\ Discarded(snap).site = snap.site /\ Discarded(snap).epoch = snap.epoch
         /\ Discarded(snap).recovery = snap.recovery
<1>1. snap \in PanelSnapshots
  BY DEF PanelTypeOK
<1>2. InField(snap) \in Drafts /\ InField(snap).site = snap.site
  BY <1>1 DEF InField, Drafts, PanelSnapshots
<1>3. snap.dirty => snap.site \in Sites
  BY <1>1, EmptyFacts DEF SnapshotOK, PanelSnapshots, AnySite
<1>4. NoteOf(snap, snap.item) \in Notes
  BY <1>1 DEF NoteOf, Has, Notes, NoteLists, PanelSnapshots
<1> QED BY <1>1, <1>2, <1>3, <1>4 DEF Discarded, PanelSnapshots

LEMMA RequestFacts ==
  ASSUME PanelTypeOK, PanelRequest
  PROVE  CountersOK' /\ stored' \in PanelStores /\ front' \in AnySite
<1>1. MaxPanelEvents \in Nat
  BY PanelConstantsOK
<1> QED BY <1>1 DEF PanelTypeOK, CountersOK, PanelRequest

\* What the user typed is not in the field and not put aside: it was saved or discarded.
LEMMA NothingTyped ==
  ASSUME DraftIsKept, ~snap.dirty \/ InField(snap) # draft, snap.recovery = NoRecovery
  PROVE  draft = NoDraft
  BY EmptyFacts DEF DraftIsKept

\* A request has saved the note, and goes on.
Rest == stored' \in PanelStores /\ front' \in AnySite /\ timer' \in BOOLEAN /\ CountersOK'
LEMMA GoOnFacts ==
  ASSUME IInv, NEW t \in PanelTasks, NEW s \in PanelSnapshots,
         t.kind \in {"flush", "select", "lifecycle", "remove", "export"},
         ~s.dirty, s.recovery = NoRecovery, s.site = Nobody => s = EmptySnap,
         GoOn(t, s), draft' = NoDraft, Rest, task'.stage # "save" => Unwaited
  PROVE  IInv'
<1>1. /\ PanelTypeOK /\ SavesOK /\ saves \in Seq(Updates) /\ mutation \in Changes
      /\ mutation # NoMutation => mutation.site \in Sites
  BY DEF IInv, PanelTypeOK, SavesOK
<1>2. /\ snap' \in PanelSnapshots /\ ~snap'.dirty /\ snap'.recovery = NoRecovery
      /\ snap'.site = s.site /\ snap'.epoch = s.epoch
      /\ snap'.site = Nobody => snap' = EmptySnap
  <2>1. CASE t.kind = "select" /\ Has(s, t.item)
    <3>1. t.item \in SomeItem /\ s.notes[t.item] \in Notes
      BY <2>1 DEF Has, PanelSnapshots, NoteLists, SomeItem
    <3>2. s.site # Nobody
      BY <2>1, EmptyFacts
    <3>3. snap' = [s EXCEPT !.item = t.item, !.text = s.notes[t.item], !.dirty = FALSE]
      BY <2>1 DEF GoOn
    <3> QED BY <3>1, <3>2, <3>3 DEF PanelSnapshots
  <2>2. CASE ~(t.kind = "select" /\ Has(s, t.item))
    <3>1. snap' = s
      BY <2>2 DEF GoOn
    <3> QED BY <3>1
  <2> QED BY <2>1, <2>2
<1>3. /\ task' \in PanelTasks /\ mutation' \in Changes
      /\ task'.stage \notin {"save", "reconcile", "exported"}
      /\ mutation' # NoMutation => mutation'.site \in Sites
      /\ task'.kind \notin {"initialize", "refresh", "retry", "discard"}
      /\ task'.stage = "mutation" => mutation' # NoMutation /\ SameSession(s, mutation')
  <2>1. CASE EndTask
    BY <1>1, <2>1, ConstantTypes DEF EndTask, IdleTask
  <2>2. CASE t.kind = "export"
    <3>1. task' = New("export", "active", Nobody, NoDraft) /\ UNCHANGED mutation
      BY <2>2 DEF GoOn
    <3> QED BY <3>1, <1>1, ConstantTypes DEF New, IdleTask, PanelTasks, TaskKinds, Stages
  <2>3. CASE t.kind \in {"remove", "lifecycle"} /\ ~EndTask
    <3>1. s.item # Nobody
      BY <2>3 DEF GoOn, Mutate
    <3>2. task' = [t EXCEPT !.stage = "mutation", !.answered = FALSE, !.answer = NoAnswer]
      BY <2>3, <3>1 DEF GoOn, Mutate
    <3>3. mutation' = [NoMutation EXCEPT !.kind = t.kind, !.site = s.site, !.epoch = s.epoch,
                                         !.item = t.item]
      BY <2>3, <3>1 DEF GoOn, Mutate
    <3>4. s.site \in Sites
      <4>1. s.site # Nobody
        BY <3>1, EmptyFacts
      <4> QED BY <4>1 DEF PanelSnapshots, AnySite
    <3>5. task' \in PanelTasks /\ task'.stage = "mutation" /\ task'.kind = t.kind
      BY <3>2, ConstantTypes DEF PanelTasks, Stages
    <3>6. /\ mutation' \in Changes /\ mutation'.kind = t.kind
          /\ mutation'.site = s.site /\ mutation'.epoch = s.epoch
      BY <3>3, <3>4, ConstantTypes DEF Changes, PanelTasks, PanelSnapshots
    <3>7. mutation' # NoMutation
      BY <2>3, <3>6 DEF NoMutation
    <3> QED BY <2>3, <3>4, <3>5, <3>6, <3>7 DEF SameSession
  <2> QED BY <2>1, <2>2, <2>3 DEF GoOn
<1>4. SavesOK' /\ saves' \in Seq(Updates)
  BY <1>1, <1>3, UnwaitedFacts
<1>5. PanelTypeOK'
  BY <1>2, <1>3, <1>4, ConstantTypes DEF PanelTypeOK, Rest
<1>6. SnapshotOK'
  <2>1. snap'.dirty = FALSE
    BY <1>2 DEF PanelSnapshots
  <2> QED BY <1>2, <2>1 DEF SnapshotOK
<1>7. WaitingOK'
  <2>1. task'.stage = "mutation" => mutation' # NoMutation /\ SameSession(snap', mutation')
    BY <1>2, <1>3 DEF SameSession
  <2>2. /\ task'.stage \notin {"save", "reconcile", "exported"}
        /\ task'.kind \notin {"initialize", "refresh", "retry", "discard"}
    BY <1>3
  <2> QED BY <2>1, <2>2 DEF WaitingOK, SameSession
<1>8. PanelIsSafe'
  BY DEF PanelIsSafe, DraftIsKept, ExportIsComplete
<1> QED BY <1>4, <1>5, <1>6, <1>7, <1>8 DEF IInv

LEMMA FlushThenFacts ==
  ASSUME IInv, NEW t \in PanelTasks,
         t.kind \in {"flush", "select", "lifecycle", "remove", "export"},
         snap.recovery = NoRecovery, FlushThen(t, snap), draft' = draft, PanelRequest
  PROVE  IInv'
<1>1. /\ PanelTypeOK /\ SnapshotOK /\ SavesOK /\ WaitingOK /\ PanelIsSafe
      /\ snap \in PanelSnapshots /\ timer \in BOOLEAN /\ draft \in Drafts /\ mutation \in Changes
  BY DEF IInv, PanelTypeOK
<1>2. Rest
  BY <1>1, RequestFacts DEF FlushThen, Rest
<1>3. CASE ~snap.dirty
  <2>1. draft = NoDraft
    BY <1>1, <1>3, NothingTyped DEF PanelIsSafe
  <2>2. saves' = Forget /\ GoOn(t, snap)
    BY <1>3 DEF FlushThen
  <2> QED BY <1>1, <1>2, <1>3, <2>1, <2>2, GoOnFacts DEF Unwaited, SnapshotOK
<1>4. CASE snap.dirty
  <2> DEFINE u == [t EXCEPT !.sent = InField(snap)]
  <2>1. u \in PanelTasks /\ u.sent.site \in Sites /\ u.kind = t.kind
    BY <1>1, <1>4, FieldFacts DEF PanelTasks
  <2>2. Send(u) /\ UNCHANGED <<snap, mutation>>
    BY <1>4 DEF FlushThen
  <2>3. mutation' # NoMutation => mutation'.site \in Sites
    BY <1>1, <2>2 DEF SavesOK
  <2>4. /\ SavesOK' /\ saves' \in Seq(Updates) /\ task' \in PanelTasks
        /\ task' = [u EXCEPT !.stage = "save", !.answered = FALSE, !.answer = NoAnswer]
    BY <1>1, <2>1, <2>2, <2>3, Sent DEF PanelTypeOK
  <2>5. task'.kind = t.kind /\ task'.stage = "save" /\ task'.answered = FALSE
    BY <2>1, <2>4 DEF PanelTasks
  <2>6. PanelTypeOK'
    BY <1>1, <1>2, <2>2, <2>4 DEF PanelTypeOK, Rest
  <2>7. SnapshotOK'
    BY <1>1, <2>2 DEF SnapshotOK, InField
  <2>8. WaitingOK'
    <3>1. snap'.recovery = NoRecovery
      BY <2>2
    <3>2. /\ task'.kind \notin {"initialize", "refresh", "retry", "discard"}
          /\ task'.stage = "save" /\ ~task'.answered
      BY <2>5
    <3> QED BY <3>1, <3>2 DEF WaitingOK, SameSession, InField
  <2>9. PanelIsSafe'
    BY <1>1, <2>2, <2>5 DEF PanelIsSafe, DraftIsKept, ExportIsComplete, InField
  <2> QED BY <2>4, <2>6, <2>7, <2>8, <2>9 DEF IInv
<1> QED BY <1>3, <1>4

LEMMA TypeFacts ==
  ASSUME IInv, NEW text \in Notes, Type(text) PROVE IInv'
<1>1. /\ PanelTypeOK /\ SnapshotOK /\ SavesOK /\ WaitingOK /\ PanelIsSafe
      /\ snap \in PanelSnapshots /\ task \in PanelTasks /\ saves \in Seq(Updates)
  BY DEF IInv, PanelTypeOK
<1>2. /\ ~snap.clearing /\ snap.recovery = NoRecovery /\ mutation = NoMutation
      /\ snap.site # Nobody /\ task.stage # "reconcile"
      /\ ~(task.kind = "retry" /\ task.stage = "active")
      /\ snap' = [snap EXCEPT !.text = text, !.dirty = TRUE]
      /\ draft' = InField(snap') /\ task' = Retyped /\ timer' = TRUE
      /\ typed < MaxTyped /\ typed' = typed + 1
      /\ UNCHANGED <<stored, front, saves, mutation, panelEvents, elsewhere, panelFaults>>
  BY DEF Type, Blocked
<1>3. /\ snap' \in PanelSnapshots /\ snap'.dirty /\ snap'.recovery = NoRecovery
      /\ snap'.site = snap.site /\ draft' \in Drafts
  <2>1. /\ snap' \in PanelSnapshots /\ snap'.dirty /\ snap'.recovery = snap.recovery
        /\ snap'.site = snap.site
    BY <1>1, <1>2 DEF PanelSnapshots
  <2> QED BY <1>2, <2>1 DEF InField, Drafts, PanelSnapshots
<1>4. /\ task' \in PanelTasks /\ task'.kind = task.kind /\ task'.stage = task.stage
      /\ task'.sent = task.sent /\ task'.answered = task.answered /\ task'.answer = task.answer
      /\ task.stage = "save" => ~task'.same
      /\ task.kind \in {"refresh", "export"} => ~task'.calm
  BY <1>1, <1>2 DEF Retyped, Disturbed, PanelTasks
<1>5. CountersOK'
  BY <1>1, <1>2, PanelConstantsOK DEF PanelTypeOK, CountersOK
<1>6. PanelTypeOK'
  BY <1>1, <1>2, <1>3, <1>4, <1>5 DEF PanelTypeOK
<1>7. SnapshotOK'
  BY <1>2, <1>3 DEF SnapshotOK
<1>8. SavesOK'
  BY <1>1, <1>2, <1>4 DEF SavesOK
<1>9. WaitingOK'
  <2>1. task.kind \notin {"initialize", "discard"} /\ task.stage # "mutation"
    BY <1>1, <1>2, EmptyFacts DEF WaitingOK
  <2>2. task.kind = "retry" => task.stage # "save"
    BY <1>1, <1>2 DEF WaitingOK
  <2> QED BY <1>1, <1>2, <1>3, <1>4, <2>1, <2>2 DEF WaitingOK, SameSession, InField
<1>10. PanelIsSafe'
  <2>1. task.stage = "exported" => task.kind = "export"
    BY <1>1 DEF WaitingOK
  <2> QED BY <1>2, <1>3, <1>4, <2>1 DEF PanelIsSafe, DraftIsKept, ExportIsComplete
<1> QED BY <1>6, <1>7, <1>8, <1>9, <1>10 DEF IInv

-----------------------------------------------------------------------------
(* Steps that neither send an update nor wait for one.                     *)

LEMMA NoneWaits ==
  ASSUME SavesOK, task.answered \/ task.stage # "save"
  PROVE  \A k \in DOMAIN saves : ~saves[k].mine
  BY DEF SavesOK

LEMMA Assembled ==
  ASSUME IInv, Unwaited, Rest, task' \in PanelTasks, snap' \in PanelSnapshots, draft' \in Drafts,
         mutation' \in Changes, mutation' # NoMutation => mutation'.site \in Sites,
         SnapshotOK', WaitingOK', PanelIsSafe'
  PROVE  IInv'
<1>1. SavesOK' /\ saves' \in Seq(Updates)
  BY UnwaitedFacts DEF IInv, PanelTypeOK
<1> QED BY <1>1 DEF IInv, PanelTypeOK, Rest

LEMMA Ended ==
  ASSUME IInv, Rest, task' = IdleTask,
         saves' = Forget \/ (saves' = saves /\ (task.answered \/ task.stage # "save")),
         snap' \in PanelSnapshots, draft' \in Drafts, mutation' \in Changes,
         mutation' # NoMutation => mutation'.site \in Sites, SnapshotOK', DraftIsKept'
  PROVE  IInv'
<1>1. task' \in PanelTasks /\ task'.kind = "none" /\ task'.stage = "none"
  BY ConstantTypes DEF IdleTask
<1>2. Unwaited
  BY <1>1, NoneWaits DEF Unwaited, IInv
<1>3. WaitingOK'
  BY <1>1 DEF WaitingOK, SameSession, InField
<1>4. PanelIsSafe'
  BY <1>1 DEF PanelIsSafe, ExportIsComplete
<1> QED BY <1>1, <1>2, <1>3, <1>4, Assembled

LEMMA ShownFacts ==
  ASSUME NEW rb \in Readbacks, NEW preferred, NEW recovery \in Recoveries,
         Shown(rb, preferred, recovery),
         recovery # NoRecovery => rb.site # Nobody /\ recovery.draft.site # Nobody
  PROVE  /\ snap' \in PanelSnapshots /\ snap'.dirty = FALSE /\ snap'.recovery = recovery
         /\ snap'.site = rb.site /\ SnapshotOK'
<1>1. /\ snap' \in PanelSnapshots /\ ~snap'.dirty /\ snap'.site = rb.site
      /\ rb.site # Nobody => snap'.recovery = recovery
      /\ rb.site = Nobody => snap' = EmptySnap
  BY AppliedFacts DEF Shown
<1>2. snap'.dirty = FALSE /\ snap'.recovery = recovery
  BY <1>1, EmptyFacts DEF PanelSnapshots
<1> QED BY <1>1, <1>2 DEF SnapshotOK

LEMMA SetViewModeFacts == ASSUME IInv, SetViewMode PROVE IInv'
<1>1. /\ PanelTypeOK /\ SnapshotOK /\ SavesOK /\ WaitingOK /\ PanelIsSafe
      /\ task \in PanelTasks /\ task.kind \in {"refresh", "export"}
      /\ UNCHANGED <<stored, front, snap, saves, mutation, timer, draft,
                     typed, panelEvents, elsewhere, panelFaults>>
  BY DEF IInv, PanelTypeOK, SetViewMode, KeepUser
<1>2. /\ task' \in PanelTasks /\ task'.kind = task.kind /\ task'.stage = task.stage
      /\ task'.sent = task.sent /\ task'.answered = task.answered /\ task'.answer = task.answer
      /\ ~task'.calm /\ task'.same = task.same
  BY <1>1 DEF SetViewMode, Disturbed, PanelTasks
<1>3. PanelTypeOK'
  BY <1>1, <1>2 DEF PanelTypeOK, CountersOK
<1>4. SnapshotOK' /\ SavesOK'
  BY <1>1, <1>2 DEF SnapshotOK, SavesOK, InField
<1>5. WaitingOK'
  BY <1>1, <1>2 DEF WaitingOK, SameSession, InField
<1>6. PanelIsSafe'
  BY <1>1, <1>2 DEF PanelIsSafe, DraftIsKept, ExportIsComplete, InField
<1> QED BY <1>3, <1>4, <1>5, <1>6 DEF IInv

LEMMA DebouncedFacts == ASSUME IInv, Debounced PROVE IInv'
<1>1. /\ PanelTypeOK /\ SnapshotOK /\ SavesOK /\ WaitingOK /\ PanelIsSafe
      /\ saves \in Seq(Updates) /\ draft \in Drafts /\ mutation \in Changes
      /\ snap \in PanelSnapshots
  BY DEF IInv, PanelTypeOK
<1>2. /\ UNCHANGED <<stored, front, snap, mutation, draft, typed, panelEvents, elsewhere, panelFaults>>
      /\ timer' = FALSE
  BY DEF Debounced
<1>3. Rest /\ SnapshotOK' /\ DraftIsKept'
  BY <1>1, <1>2 DEF Rest, PanelTypeOK, CountersOK, SnapshotOK, InField, PanelIsSafe, DraftIsKept
<1>4. mutation' # NoMutation => mutation'.site \in Sites
  BY <1>1, <1>2 DEF SavesOK
<1>5. CASE snap.dirty /\ snap.recovery = NoRecovery
  <2>0. PICK field \in Drafts : field = InField(snap) /\ field.site \in Sites
    BY <1>1, <1>5, FieldFacts
  <2> DEFINE t == New("flush", "save", Nobody, field)
  <2>1. t \in PanelTasks /\ t.kind = "flush" /\ t.sent = field
    <3>1. "flush" \in TaskKinds /\ Nobody \in SomeItem
      BY DEF TaskKinds, SomeItem
    <3> QED BY <3>1, StartFacts
  <2>2. Send(t)
    BY <1>5, <2>0 DEF Debounced
  <2>3. /\ SavesOK' /\ saves' \in Seq(Updates) /\ task' \in PanelTasks
        /\ task' = [t EXCEPT !.stage = "save", !.answered = FALSE, !.answer = NoAnswer]
    BY <1>1, <1>4, <2>0, <2>1, <2>2, Sent
  <2>4. task'.kind = "flush" /\ task'.stage = "save" /\ ~task'.answered
    BY <2>1, <2>3 DEF PanelTasks
  <2>5. WaitingOK' /\ PanelIsSafe'
    BY <1>2, <1>3, <1>5, <2>4 DEF WaitingOK, SameSession, InField, PanelIsSafe, ExportIsComplete
  <2> QED BY <1>1, <1>2, <1>3, <2>3, <2>5 DEF IInv, PanelTypeOK, Rest
<1>6. CASE ~(snap.dirty /\ snap.recovery = NoRecovery)
  <2>1. task' = IdleTask /\ saves' = Forget
    BY <1>6 DEF Debounced
  <2> QED BY <1>1, <1>2, <1>3, <1>4, <2>1, Ended
<1> QED BY <1>5, <1>6

-----------------------------------------------------------------------------
(* Requests begin.                                                         *)

LEMMA FlushFacts == ASSUME IInv, Flush PROVE IInv'
<1>1. "flush" \in TaskKinds /\ Nobody \in SomeItem
  BY DEF TaskKinds, SomeItem
<1>2. New("flush", "save", Nobody, NoDraft) \in PanelTasks
      /\ New("flush", "save", Nobody, NoDraft).kind = "flush"
  BY <1>1, ConstantTypes, StartFacts
<1> QED BY <1>2, FlushThenFacts DEF Flush

LEMMA SelectItemFacts == ASSUME IInv, NEW i \in PanelItems, SelectItem(i) PROVE IInv'
<1>1. "select" \in TaskKinds /\ i \in SomeItem
  BY DEF TaskKinds, SomeItem
<1>2. New("select", "save", i, NoDraft) \in PanelTasks
      /\ New("select", "save", i, NoDraft).kind = "select"
  BY <1>1, ConstantTypes, StartFacts
<1> QED BY <1>2, FlushThenFacts DEF SelectItem, Blocked

LEMMA SetAnnotationLifecycleFacts ==
  ASSUME IInv, NEW i \in PanelItems, SetAnnotationLifecycle(i) PROVE IInv'
<1>1. "lifecycle" \in TaskKinds /\ i \in SomeItem
  BY DEF TaskKinds, SomeItem
<1>2. New("lifecycle", "save", i, NoDraft) \in PanelTasks
      /\ New("lifecycle", "save", i, NoDraft).kind = "lifecycle"
  BY <1>1, ConstantTypes, StartFacts
<1> QED BY <1>2, FlushThenFacts DEF SetAnnotationLifecycle, Blocked

LEMMA ReadExportFacts == ASSUME IInv, ReadExport PROVE IInv'
<1>1. "export" \in TaskKinds /\ Nobody \in SomeItem
  BY DEF TaskKinds, SomeItem
<1>2. New("export", "save", Nobody, NoDraft) \in PanelTasks
      /\ New("export", "save", Nobody, NoDraft).kind = "export"
  BY <1>1, ConstantTypes, StartFacts
<1> QED BY <1>2, FlushThenFacts DEF ReadExport, Blocked

LEMMA RemoveItemFacts == ASSUME IInv, NEW i \in PanelItems, RemoveItem(i) PROVE IInv'
<1> DEFINE t == New("remove", "save", i, NoDraft)
<1>0. "remove" \in TaskKinds /\ i \in SomeItem
  BY DEF TaskKinds, SomeItem
<1>1. t \in PanelTasks /\ t.kind = "remove"
  BY <1>0, ConstantTypes, StartFacts
<1>2. PanelTypeOK /\ SnapshotOK /\ PanelRequest /\ snap.recovery = NoRecovery
  BY DEF IInv, RemoveItem, Blocked
<1>3. CASE i = snap.item /\ snap.dirty
  <2>1. draft' = NoDraft /\ timer' = FALSE /\ saves' = Forget /\ GoOn(t, Discarded(snap))
    BY <1>3 DEF RemoveItem
  <2>2. Rest
    BY <1>2, <2>1, RequestFacts DEF Rest
  <2>3. /\ Discarded(snap) \in PanelSnapshots /\ ~Discarded(snap).dirty
        /\ Discarded(snap).recovery = NoRecovery /\ Discarded(snap).site # Nobody
    BY <1>2, <1>3, FieldFacts, EmptyFacts DEF SnapshotOK
  <2> QED BY <1>1, <2>1, <2>2, <2>3, GoOnFacts DEF Unwaited
<1>4. CASE ~(i = snap.item /\ snap.dirty)
  <2>1. FlushThen(t, snap) /\ UNCHANGED draft
    BY <1>4 DEF RemoveItem
  <2> QED BY <1>1, <1>2, <2>1, FlushThenFacts
<1> QED BY <1>3, <1>4

LEMMA ReadFacts ==
  ASSUME NEW kind \in TaskKinds, NEW stage \in {"active", "mutation", "reconcile", "exported"},
         NEW sent \in Drafts, NEW t, t = New(kind, stage, Nobody, sent)
  PROVE  /\ t \in PanelTasks /\ t.kind = kind /\ t.stage = stage /\ t.sent = sent
         /\ ~t.answered
<1>1. stage \in Stages /\ Nobody \in SomeItem
  BY DEF Stages, SomeItem
<1>2. t = [IdleTask EXCEPT !.kind = kind, !.stage = stage, !.item = Nobody, !.sent = sent]
  BY DEF New
<1>3. IdleTask \in PanelTasks /\ IdleTask.answered = FALSE
  BY ConstantTypes DEF IdleTask
<1> QED BY <1>1, <1>2, <1>3 DEF PanelTasks

LEMMA RefreshActiveOriginFacts == ASSUME IInv, RefreshActiveOrigin PROVE IInv'
<1>1. /\ PanelTypeOK /\ SnapshotOK /\ SavesOK /\ WaitingOK /\ PanelIsSafe /\ PanelRequest
      /\ snap \in PanelSnapshots /\ draft \in Drafts /\ mutation \in Changes
      /\ mutation # NoMutation => mutation.site \in Sites
  BY DEF IInv, PanelTypeOK, RefreshActiveOrigin, SavesOK
<1>2. timer' = FALSE /\ saves' = Forget /\ UNCHANGED <<snap, mutation, draft>>
  BY DEF RefreshActiveOrigin
<1>3. PICK sent \in Drafts : /\ sent = IF snap.dirty THEN InField(snap) ELSE NoDraft
                            /\ task' = New("refresh", "active", Nobody, sent)
  BY <1>1, FieldFacts, ConstantTypes DEF RefreshActiveOrigin
<1>4. /\ task' \in PanelTasks /\ task'.kind = "refresh" /\ task'.stage = "active"
      /\ task'.sent = sent
  <2>1. "refresh" \in TaskKinds
    BY DEF TaskKinds
  <2> QED BY <1>3, <2>1, ReadFacts
<1>5. Rest /\ Unwaited
  BY <1>1, <1>2, <1>4, RequestFacts DEF Rest, Unwaited
<1>6. SnapshotOK' /\ PanelIsSafe'
  BY <1>1, <1>2, <1>4 DEF SnapshotOK, InField, PanelIsSafe, DraftIsKept, ExportIsComplete
<1>7. WaitingOK'
  BY <1>2, <1>3, <1>4 DEF WaitingOK, SameSession, InField
<1> QED BY <1>1, <1>2, <1>4, <1>5, <1>6, <1>7, Assembled

LEMMA ClearSessionFacts == ASSUME IInv, ClearSession PROVE IInv'
<1>1. /\ PanelTypeOK /\ SnapshotOK /\ PanelIsSafe /\ PanelRequest
      /\ snap \in PanelSnapshots /\ timer \in BOOLEAN /\ draft \in Drafts
      /\ snap.recovery = NoRecovery /\ snap.site # Nobody
  BY DEF IInv, PanelTypeOK, ClearSession
<1>2. /\ snap' \in PanelSnapshots /\ ~snap'.dirty /\ snap'.recovery = NoRecovery
      /\ snap'.site = snap.site /\ snap'.epoch = snap.epoch
      /\ draft' = NoDraft /\ timer' \in BOOLEAN
  <2>1. CASE snap.dirty
    BY <1>1, <2>1, FieldFacts DEF ClearSession
  <2>2. CASE ~snap.dirty
    BY <1>1, <2>2, NothingTyped DEF ClearSession, PanelIsSafe
  <2> QED BY <2>1, <2>2
<1>3. /\ task' \in PanelTasks /\ task'.kind = "clear" /\ task'.stage = "mutation"
  <2>1. "clear" \in TaskKinds
    BY DEF TaskKinds
  <2>2. task' = New("clear", "mutation", Nobody, NoDraft)
    BY DEF ClearSession
  <2> QED BY <2>1, <2>2, ConstantTypes, ReadFacts
<1>4. /\ mutation' \in Changes /\ mutation'.kind = "clear"
      /\ mutation'.site = snap.site /\ mutation'.epoch = snap.epoch
  <2>1. mutation' = [NoMutation EXCEPT !.kind = "clear", !.site = snap.site, !.epoch = snap.epoch]
    BY DEF ClearSession
  <2> QED BY <1>1, <2>1, ConstantTypes DEF Changes, PanelSnapshots, TaskKinds
<1>5. mutation' # NoMutation /\ mutation'.site \in Sites
  BY <1>1, <1>4 DEF NoMutation, PanelSnapshots, AnySite
<1>6. Rest /\ Unwaited
  BY <1>1, <1>2, <1>3, RequestFacts DEF Rest, Unwaited, ClearSession
<1>7. SnapshotOK' /\ PanelIsSafe'
  BY <1>1, <1>2, <1>3 DEF SnapshotOK, PanelIsSafe, DraftIsKept, ExportIsComplete
<1>8. WaitingOK'
  BY <1>2, <1>3, <1>4, <1>5 DEF WaitingOK, SameSession
<1> QED BY <1>2, <1>3, <1>4, <1>5, <1>6, <1>7, <1>8, ConstantTypes, Assembled

LEMMA RetryDirtyIntentFacts == ASSUME IInv, RetryDirtyIntent PROVE IInv'
<1>1. /\ PanelTypeOK /\ SnapshotOK /\ SavesOK /\ PanelIsSafe /\ PanelRequest
      /\ snap \in PanelSnapshots /\ saves \in Seq(Updates) /\ timer \in BOOLEAN
      /\ mutation # NoMutation => mutation.site \in Sites
  BY DEF IInv, PanelTypeOK, RetryDirtyIntent, SavesOK
<1>2. snap.recovery # NoRecovery /\ UNCHANGED <<snap, mutation, timer, draft>>
  BY DEF RetryDirtyIntent
<1>3. PICK sent \in Drafts : /\ sent = snap.recovery.draft
                            /\ Send(New("retry", "save", Nobody, sent))
  BY <1>1 DEF RetryDirtyIntent, PanelSnapshots, Recoveries
<1>4. sent.site \in Sites
  BY <1>1, <1>2, <1>3 DEF SnapshotOK, Drafts, AnySite
<1>5. PICK t \in PanelTasks : /\ Send(t) /\ t.kind = "retry" /\ t.sent = sent /\ t.same
  <2>1. "retry" \in TaskKinds /\ Nobody \in SomeItem /\ "save" \in Stages
    BY DEF TaskKinds, SomeItem, Stages
  <2> QED BY <1>3, <2>1, NewFacts
<1>6. /\ SavesOK' /\ saves' \in Seq(Updates) /\ task' \in PanelTasks
      /\ task' = [t EXCEPT !.stage = "save", !.answered = FALSE, !.answer = NoAnswer]
  BY <1>1, <1>2, <1>4, <1>5, Sent
<1>7. /\ task'.kind = "retry" /\ task'.stage = "save" /\ ~task'.answered
      /\ task'.sent = sent /\ task'.same
  BY <1>5, <1>6 DEF PanelTasks
<1>8. PanelTypeOK'
  BY <1>1, <1>2, <1>6, RequestFacts DEF PanelTypeOK
<1>9. SnapshotOK' /\ PanelIsSafe'
  BY <1>1, <1>2, <1>7 DEF SnapshotOK, InField, PanelIsSafe, DraftIsKept, ExportIsComplete
<1>10. WaitingOK'
  BY <1>2, <1>3, <1>7 DEF WaitingOK, SameSession, InField
<1> QED BY <1>6, <1>8, <1>9, <1>10 DEF IInv

LEMMA DiscardDirtyIntentFacts == ASSUME IInv, DiscardDirtyIntent PROVE IInv'
<1>1. /\ PanelTypeOK /\ SnapshotOK /\ SavesOK /\ PanelRequest
      /\ snap \in PanelSnapshots /\ mutation \in Changes
      /\ mutation # NoMutation => mutation.site \in Sites
  BY DEF IInv, PanelTypeOK, DiscardDirtyIntent, SavesOK
<1>2. /\ snap.recovery # NoRecovery /\ timer' = FALSE /\ saves' = Forget
      /\ draft' = NoDraft /\ UNCHANGED mutation
  BY DEF DiscardDirtyIntent
<1>3. Rest /\ draft' \in Drafts
  BY <1>1, <1>2, RequestFacts, ConstantTypes DEF Rest
<1>4. snap.site # Nobody
  BY <1>1, <1>2, EmptyFacts DEF SnapshotOK
<1>5. CASE task' = IdleTask /\ ~snap.dirty /\ snap' = [snap EXCEPT !.recovery = NoRecovery]
  <2>1. /\ snap' \in PanelSnapshots /\ ~snap'.dirty /\ snap'.recovery = NoRecovery
        /\ snap'.site = snap.site
    BY <1>1, <1>5, ConstantTypes DEF PanelSnapshots
  <2>2. SnapshotOK' /\ DraftIsKept'
    BY <1>2, <1>4, <2>1 DEF SnapshotOK, DraftIsKept
  <2> QED BY <1>1, <1>2, <1>3, <1>5, <2>1, <2>2, Ended
<1>6. CASE task' = New("discard", "active", Nobody, NoDraft) /\ UNCHANGED snap
  <2>1. task' \in PanelTasks /\ task'.kind = "discard" /\ task'.stage = "active"
    <3>1. "discard" \in TaskKinds
      BY DEF TaskKinds
    <3> QED BY <1>6, <3>1, ConstantTypes, ReadFacts
  <2>2. Unwaited
    BY <1>2, <2>1 DEF Unwaited
  <2>3. SnapshotOK' /\ PanelIsSafe'
    BY <1>1, <1>2, <1>6, <2>1
    DEF SnapshotOK, InField, PanelIsSafe, DraftIsKept, ExportIsComplete
  <2>4. WaitingOK'
    BY <1>2, <1>6, <2>1 DEF WaitingOK, SameSession, InField
  <2> QED BY <1>1, <1>2, <1>3, <1>6, <2>1, <2>2, <2>3, <2>4, Assembled
<1> QED BY <1>5, <1>6 DEF DiscardDirtyIntent

-----------------------------------------------------------------------------
(* The background answers.                                                 *)

LEMMA AnsweredFacts ==
  ASSUME task \in PanelTasks, NEW ok \in BOOLEAN, NEW rb \in Readbacks, NEW t, t = Answered(ok, rb)
  PROVE  /\ t \in PanelTasks /\ t.kind = task.kind /\ t.stage = task.stage /\ t.sent = task.sent
         /\ t.calm = task.calm /\ t.same = task.same
         /\ t.answered /\ t.answer.ok = ok
<1>1. PICK a \in PanelAnswers : a.ok = ok /\ a = [ok |-> ok, data |-> rb]
  BY DEF PanelAnswers
<1>2. t = [task EXCEPT !.answered = TRUE, !.answer = a]
  BY <1>1 DEF Answered
<1>3. /\ t \in PanelTasks /\ t.kind = task.kind /\ t.stage = task.stage /\ t.sent = task.sent
      /\ t.calm = task.calm /\ t.same = task.same /\ t.answered /\ t.answer = a
  BY <1>2 DEF PanelTasks
<1> QED BY <1>1, <1>3

LEMMA FaultFacts ==
  ASSUME PanelTypeOK, NoResponse \/ Responds
  PROVE  panelFaults' \in 0 .. MaxPanelFaults
<1>1. MaxPanelFaults \in Nat
  BY PanelConstantsOK
<1> QED BY <1>1 DEF PanelTypeOK, CountersOK, NoResponse, Responds

LEMMA BackgroundReadsFacts == ASSUME IInv, BackgroundReads PROVE IInv'
<1>1. /\ PanelTypeOK /\ SnapshotOK /\ SavesOK /\ WaitingOK /\ PanelIsSafe
      /\ task \in PanelTasks /\ stored \in PanelStores /\ front \in AnySite
  BY DEF IInv, PanelTypeOK
<1>2. /\ task.stage \in {"active", "reconcile"} /\ (NoResponse \/ Responds)
      /\ UNCHANGED <<stored, saves, mutation, draft, front, snap, timer, elsewhere,
                     typed, panelEvents>>
  BY DEF BackgroundReads, Keeps, KeepUser
<1>3. /\ task' \in PanelTasks /\ task'.kind = task.kind /\ task'.stage = task.stage
      /\ task'.sent = task.sent /\ task'.calm = task.calm /\ task'.same = task.same
  <2>1. (IF front = Nobody THEN EmptySnap ELSE Readback(stored, front)) \in Readbacks
    BY <1>1, ReadbackFacts, ConstantTypes DEF AnySite
  <2>2. PICK ok \in BOOLEAN, rb \in Readbacks : task' = Answered(ok, rb)
    BY <2>1, ConstantTypes DEF BackgroundReads
  <2> QED BY <1>1, <2>2, AnsweredFacts
<1>4. PanelTypeOK'
  BY <1>1, <1>2, <1>3, FaultFacts DEF PanelTypeOK, CountersOK
<1>5. SnapshotOK' /\ SavesOK'
  BY <1>1, <1>2, <1>3 DEF SnapshotOK, SavesOK, InField
<1>6. WaitingOK'
  BY <1>1, <1>2, <1>3 DEF WaitingOK, SameSession, InField
<1>7. PanelIsSafe'
  BY <1>1, <1>2, <1>3 DEF PanelIsSafe, DraftIsKept, ExportIsComplete, InField
<1> QED BY <1>4, <1>5, <1>6, <1>7 DEF IInv

LEMMA BackgroundSavesFacts == ASSUME IInv, BackgroundSaves PROVE IInv'
<1> DEFINE save == Head(saves)
           at == save.to
<1>1. /\ PanelTypeOK /\ SnapshotOK /\ SavesOK /\ WaitingOK /\ PanelIsSafe
      /\ task \in PanelTasks /\ stored \in PanelStores /\ front \in AnySite
      /\ saves \in Seq(Updates) /\ draft \in Drafts
  BY DEF IInv, PanelTypeOK
<1>2. /\ saves # <<>> /\ saves' = Tail(saves) /\ (NoResponse \/ Responds)
      /\ UNCHANGED <<mutation, front, snap, timer, elsewhere, typed, panelEvents>>
  BY DEF BackgroundSaves, Keeps, KeepUser
<1>3. /\ save \in Updates /\ save = saves[1] /\ 1 \in DOMAIN saves
      /\ DOMAIN saves = 1 .. Len(saves) /\ Len(saves) \in Nat
      /\ saves' \in Seq(Updates) /\ DOMAIN saves' = 1 .. Len(saves')
      /\ Len(saves') = Len(saves) - 1
      /\ \A k \in DOMAIN saves' : k + 1 \in DOMAIN saves /\ saves'[k] = saves[k + 1]
  <2>1. Len(saves) \in Nat /\ Len(saves) # 0 /\ DOMAIN saves = 1 .. Len(saves)
    BY <1>1, <1>2
  <2>2. saves' \in Seq(Updates) /\ Len(saves') = Len(saves) - 1
    BY <1>1, <1>2
  <2>3. DOMAIN saves' = 1 .. Len(saves')
    BY <2>2
  <2>4. ASSUME NEW k \in DOMAIN saves' PROVE k + 1 \in DOMAIN saves /\ saves'[k] = saves[k + 1]
    BY <1>1, <1>2, <2>1, <2>2, <2>3
  <2>5. save = saves[1] /\ 1 \in DOMAIN saves /\ save \in Updates
    BY <1>1, <2>1
  <2> QED BY <2>1, <2>2, <2>3, <2>4, <2>5
<1>4. /\ at \in Drafts /\ at.site \in Sites
      /\ save.mine => /\ 1 = Len(saves) /\ task.stage = "save" /\ ~task.answered /\ at = task.sent
  BY <1>1, <1>3 DEF SavesOK, Updates
<1>5. stored' \in PanelStores
  <2>1. CASE UNCHANGED stored
    BY <1>1, <2>1
  <2>2. CASE /\ Has(stored[at.site], at.item)
             /\ stored' = [stored EXCEPT ![at.site].notes[at.item] = at.text]
    <3>1. at.item \in PanelItems /\ at.text \in Notes
      BY <1>4, <2>2 DEF Has, Drafts
    <3> QED BY <1>1, <1>4, <2>2, <3>1 DEF PanelStores, NoteLists
  <2> QED BY <2>1, <2>2 DEF BackgroundSaves
<1>6. PICK ok \in BOOLEAN :
        /\ task' = IF save.mine THEN Answered(ok, Readback(stored', at.site)) ELSE task
        /\ ok => draft' = IF draft = at /\ ~(\E k \in 2 .. Len(saves) : /\ saves[k].to # at
                                        /\ saves[k].to = [at EXCEPT !.text = saves[k].to.text])
                         THEN NoDraft ELSE draft
  BY DEF BackgroundSaves
<1>7. draft' = draft \/ draft' = NoDraft
  BY DEF BackgroundSaves
<1>8. /\ task' \in PanelTasks /\ task'.kind = task.kind /\ task'.stage = task.stage
      /\ task'.sent = task.sent /\ task'.calm = task.calm /\ task'.same = task.same
      /\ ~save.mine => task' = task
      /\ save.mine => task'.answer.ok = ok
  <2>1. CASE ~save.mine
    BY <1>1, <1>6, <2>1
  <2>2. CASE save.mine
    <3>1. PICK rb \in Readbacks : task' = Answered(ok, rb)
      BY <1>4, <1>5, <1>6, <2>2, ReadbackFacts
    <3> QED BY <1>1, <2>2, <3>1, AnsweredFacts
  <2> QED BY <2>1, <2>2
<1>9. save.mine /\ ok => draft' = NoDraft \/ draft' # task.sent
  <2> SUFFICES ASSUME save.mine, ok PROVE draft' = NoDraft \/ draft' # task.sent
    OBVIOUS
  <2>1. Len(saves) = 1 /\ at = task.sent
    BY <1>4
  <2>2. ~(\E k \in 2 .. Len(saves) : /\ saves[k].to # at
                                      /\ saves[k].to = [at EXCEPT !.text = saves[k].to.text])
    BY <2>1
  <2> QED BY <1>6, <2>1, <2>2
<1>10. PanelTypeOK'
  BY <1>1, <1>2, <1>3, <1>5, <1>7, <1>8, FaultFacts, ConstantTypes DEF PanelTypeOK, CountersOK
<1>11. SnapshotOK'
  BY <1>1, <1>2 DEF SnapshotOK, InField
<1>12. SavesOK'
  <2>1. \A k \in DOMAIN saves' :
          /\ saves'[k].to.site \in Sites
          /\ saves'[k].mine => /\ k = Len(saves') /\ task'.stage = "save" /\ ~task'.answered
                               /\ saves'[k].to = task'.sent
    <3> SUFFICES ASSUME NEW k \in DOMAIN saves'
                 PROVE  /\ saves'[k].to.site \in Sites
                        /\ saves'[k].mine => /\ k = Len(saves') /\ task'.stage = "save"
                                             /\ ~task'.answered /\ saves'[k].to = task'.sent
      OBVIOUS
    <3>1. k + 1 \in DOMAIN saves /\ saves'[k] = saves[k + 1] /\ k \in Nat /\ k # 0
      BY <1>3
    <3>2. saves[k + 1].mine => k + 1 = Len(saves) /\ ~save.mine
      <4>1. saves[k + 1].mine => k + 1 = Len(saves)
        BY <1>1, <3>1 DEF SavesOK
      <4> QED BY <1>3, <1>4, <3>1, <4>1
    <3> QED BY <1>1, <1>3, <1>8, <3>1, <3>2 DEF SavesOK
  <2> QED BY <1>1, <1>2, <1>8, <2>1 DEF SavesOK
<1>13. WaitingOK'
  <2>1. task'.stage = "save" /\ task'.answered /\ task'.answer.ok /\ task'.same =>
          draft' = NoDraft \/ draft' # task'.sent
    <3>1. CASE save.mine
      BY <1>8, <1>9, <3>1
    <3>2. CASE ~save.mine
      BY <1>1, <1>7, <1>8, <3>2 DEF WaitingOK
    <3> QED BY <3>1, <3>2
  <2> QED BY <1>1, <1>2, <1>7, <1>8, <2>1 DEF WaitingOK, SameSession, InField
<1>14. PanelIsSafe'
  BY <1>1, <1>2, <1>7, <1>8 DEF PanelIsSafe, DraftIsKept, ExportIsComplete, InField
<1> QED BY <1>10, <1>11, <1>12, <1>13, <1>14 DEF IInv

LEMMA SiteClearedFacts ==
  ASSUME stored \in PanelStores, NEW s \in Sites PROVE SiteCleared(s) \in PanelStores
<1>1. stored[s].epoch + 1 \in Nat /\ [i \in PanelItems |-> Gone] \in NoteLists
  BY DEF PanelStores, NoteLists
<1> QED BY <1>1 DEF SiteCleared, PanelStores

LEMMA BackgroundMutatesFacts == ASSUME IInv, BackgroundMutates PROVE IInv'
<1>1. /\ PanelTypeOK /\ SnapshotOK /\ SavesOK /\ WaitingOK /\ PanelIsSafe
      /\ stored \in PanelStores /\ mutation \in Changes
  BY DEF IInv, PanelTypeOK
<1>2. /\ mutation # NoMutation /\ ~mutation.answered /\ (NoResponse \/ Responds)
      /\ UNCHANGED <<saves, task, draft, front, snap, timer, elsewhere, typed, panelEvents>>
  BY DEF BackgroundMutates, Keeps, KeepUser
<1>3. mutation.site \in Sites
  BY <1>1, <1>2 DEF SavesOK
<1>4. stored' \in PanelStores
  <2>1. CASE UNCHANGED stored
    BY <1>1, <2>1
  <2>2. CASE /\ Has(stored[mutation.site], mutation.item)
             /\ stored' = [stored EXCEPT ![mutation.site].notes[mutation.item] = Gone]
    <3>1. mutation.item \in PanelItems
      BY <2>2 DEF Has
    <3> QED BY <1>1, <1>3, <2>2, <3>1 DEF PanelStores, NoteLists
  <2>3. CASE stored' = SiteCleared(mutation.site)
    BY <1>1, <1>3, <2>3, SiteClearedFacts
  <2>4. CASE stored' = [stored EXCEPT ![mutation.site].clearing = TRUE]
    BY <1>1, <1>3, <2>4 DEF PanelStores
  <2> QED BY <2>1, <2>2, <2>3, <2>4 DEF BackgroundMutates
<1>5. PICK ok \in BOOLEAN :
        mutation' = [mutation EXCEPT !.answered = TRUE,
                       !.answer = [ok |-> ok, data |-> Readback(stored', mutation.site)]]
  BY DEF BackgroundMutates
<1>6. /\ mutation' \in Changes /\ mutation'.site = mutation.site
      /\ mutation'.epoch = mutation.epoch /\ mutation'.answered
  <2>1. PICK a \in PanelAnswers : mutation' = [mutation EXCEPT !.answered = TRUE, !.answer = a]
    BY <1>3, <1>4, <1>5, ReadbackFacts DEF PanelAnswers
  <2> QED BY <1>1, <2>1 DEF Changes
<1>7. mutation' # NoMutation
  BY <1>6 DEF NoMutation
<1>8. PanelTypeOK'
  BY <1>1, <1>2, <1>4, <1>6, FaultFacts DEF PanelTypeOK, CountersOK
<1>9. SnapshotOK' /\ SavesOK'
  BY <1>1, <1>2, <1>3, <1>6 DEF SnapshotOK, SavesOK, InField
<1>10. WaitingOK'
  BY <1>1, <1>2, <1>6, <1>7 DEF WaitingOK, SameSession, InField
<1>11. PanelIsSafe'
  BY <1>1, <1>2 DEF PanelIsSafe, DraftIsKept, ExportIsComplete, InField
<1> QED BY <1>8, <1>9, <1>10, <1>11 DEF IInv

LEMMA ElsewhereFacts == ASSUME IInv, Elsewhere PROVE IInv'
<1>1. /\ PanelTypeOK /\ SnapshotOK /\ SavesOK /\ WaitingOK /\ PanelIsSafe
      /\ stored \in PanelStores /\ front \in AnySite
  BY DEF IInv, PanelTypeOK
<1>2. UNCHANGED <<snap, task, saves, mutation, timer, draft, panelFaults, typed, panelEvents>>
  BY DEF Elsewhere, KeepUser
<1>3. front' \in AnySite
  BY <1>1 DEF Elsewhere, AnySite
<1>4. stored' \in PanelStores
  <2>1. CASE UNCHANGED stored
    BY <1>1, <2>1
  <2>2. CASE \E s \in Sites, i \in PanelItems :
               stored' = [stored EXCEPT ![s].notes[i] = IF @ = Gone THEN "" ELSE Gone]
    <3>1. PICK s \in Sites, i \in PanelItems :
            stored' = [stored EXCEPT ![s].notes[i] = IF @ = Gone THEN "" ELSE Gone]
      BY <2>2
    <3>2. PICK note \in Notes \cup {Gone} : stored' = [stored EXCEPT ![s].notes[i] = note]
      BY <1>1, <3>1 DEF Notes
    <3> QED BY <1>1, <3>2 DEF PanelStores, NoteLists
  <2>3. CASE \E s \in Sites : stored' = SiteCleared(s)
    BY <1>1, <2>3, SiteClearedFacts
  <2> QED BY <2>1, <2>2, <2>3 DEF Elsewhere
<1>5. elsewhere' \in 0 .. MaxElsewhere
  <2>1. MaxElsewhere \in Nat
    BY PanelConstantsOK
  <2>2. Other \/ elsewhere' = elsewhere
    BY DEF Elsewhere
  <2> QED BY <1>1, <2>1, <2>2 DEF Other, PanelTypeOK, CountersOK
<1>6. PanelTypeOK'
  BY <1>1, <1>2, <1>3, <1>4, <1>5 DEF PanelTypeOK, CountersOK
<1>7. SnapshotOK' /\ SavesOK'
  BY <1>1, <1>2 DEF SnapshotOK, SavesOK, InField
<1>8. WaitingOK'
  BY <1>1, <1>2 DEF WaitingOK, SameSession, InField
<1>9. PanelIsSafe'
  BY <1>1, <1>2 DEF PanelIsSafe, DraftIsKept, ExportIsComplete, InField
<1> QED BY <1>6, <1>7, <1>8, <1>9 DEF IInv

-----------------------------------------------------------------------------
(* The panel goes on with an answer.                                       *)

LEMMA GoesOnFacts ==
  ASSUME IInv, GoesOn
  PROVE  /\ PanelTypeOK /\ SnapshotOK /\ SavesOK /\ WaitingOK /\ DraftIsKept
         /\ snap \in PanelSnapshots /\ task \in PanelTasks /\ mutation \in Changes
         /\ saves \in Seq(Updates) /\ task.answer.data \in Readbacks /\ task.active \in Readbacks
         /\ task.sent \in Drafts
         /\ mutation # NoMutation => mutation.site \in Sites
         /\ draft' = draft /\ draft' \in Drafts /\ Rest
  BY DEF IInv, PanelTypeOK, CountersOK, GoesOn, KeepUser, Rest, SavesOK, PanelIsSafe, PanelTasks,
         PanelAnswers

\* A request that ends with its answer, and shows what it read or nothing new.
LEMMA EndsFacts ==
  ASSUME IInv, GoesOn, EndTask, UNCHANGED saves, task.answered \/ task.stage # "save",
         snap' \in PanelSnapshots, SnapshotOK', DraftIsKept'
  PROVE  IInv'
  BY GoesOnFacts, Ended DEF EndTask

LEMMA SameShown ==
  ASSUME IInv, GoesOn, UNCHANGED snap
  PROVE  snap' \in PanelSnapshots /\ SnapshotOK' /\ DraftIsKept'
  BY GoesOnFacts DEF SnapshotOK, DraftIsKept, InField

LEMMA InitializedFacts == ASSUME IInv, Initialized PROVE IInv'
<1>1. GoesOn /\ EndTask /\ UNCHANGED saves /\ task.answered /\ task.kind = "initialize"
  BY DEF Initialized, Arrived
<1>2. CASE task.answer.ok
  <2>1. Shown(task.answer.data, AnyItem, NoRecovery)
    BY <1>2 DEF Initialized
  <2>2. draft = NoDraft
    BY <1>1, GoesOnFacts, EmptyFacts DEF WaitingOK, DraftIsKept
  <2> QED BY <1>1, <2>1, <2>2, GoesOnFacts, ConstantTypes, ShownFacts, EndsFacts DEF DraftIsKept
<1>3. CASE ~task.answer.ok
  BY <1>1, <1>3, SameShown, EndsFacts DEF Initialized
<1> QED BY <1>2, <1>3

\* With nothing put aside, what was typed is in the field.
LEMMA TypedIsInField ==
  ASSUME DraftIsKept, snap.recovery = NoRecovery
  PROVE  draft = NoDraft \/ (snap.dirty /\ draft = InField(snap))
  BY EmptyFacts DEF DraftIsKept

\* The note that was sent was saved, and nothing was typed since.
LEMMA SavedFacts ==
  ASSUME WaitingOK, DraftIsKept, StillCurrent, task.answered, task.answer.ok,
         task.stage = "save", task.kind # "retry"
  PROVE  draft = NoDraft
<1>1. snap.recovery = NoRecovery /\ InField(snap) = task.sent /\ task.same
  BY DEF WaitingOK, StillCurrent
<1> QED BY <1>1, TypedIsInField DEF WaitingOK

LEMMA RefreshReadFacts == ASSUME IInv, RefreshRead PROVE IInv'
<1> DEFINE active == task.answer.data
           r == snap.recovery
           aside == [draft |-> task.sent, pending |-> active.site]
<1>1. GoesOn /\ task.kind = "refresh" /\ task.stage = "active" /\ task.answered
  BY DEF RefreshRead, Arrived
<1>2. /\ WaitingOK /\ SnapshotOK /\ DraftIsKept /\ active \in Readbacks /\ r \in Recoveries
      /\ draft' = draft /\ task.sent \in Drafts /\ task \in PanelTasks
  BY <1>1, GoesOnFacts DEF PanelSnapshots
<1>3. CASE EndTask /\ UNCHANGED <<snap, saves>>
  BY <1>1, <1>3, SameShown, EndsFacts
<1>4. CASE /\ r # NoRecovery /\ EndTask /\ UNCHANGED saves
           /\ SameSession(active, r.draft) /\ Shown(active, snap.item, r)
  <2>1. r.draft.site # Nobody /\ active.site # Nobody
    BY <1>2, <1>4 DEF SnapshotOK, SameSession
  <2>2. snap' \in PanelSnapshots /\ snap'.recovery = r /\ SnapshotOK'
    BY <1>2, <1>4, <2>1, ShownFacts
  <2>3. DraftIsKept'
    BY <1>2, <1>4, <2>2 DEF DraftIsKept, SnapshotOK
  <2> QED BY <1>1, <1>4, <2>2, <2>3, EndsFacts
<1>5. CASE /\ r = NoRecovery /\ ~snap.dirty /\ EndTask /\ UNCHANGED saves
           /\ Shown(active, AnyItem, NoRecovery)
  <2>1. draft' = NoDraft
    BY <1>2, <1>5, TypedIsInField
  <2>2. snap' \in PanelSnapshots /\ SnapshotOK'
    BY <1>2, <1>5, ConstantTypes, ShownFacts
  <2> QED BY <1>1, <1>5, <2>1, <2>2, EndsFacts DEF DraftIsKept
<1>6. CASE /\ r = NoRecovery /\ snap.dirty /\ task.calm /\ SameSession(active, task.sent)
           /\ Shown(active, snap.item, aside) /\ EndTask /\ UNCHANGED saves
  <2>1. task.sent = InField(snap) /\ snap.site \in Sites
    BY <1>1, <1>2, <1>6, GoesOnFacts, FieldFacts DEF WaitingOK
  <2>2. task.sent.site \in Sites /\ active.site \in Sites
    BY <1>6, <2>1 DEF SameSession, InField
  <2>3. aside \in Recoveries /\ aside.draft = task.sent
    BY <1>2, <2>2 DEF Recoveries, AnySite
  <2>4. snap' \in PanelSnapshots /\ snap'.recovery = aside /\ SnapshotOK'
    <3>1. active.site # Nobody /\ aside.draft.site # Nobody
      BY <2>2, <2>3, PanelNamesOK
    <3> HIDE DEF aside
    <3> QED BY <1>2, <1>6, <2>3, <3>1, ShownFacts
  <2>5. DraftIsKept'
    BY <1>2, <1>6, <2>1, <2>3, <2>4, TypedIsInField DEF DraftIsKept
  <2> QED BY <1>1, <1>6, <2>4, <2>5, EndsFacts
<1>7. CASE /\ r = NoRecovery /\ snap.dirty /\ task.calm
           /\ Send([task EXCEPT !.active = active]) /\ UNCHANGED <<snap, mutation>>
  <2> DEFINE t == [task EXCEPT !.active = active]
  <2>1. t \in PanelTasks /\ t.sent = task.sent /\ t.kind = "refresh"
    BY <1>1, <1>2 DEF PanelTasks
  <2>2. task.sent.site \in Sites
    BY <1>1, <1>2, <1>7, GoesOnFacts, FieldFacts DEF WaitingOK
  <2>3. mutation' # NoMutation => mutation'.site \in Sites
    BY <1>1, <1>7, GoesOnFacts
  <2>4. /\ SavesOK' /\ saves' \in Seq(Updates) /\ task' \in PanelTasks
        /\ task' = [t EXCEPT !.stage = "save", !.answered = FALSE, !.answer = NoAnswer]
    BY <1>1, <1>7, <2>1, <2>2, <2>3, GoesOnFacts, Sent
  <2>5. task'.kind = "refresh" /\ task'.stage = "save" /\ ~task'.answered
    BY <2>1, <2>4 DEF PanelTasks
  <2>6. PanelTypeOK'
    BY <1>1, <1>7, <2>4, GoesOnFacts DEF PanelTypeOK, Rest
  <2>7. SnapshotOK' /\ DraftIsKept'
    BY <1>1, <1>7, SameShown
  <2>8. WaitingOK' /\ PanelIsSafe'
    BY <1>7, <2>5, <2>7 DEF WaitingOK, SameSession, InField, PanelIsSafe, ExportIsComplete
  <2> QED BY <2>4, <2>6, <2>7, <2>8 DEF IInv
<1> QED BY <1>3, <1>4, <1>5, <1>6, <1>7 DEF RefreshRead

LEMMA RefreshSavedFacts == ASSUME IInv, RefreshSaved PROVE IInv'
<1> DEFINE aside == [draft |-> task.sent, pending |-> task.active.site]
<1>1. /\ GoesOn /\ task.kind = "refresh" /\ task.stage = "save" /\ task.answered
      /\ EndTask /\ UNCHANGED saves
  BY DEF RefreshSaved, Arrived
<1>2. /\ WaitingOK /\ SnapshotOK /\ SavesOK /\ DraftIsKept /\ snap \in PanelSnapshots
      /\ task.active \in Readbacks /\ task.answer.data \in Readbacks
      /\ draft' = draft /\ task.sent \in Drafts /\ snap.recovery = NoRecovery
  BY <1>1, GoesOnFacts DEF WaitingOK
<1>3. CASE UNCHANGED snap
  BY <1>1, <1>3, SameShown, EndsFacts
<1>4. CASE StillCurrent /\ ~task.answer.ok /\ ~UNCHANGED snap
  <2>1. task.sent = InField(snap) /\ task.sent.site \in Sites /\ snap.dirty
    BY <1>1, <1>2, <1>4 DEF StillCurrent, SavesOK
  <2>2. aside \in Recoveries /\ aside.draft = task.sent /\ aside.draft.site # Nobody
    BY <1>2, <2>1, PanelNamesOK DEF Recoveries, Readbacks, PanelSnapshots
  <2> HIDE DEF aside
  <2>3. CASE SameSession(task.active, task.sent) /\ Shown(task.active, snap.item, aside)
    <3>1. task.active.site # Nobody
      BY <2>1, <2>3, PanelNamesOK DEF SameSession
    <3>2. snap' \in PanelSnapshots /\ snap'.recovery = aside /\ SnapshotOK'
      BY <1>2, <2>2, <2>3, <3>1, ShownFacts
    <3>3. DraftIsKept'
      BY <1>2, <2>1, <2>2, <3>2, TypedIsInField DEF DraftIsKept
    <3> QED BY <1>1, <3>2, <3>3, EndsFacts
  <2>4. CASE snap' = [snap EXCEPT !.recovery = aside]
    <3>1. /\ snap' \in PanelSnapshots /\ snap'.recovery = aside /\ snap'.site = snap.site
          /\ InField(snap') = InField(snap) /\ snap'.dirty
      BY <1>2, <2>1, <2>2, <2>4 DEF PanelSnapshots, InField
    <3>2. snap.site # Nobody
      BY <1>2, <2>1, EmptyFacts DEF SnapshotOK
    <3>3. SnapshotOK'
      <4>1. SnapshotOK' = (/\ snap'.site = Nobody => snap' = EmptySnap
                           /\ snap'.recovery # NoRecovery => snap'.recovery.draft.site # Nobody
                           /\ snap'.recovery # NoRecovery /\ snap'.dirty =>
                                snap'.recovery.draft = InField(snap'))
        BY DEF SnapshotOK, InField
      <4> QED BY <2>1, <2>2, <3>1, <3>2, <4>1
    <3>4. DraftIsKept'
      <4>1. DraftIsKept' = (draft' # NoDraft => \/ snap'.dirty /\ InField(snap') = draft'
                                               \/ snap'.recovery.draft = draft')
        BY DEF DraftIsKept, InField
      <4> QED BY <1>2, <3>1, <4>1, TypedIsInField
    <3> QED BY <1>1, <3>1, <3>3, <3>4, EndsFacts
  <2> QED BY <1>4, <2>3, <2>4 DEF RefreshSaved, aside
<1>5. CASE StillCurrent /\ task.answer.ok /\ ~UNCHANGED snap
  <2>1. draft' = NoDraft
    BY <1>1, <1>2, <1>5, SavedFacts
  <2>2. PICK rb \in Readbacks : Shown(rb, AnyItem, NoRecovery)
    BY <1>2, <1>5 DEF RefreshSaved
  <2>3. snap' \in PanelSnapshots /\ SnapshotOK'
    BY <2>2, ConstantTypes, ShownFacts
  <2> QED BY <1>1, <2>1, <2>3, EndsFacts DEF DraftIsKept
<1> QED BY <1>3, <1>4, <1>5 DEF RefreshSaved

LEMMA FlushAnsweredFacts == ASSUME IInv, FlushAnswered PROVE IInv'
<1>1. /\ GoesOn /\ UNCHANGED saves /\ task.stage = "save" /\ task.answered
      /\ task.kind \in {"flush", "select", "lifecycle", "remove", "export"}
  BY DEF FlushAnswered, Arrived
<1>2. CASE StillCurrent /\ task.answer.ok
  <2>1. PICK s \in Applied(task.answer.data, task.sent.item, NoRecovery) :
          \/ snap' = s /\ EndTask
          \/ GoOn(task, s)
    BY <1>2 DEF FlushAnswered
  <2>2. draft' = NoDraft
    BY <1>1, <1>2, GoesOnFacts, SavedFacts
  <2>3. /\ s \in PanelSnapshots /\ s.dirty = FALSE /\ s.recovery = NoRecovery
        /\ s.site = Nobody => s = EmptySnap
    <3>1. /\ s \in PanelSnapshots /\ ~s.dirty /\ s.site = task.answer.data.site
          /\ task.answer.data.site # Nobody => s.recovery = NoRecovery
          /\ task.answer.data.site = Nobody => s = EmptySnap
      BY <1>1, GoesOnFacts, ConstantTypes, AppliedFacts
    <3>2. s.dirty = FALSE
      BY <3>1 DEF PanelSnapshots
    <3> QED BY <3>1, <3>2, EmptyFacts
  <2>4. CASE snap' = s /\ EndTask
    <3>1. snap' \in PanelSnapshots /\ SnapshotOK' /\ DraftIsKept'
      BY <2>2, <2>3, <2>4 DEF SnapshotOK, DraftIsKept
    <3> QED BY <1>1, <2>4, <3>1, EndsFacts
  <2>5. CASE GoOn(task, s)
    <3>1. task'.stage # "save" => Unwaited
      BY <1>1, GoesOnFacts, NoneWaits DEF Unwaited
    <3> QED BY <1>1, <2>2, <2>3, <2>5, <3>1, GoesOnFacts, GoOnFacts
  <2> QED BY <2>1, <2>4, <2>5
<1>3. CASE ~(StillCurrent /\ task.answer.ok)
  BY <1>1, <1>3, SameShown, EndsFacts DEF FlushAnswered
<1> QED BY <1>2, <1>3

LEMMA ExportReadFacts == ASSUME IInv, ExportRead PROVE IInv'
<1>1. /\ GoesOn /\ UNCHANGED <<saves, mutation>>
      /\ task.kind = "export" /\ task.stage = "active" /\ task.answered
  BY DEF ExportRead, Arrived
<1>2. CASE /\ task.calm /\ Shown(task.answer.data, snap.item, NoRecovery)
           /\ task' = New("export", "exported", Nobody, NoDraft)
  <2>1. draft' = NoDraft
    BY <1>1, <1>2, GoesOnFacts DEF WaitingOK
  <2>2. task' \in PanelTasks /\ task'.kind = "export" /\ task'.stage = "exported"
    <3>1. "export" \in TaskKinds
      BY DEF TaskKinds
    <3> QED BY <1>2, <3>1, ConstantTypes, ReadFacts
  <2>3. snap' \in PanelSnapshots /\ SnapshotOK'
    BY <1>1, <1>2, GoesOnFacts, ConstantTypes, ShownFacts
  <2>4. Unwaited
    BY <1>1, <2>2, GoesOnFacts, NoneWaits DEF Unwaited
  <2>5. WaitingOK' /\ PanelIsSafe'
    BY <2>1, <2>2 DEF WaitingOK, SameSession, InField, PanelIsSafe, DraftIsKept, ExportIsComplete
  <2> QED BY <1>1, <2>1, <2>2, <2>3, <2>4, <2>5, GoesOnFacts, Assembled
<1>3. CASE task' = IdleTask /\ UNCHANGED snap
  BY <1>1, <1>3, SameShown, EndsFacts DEF EndTask
<1> QED BY <1>2, <1>3 DEF ExportRead

LEMMA RetrySavedFacts == ASSUME IInv, RetrySaved PROVE IInv'
<1>1. /\ GoesOn /\ UNCHANGED <<saves, mutation>>
      /\ task.kind = "retry" /\ task.stage = "save" /\ task.answered
  BY DEF RetrySaved, Arrived
<1>2. CASE ~task.answer.ok
  BY <1>1, <1>2, SameShown, EndsFacts DEF EndTask, RetrySaved
<1>3. CASE task.answer.ok
  <2>1. /\ snap.recovery # NoRecovery /\ task.sent = snap.recovery.draft
        /\ draft = NoDraft \/ draft # task.sent
    BY <1>1, <1>3, GoesOnFacts DEF WaitingOK
  <2>2. draft' = NoDraft /\ snap.site # Nobody
    BY <1>1, <2>1, GoesOnFacts, EmptyFacts DEF DraftIsKept, SnapshotOK
  <2>3. CASE /\ snap' = [snap EXCEPT !.recovery = NoRecovery, !.dirty = FALSE]
             /\ task' = New("retry", "active", Nobody, NoDraft)
    <3>1. /\ snap' \in PanelSnapshots /\ snap'.dirty = FALSE /\ snap'.recovery = NoRecovery
          /\ snap'.site = snap.site
      BY <1>1, <2>3, GoesOnFacts, ConstantTypes DEF PanelSnapshots
    <3>2. task' \in PanelTasks /\ task'.kind = "retry" /\ task'.stage = "active"
      <4>1. "retry" \in TaskKinds
        BY DEF TaskKinds
      <4> QED BY <2>3, <4>1, ConstantTypes, ReadFacts
    <3>3. Unwaited
      BY <1>1, <3>2, GoesOnFacts, NoneWaits DEF Unwaited
    <3>4. SnapshotOK'
      BY <2>2, <3>1 DEF SnapshotOK
    <3>5. WaitingOK' /\ PanelIsSafe'
      BY <2>2, <3>2 DEF WaitingOK, SameSession, InField, PanelIsSafe, DraftIsKept, ExportIsComplete
    <3> QED BY <1>1, <2>2, <3>1, <3>2, <3>3, <3>4, <3>5, GoesOnFacts, Assembled
  <2>4. CASE task' = IdleTask /\ Shown(task.answer.data, task.sent.item, NoRecovery)
    <3>1. snap' \in PanelSnapshots /\ SnapshotOK'
      BY <1>1, <2>4, GoesOnFacts, ConstantTypes, ShownFacts
    <3> QED BY <1>1, <2>2, <2>4, <3>1, EndsFacts DEF EndTask, DraftIsKept
  <2> QED BY <1>3, <2>3, <2>4 DEF RetrySaved
<1> QED BY <1>2, <1>3

\* A request for which nothing is typed shows what it read.
LEMMA ReadShown ==
  ASSUME IInv, GoesOn, EndTask, UNCHANGED saves, task.answered, draft = NoDraft,
         UNCHANGED snap \/ Shown(task.answer.data, AnyItem, NoRecovery)
  PROVE  IInv'
<1>1. CASE UNCHANGED snap
  BY <1>1, SameShown, EndsFacts
<1>2. CASE Shown(task.answer.data, AnyItem, NoRecovery)
  <2>1. snap' \in PanelSnapshots /\ SnapshotOK' /\ DraftIsKept'
    BY <1>2, GoesOnFacts, ConstantTypes, ShownFacts DEF DraftIsKept
  <2> QED BY <2>1, EndsFacts
<1> QED BY <1>1, <1>2

LEMMA RetryReadFacts == ASSUME IInv, RetryRead PROVE IInv'
<1>1. draft = NoDraft /\ GoesOn /\ EndTask /\ UNCHANGED saves /\ task.answered
  BY DEF RetryRead, Arrived, IInv, WaitingOK
<1> QED BY <1>1, ReadShown DEF RetryRead

LEMMA DiscardReadFacts == ASSUME IInv, DiscardRead PROVE IInv'
<1>1. draft = NoDraft /\ GoesOn /\ EndTask /\ UNCHANGED saves /\ task.answered
  BY DEF DiscardRead, Arrived, IInv, WaitingOK
<1> QED BY <1>1, ReadShown DEF DiscardRead

LEMMA ReconciledFacts == ASSUME IInv, Reconciled PROVE IInv'
<1>1. draft = NoDraft /\ GoesOn /\ EndTask /\ UNCHANGED saves /\ task.answered
  BY DEF Reconciled, Arrived, IInv, WaitingOK
<1> QED BY <1>1, ReadShown DEF Reconciled

LEMMA MutationAnsweredFacts == ASSUME IInv, MutationAnswered PROVE IInv'
<1> DEFINE m == mutation
           current == task.stage = "mutation" /\ SameSession(snap, m)
<1>1. GoesOn /\ UNCHANGED saves /\ mutation' = NoMutation
  BY DEF MutationAnswered
<1>2. /\ PanelTypeOK /\ SnapshotOK /\ SavesOK /\ WaitingOK /\ DraftIsKept
      /\ task \in PanelTasks /\ snap \in PanelSnapshots /\ draft' = draft /\ draft' \in Drafts /\ Rest
      /\ mutation' \in Changes /\ mutation.answer.data \in Readbacks
  BY <1>1, GoesOnFacts, ConstantTypes DEF Changes, PanelAnswers
<1>3. CASE ~current /\ task' = Disturbed /\ UNCHANGED snap
  <2>1. /\ task' \in PanelTasks /\ task'.kind = task.kind /\ task'.stage = task.stage
        /\ task'.sent = task.sent /\ task'.answered = task.answered /\ task'.answer = task.answer
        /\ task'.same = task.same /\ (task'.calm => task.calm)
    BY <1>2, <1>3 DEF Disturbed, PanelTasks
  <2>2. task.stage # "mutation"
    BY <1>2, <1>3 DEF WaitingOK
  <2>3. PanelTypeOK'
    BY <1>1, <1>2, <1>3, <2>1 DEF PanelTypeOK, Rest
  <2>4. SnapshotOK' /\ DraftIsKept'
    BY <1>1, <1>3, SameShown
  <2>5. SavesOK'
    BY <1>1, <1>2, <2>1 DEF SavesOK
  <2>6. WaitingOK'
    BY <1>2, <1>3, <2>1, <2>2 DEF WaitingOK, SameSession, InField
  <2>7. ExportIsComplete'
    BY <1>2, <2>1 DEF ExportIsComplete, WaitingOK
  <2> QED BY <2>3, <2>4, <2>5, <2>6, <2>7 DEF IInv, PanelIsSafe
<1>4. CASE current
  <2>1. draft' = NoDraft /\ DraftIsKept'
    BY <1>2, <1>4 DEF WaitingOK, DraftIsKept
  <2>2. Unwaited \/ task'.stage = "save"
    BY <1>1, <1>2, <1>4, NoneWaits DEF Unwaited
  <2>3. CASE task' = IdleTask /\ UNCHANGED snap
    <3>1. snap' \in PanelSnapshots /\ SnapshotOK'
      BY <1>1, <2>3, SameShown
    <3> QED BY <1>1, <1>2, <1>4, <2>1, <2>3, <3>1, Ended
  <2>4. CASE /\ UNCHANGED snap
             /\ task' = [New("clear", "reconcile", Nobody, NoDraft) EXCEPT !.sent = InField(snap)]
    <3>1. task' \in PanelTasks /\ task'.kind = "clear" /\ task'.stage = "reconcile"
      <4>1. "clear" \in TaskKinds
        BY DEF TaskKinds
      <4>2. PICK t \in PanelTasks : /\ t = New("clear", "reconcile", Nobody, NoDraft)
                                  /\ t.kind = "clear" /\ t.stage = "reconcile"
        BY <4>1, ConstantTypes, ReadFacts
      <4>3. InField(snap) \in Drafts
        BY <1>2, FieldFacts
      <4> QED BY <2>4, <4>2, <4>3 DEF PanelTasks
    <3>2. snap' \in PanelSnapshots /\ SnapshotOK'
      BY <1>1, <2>4, SameShown
    <3>3. WaitingOK' /\ PanelIsSafe'
      BY <2>1, <3>1 DEF WaitingOK, SameSession, InField, PanelIsSafe, DraftIsKept, ExportIsComplete
    <3> QED BY <1>1, <1>2, <2>1, <2>2, <3>1, <3>2, <3>3, Assembled
  <2>5. CASE \E preferred : Shown(m.answer.data, preferred, NoRecovery) /\ task' = IdleTask
    <3>1. snap' \in PanelSnapshots /\ SnapshotOK'
      BY <1>2, <2>5, ConstantTypes, ShownFacts
    <3> QED BY <1>1, <1>2, <1>4, <2>1, <2>5, <3>1, Ended
  <2> QED BY <1>4, <2>3, <2>4, <2>5 DEF MutationAnswered
<1> QED BY <1>3, <1>4 DEF MutationAnswered
-----------------------------------------------------------------------------
(* The strengthened invariant is inductive, and the panel is safe.         *)

THEOREM StepInv == IInv /\ [PanelNext]_panelVars => IInv'
<1> SUFFICES ASSUME IInv, [PanelNext]_panelVars PROVE IInv'
  OBVIOUS
<1>1. CASE \E text \in Notes : Type(text)
  BY <1>1, TypeFacts
<1>2. CASE SetViewMode \/ Flush \/ Debounced
  BY <1>2, SetViewModeFacts, FlushFacts, DebouncedFacts
<1>3. CASE \E i \in PanelItems : SelectItem(i) \/ SetAnnotationLifecycle(i) \/ RemoveItem(i)
  BY <1>3, SelectItemFacts, SetAnnotationLifecycleFacts, RemoveItemFacts
<1>4. CASE \/ ClearSession \/ RefreshActiveOrigin \/ RetryDirtyIntent \/ DiscardDirtyIntent
           \/ ReadExport
  BY <1>4, ClearSessionFacts, RefreshActiveOriginFacts, RetryDirtyIntentFacts,
     DiscardDirtyIntentFacts, ReadExportFacts
<1>5. CASE BackgroundReads \/ BackgroundSaves \/ BackgroundMutates \/ Elsewhere
  BY <1>5, BackgroundReadsFacts, BackgroundSavesFacts, BackgroundMutatesFacts, ElsewhereFacts
<1>6. CASE \/ Initialized \/ RefreshRead \/ RefreshSaved \/ FlushAnswered \/ ExportRead
           \/ RetrySaved \/ RetryRead \/ DiscardRead \/ MutationAnswered \/ Reconciled
  BY <1>6, InitializedFacts, RefreshReadFacts, RefreshSavedFacts, FlushAnsweredFacts,
     ExportReadFacts, RetrySavedFacts, RetryReadFacts, DiscardReadFacts,
     MutationAnsweredFacts, ReconciledFacts
<1>7. CASE UNCHANGED panelVars
  <2>1. PanelTypeOK'
    BY <1>7 DEF IInv, PanelTypeOK, CountersOK, panelVars
  <2>2. SnapshotOK' /\ SavesOK'
    BY <1>7 DEF IInv, SnapshotOK, SavesOK, InField, panelVars
  <2>3. WaitingOK'
    BY <1>7 DEF IInv, WaitingOK, SameSession, InField, panelVars
  <2>4. PanelIsSafe'
    BY <1>7 DEF IInv, PanelIsSafe, DraftIsKept, ExportIsComplete, InField, panelVars
  <2> QED BY <2>1, <2>2, <2>3, <2>4 DEF IInv
<1> QED BY <1>1, <1>2, <1>3, <1>4, <1>5, <1>6, <1>7 DEF PanelNext

\* Whatever the user asks for, whatever is answered, refused or lost meanwhile and whatever
\* others do, the note typed last is in its field, put aside, saved or discarded by the user,
\* and a file that is exported has it (panel-session-controller.ts).
THEOREM PanelSafety == PanelSpec => []PanelIsSafe
<1>1. IInv => PanelIsSafe
  BY DEF IInv
<1> QED BY InitInv, StepInv, <1>1, PTL DEF PanelSpec
=============================================================================
