----------------------------- MODULE PanelSession -----------------------------
(***************************************************************************)
(* The side panel shows the session of the page in front and lets the user *)
(* write a note on each item (panel-session-controller.ts).  Every request *)
(* to the background is an await; meanwhile the user types, asks for other *)
(* things and changes pages, and the widget, agents and other pages change *)
(* the session.  A note that was typed and not saved must survive all of   *)
(* it: in the field, or put aside as a recovery when its item or its page  *)
(* went away.                                                              *)
(*                                                                         *)
(* A newer request makes every older one drop its answer                   *)
(* (snapshotRequestRevision), so one `task' is enough; of an older one     *)
(* only what it sent remains, on its way to the background.  The other     *)
(* two counters, stateRevision and intentRevision, are flags of the task:  *)
(* whether the state and the note still are as it found them.              *)
(*                                                                         *)
(* A site whose session was cleared has the epoch of its next session.     *)
(* The page stands for its site; which item is chosen when the code names  *)
(* none (the widget's, the last one of the page, the newest) is open.      *)
(***************************************************************************)
EXTENDS Naturals, Sequences

CONSTANTS
  Sites,           \* origins of pages
  PanelItems,
  NoteTexts,       \* notes a user may write
  MaxTyped,        \* bound on the user's edits in the panel
  MaxPanelEvents,  \* bound on the panel's other requests
  MaxElsewhere,    \* bound on what others do
  MaxPanelFaults   \* bound on failed answers

ASSUME PanelConstantsOK == {MaxTyped, MaxPanelEvents, MaxElsewhere, MaxPanelFaults} \subseteq Nat

VARIABLES
  stored,          \* the sessions as the background has them
  front,           \* the site of the page in front, Nobody: an unsupported page
  snap,            \* PanelSessionSnapshot
  task,            \* the newest request
  saves,           \* updates of notes on their way, oldest first
  mutation,        \* the removal, change of state or clear that is pending
  timer,           \* the debounce of a note is running
  draft,           \* what the user typed last, unless it was saved or discarded
  typed, panelEvents, elsewhere, panelFaults

panelVars == <<stored, front, snap, task, saves, mutation, timer, draft, typed,
               panelEvents, elsewhere, panelFaults>>

Nobody == "none"
Gone == "absent"
ASSUME PanelNamesOK == Nobody \notin Sites \cup PanelItems /\ Sites # {}

NoDraft == [site |-> Nobody, epoch |-> 0, item |-> Nobody, text |-> ""]
NoRecovery == [draft |-> NoDraft, pending |-> Nobody]
EmptySnap == [site |-> Nobody, epoch |-> 0, notes |-> [i \in PanelItems |-> Gone],
              clearing |-> FALSE, item |-> Nobody, text |-> "", dirty |-> FALSE,
              recovery |-> NoRecovery]
NoAnswer == [ok |-> FALSE, data |-> EmptySnap]
IdleTask == [kind |-> "none", stage |-> "none", item |-> Nobody, sent |-> NoDraft,
             active |-> EmptySnap, answered |-> FALSE, answer |-> NoAnswer,
             calm |-> TRUE, same |-> TRUE]
NoMutation == [kind |-> "none", site |-> Nobody, epoch |-> 0, item |-> Nobody,
               answered |-> FALSE, answer |-> NoAnswer]
TaskKinds == {"initialize", "refresh", "flush", "select", "lifecycle", "remove", "clear",
              "retry", "discard", "export", "none"}

Stages == {"none", "active", "save", "mutation", "reconcile", "exported"}
Notes == NoteTexts \cup {""}
AnySite == Sites \cup {Nobody}
SomeItem == PanelItems \cup {Nobody}
NoteLists == [PanelItems -> Notes \cup {Gone}]
Drafts == [site : AnySite, epoch : Nat, item : SomeItem, text : Notes]
Recoveries == [draft : Drafts, pending : AnySite]
PanelSnapshots == [site : AnySite, epoch : Nat, notes : NoteLists, clearing : BOOLEAN,
                   item : SomeItem, text : Notes, dirty : BOOLEAN, recovery : Recoveries]
Readbacks == {rb \in PanelSnapshots : ~rb.dirty}
PanelAnswers == [ok : BOOLEAN, data : Readbacks]

PanelTasks == [kind : TaskKinds, stage : Stages, item : SomeItem, sent : Drafts,
               active : Readbacks, answered : BOOLEAN, answer : PanelAnswers,
               calm : BOOLEAN, same : BOOLEAN]
Changes == [kind : TaskKinds, site : AnySite, epoch : Nat, item : SomeItem,
            answered : BOOLEAN, answer : PanelAnswers]
Updates == [to : Drafts, mine : BOOLEAN]
PanelStores == [Sites -> [epoch : Nat, notes : NoteLists, clearing : BOOLEAN]]

CountersOK ==
  /\ typed \in 0 .. MaxTyped /\ panelEvents \in 0 .. MaxPanelEvents
  /\ elsewhere \in 0 .. MaxElsewhere /\ panelFaults \in 0 .. MaxPanelFaults
PanelTypeOK ==
  /\ stored \in PanelStores /\ front \in AnySite /\ snap \in PanelSnapshots /\ draft \in Drafts
  /\ task \in PanelTasks /\ saves \in Seq(Updates) /\ mutation \in Changes
  /\ timer \in BOOLEAN /\ CountersOK

PanelInit ==
  /\ stored = [s \in Sites |-> [epoch |-> 1, notes |-> [i \in PanelItems |-> ""],
                                clearing |-> FALSE]]
  /\ front = (CHOOSE s \in Sites : TRUE) /\ snap = EmptySnap
  /\ task = [IdleTask EXCEPT !.kind = "initialize", !.stage = "active"]
  /\ saves = <<>> /\ mutation = NoMutation /\ timer = FALSE /\ draft = NoDraft
  /\ typed = 0 /\ panelEvents = 0 /\ elsewhere = 0 /\ panelFaults = 0

KeepUser == UNCHANGED <<typed, panelEvents>>
NoResponse == panelFaults < MaxPanelFaults /\ panelFaults' = panelFaults + 1
Responds == UNCHANGED panelFaults

----------------------------------------------------------------------------
(* What the panel makes of a readback.                                     *)

\* ActiveSessionReadback of a site.
Readback(sessions, s) ==
  [EmptySnap EXCEPT !.site = s, !.epoch = sessions[s].epoch, !.notes = sessions[s].notes,
                    !.clearing = sessions[s].clearing]
Has(rb, i) == i \in PanelItems /\ rb.notes[i] # Gone
NoteOf(rb, i) == IF Has(rb, i) THEN rb.notes[i] ELSE ""
AnyItem == "any"
\* chooseSelectedItemId
Selections(rb, preferred) ==
  LET items == {i \in PanelItems : Has(rb, i)} IN
  IF items = {} THEN {Nobody} ELSE IF preferred \in items THEN {preferred} ELSE items
\* applyActive, applyUnsupportedActive
Applied(rb, preferred, recovery) ==
  IF rb.site = Nobody THEN {EmptySnap}
  ELSE {[rb EXCEPT !.item = i, !.text = NoteOf(rb, i), !.recovery = recovery] :
          i \in Selections(rb, preferred)}
InField(s) == [site |-> s.site, epoch |-> s.epoch, item |-> s.item, text |-> s.text]
Discarded(s) == [s EXCEPT !.text = NoteOf(s, s.item), !.dirty = FALSE]
SameSession(rb, at) == rb.site = at.site /\ rb.epoch = at.epoch
\* MUTANT of StillCurrent: the note may have changed since it was sent.
StillThere == snap.dirty /\ SameSession(snap, task.sent) /\ snap.item = task.sent.item
\* isStillCurrentIntentTarget
StillCurrent == snap.dirty /\ InField(snap) = task.sent /\ task.same

----------------------------------------------------------------------------
(* Requests begin, and end.                                                *)

\* stateRevision moved, which refreshes and exports look at; the note changed.
Disturbed == IF task.kind \in {"refresh", "export"} THEN [task EXCEPT !.calm = FALSE] ELSE task
Retyped == IF task.stage = "save" THEN [Disturbed EXCEPT !.same = FALSE] ELSE Disturbed
Forget == [k \in DOMAIN saves |-> [saves[k] EXCEPT !.mine = FALSE]]
PanelRequest ==
  /\ panelEvents < MaxPanelEvents /\ panelEvents' = panelEvents + 1
  /\ UNCHANGED <<stored, front, typed, elsewhere, panelFaults>>
New(kind, stage, item, sent) ==
  [IdleTask EXCEPT !.kind = kind, !.stage = stage, !.item = item, !.sent = sent]
Send(t) == /\ task' = [t EXCEPT !.stage = "save", !.answered = FALSE, !.answer = NoAnswer]
           /\ saves' = Append(Forget, [to |-> t.sent, mine |-> TRUE])
EndTask == task' = IdleTask /\ UNCHANGED mutation

\* What a request does once the note is saved; s is the snapshot then.
Mutate(t, s) ==
  IF s.item = Nobody THEN EndTask
  ELSE /\ task' = [t EXCEPT !.stage = "mutation", !.answered = FALSE, !.answer = NoAnswer]
       /\ mutation' = [NoMutation EXCEPT !.kind = t.kind, !.site = s.site, !.epoch = s.epoch,
                                         !.item = t.item]
GoOn(t, s) ==
  \/ t.kind = "flush" /\ snap' = s /\ EndTask
  \/ /\ t.kind = "select" /\ EndTask
     /\ snap' = IF Has(s, t.item)
                THEN [s EXCEPT !.item = t.item, !.text = s.notes[t.item], !.dirty = FALSE]
                ELSE s
  \/ t.kind \in {"remove", "lifecycle"} /\ snap' = s /\ Mutate(t, s)
  \/ /\ t.kind = "export" /\ snap' = s /\ UNCHANGED mutation
     /\ task' = New("export", "active", Nobody, NoDraft)

\* flushCurrentIntent and what its caller goes on with.
FlushThen(t, s) ==
  IF s.dirty
  THEN /\ Send([t EXCEPT !.sent = InField(s)]) /\ snap' = s /\ timer' = FALSE
       /\ UNCHANGED mutation
  ELSE saves' = Forget /\ GoOn(t, s) /\ UNCHANGED timer

----------------------------------------------------------------------------
(* What the user and the page ask for.                                     *)

Blocked == snap.clearing \/ snap.recovery # NoRecovery \/ mutation # NoMutation

\* The text field.  From the end of a failed clear, and from a saved recovery,
\* to the answer to what the panel reads then, the field stays disabled as it
\* was shown last (unless a change of the view shows it anew, which is left out).
Type(text) ==
  /\ typed < MaxTyped /\ typed' = typed + 1
  /\ ~Blocked /\ snap.site # Nobody /\ snap.item # Nobody /\ text # snap.text
  /\ task.stage # "reconcile" /\ ~(task.kind = "retry" /\ task.stage = "active")
  /\ snap' = [snap EXCEPT !.text = text, !.dirty = TRUE]
  /\ draft' = InField(snap') /\ timer' = TRUE
  /\ task' = Retyped
  /\ UNCHANGED <<stored, front, saves, mutation, panelEvents, elsewhere, panelFaults>>

\* setViewMode
SetViewMode ==
  /\ task.kind \in {"refresh", "export"} /\ task.calm /\ task' = Disturbed
  /\ UNCHANGED <<stored, front, snap, saves, mutation, timer, draft, elsewhere, panelFaults>>
  /\ KeepUser

\* flushIntent, and retryDirtyIntent without a recovery; the debounce ends.
Flush ==
  /\ PanelRequest /\ snap.recovery = NoRecovery /\ snap.dirty
  /\ FlushThen(New("flush", "save", Nobody, NoDraft), snap)
  /\ UNCHANGED draft
Debounced ==
  /\ timer /\ timer' = FALSE
  /\ IF snap.dirty /\ snap.recovery = NoRecovery
     THEN Send(New("flush", "save", Nobody, InField(snap)))
     ELSE task' = IdleTask /\ saves' = Forget
  /\ UNCHANGED <<stored, front, snap, mutation, draft, typed, panelEvents, elsewhere, panelFaults>>

SelectItem(i) ==
  /\ PanelRequest /\ ~Blocked /\ Has(snap, i) /\ (i # snap.item \/ snap.dirty)
  /\ FlushThen(New("select", "save", i, NoDraft), snap)
  /\ UNCHANGED draft

SetAnnotationLifecycle(i) ==
  /\ PanelRequest /\ ~Blocked /\ Has(snap, i)
  /\ FlushThen(New("lifecycle", "save", i, NoDraft), snap)
  /\ UNCHANGED draft

\* The user confirms that the note of the item is discarded with it.
RemoveItem(i) ==
  LET t == New("remove", "save", i, NoDraft) IN
  /\ PanelRequest /\ ~Blocked /\ Has(snap, i)
  /\ IF i = snap.item /\ snap.dirty
     THEN /\ draft' = NoDraft /\ timer' = FALSE /\ saves' = Forget
          /\ GoOn(t, Discarded(snap))
     ELSE FlushThen(t, snap) /\ UNCHANGED draft

ClearSession ==
  /\ PanelRequest /\ snap.recovery = NoRecovery /\ mutation = NoMutation
  /\ snap.site # Nobody
  /\ IF snap.dirty THEN snap' = Discarded(snap) /\ timer' = FALSE /\ draft' = NoDraft
                   ELSE UNCHANGED <<snap, timer, draft>>
  /\ task' = New("clear", "mutation", Nobody, NoDraft) /\ saves' = Forget
  /\ mutation' = [NoMutation EXCEPT !.kind = "clear", !.site = snap.site, !.epoch = snap.epoch]

\* Messages of the background, the window's focus, an end of a clear.
RefreshActiveOrigin ==
  /\ PanelRequest /\ timer' = FALSE
  /\ task' = New("refresh", "active", Nobody, IF snap.dirty THEN InField(snap) ELSE NoDraft)
  /\ saves' = Forget
  /\ UNCHANGED <<snap, mutation, draft>>

RetryDirtyIntent ==
  /\ PanelRequest /\ snap.recovery # NoRecovery
  /\ Send(New("retry", "save", Nobody, snap.recovery.draft))
  /\ UNCHANGED <<snap, mutation, timer, draft>>

\* A recovery that is already apart from the selection is dropped at once.
DiscardDirtyIntent ==
  LET r == snap.recovery IN
  /\ PanelRequest /\ r # NoRecovery /\ timer' = FALSE /\ saves' = Forget
  /\ draft' = NoDraft /\ UNCHANGED mutation
  /\ IF ~snap.dirty /\ SameSession(snap, r.draft) /\ snap.site = r.pending
     THEN snap' = [snap EXCEPT !.recovery = NoRecovery] /\ task' = IdleTask
     ELSE task' = New("discard", "active", Nobody, NoDraft) /\ UNCHANGED snap

ReadExport ==
  /\ PanelRequest /\ ~Blocked /\ \E i \in PanelItems : Has(snap, i)
  /\ FlushThen(New("export", "save", Nobody, NoDraft), snap)
  /\ UNCHANGED draft

----------------------------------------------------------------------------
(* The background.                                                         *)

Answered(ok, rb) == [task EXCEPT !.answered = TRUE, !.answer = [ok |-> ok, data |-> rb]]
Keeps == UNCHANGED <<front, snap, timer, elsewhere>> /\ KeepUser

\* getActiveSession
BackgroundReads ==
  /\ task.stage \in {"active", "reconcile"} /\ ~task.answered
  /\ \/ Responds /\ task' = Answered(TRUE, IF front = Nobody THEN EmptySnap ELSE Readback(stored, front))
     \/ NoResponse /\ task' = Answered(FALSE, EmptySnap)
  /\ UNCHANGED <<stored, saves, mutation, draft>> /\ Keeps

\* ui-attach:session-update-intent.  Its answer may be lost, with the update or after it.
BackgroundSaves ==
  LET save == Head(saves)   at == save.to
      takes == /\ stored[at.site].epoch = at.epoch /\ ~stored[at.site].clearing
               /\ Has(stored[at.site], at.item)
      rewritten == \E k \in 2 .. Len(saves) : /\ saves[k].to # at
                                              /\ saves[k].to = [at EXCEPT !.text = saves[k].to.text]
      Answer(ok) == task' = IF save.mine THEN Answered(ok, Readback(stored', at.site)) ELSE task
      Store == /\ takes /\ stored' = [stored EXCEPT ![at.site].notes[at.item] = at.text]
               /\ draft' = IF draft = at /\ ~rewritten THEN NoDraft ELSE draft
      Refuse == UNCHANGED <<stored, draft>>
  IN /\ saves # <<>> /\ saves' = Tail(saves)
     /\ \/ Responds /\ Store /\ Answer(TRUE)
        \/ Responds /\ ~takes /\ Refuse /\ Answer(FALSE)
        \/ NoResponse /\ (Store \/ Refuse) /\ Answer(FALSE)
     /\ UNCHANGED mutation /\ Keeps

SiteCleared(s) == [stored EXCEPT ![s] = [epoch |-> @.epoch + 1, clearing |-> FALSE,
                                     notes |-> [i \in PanelItems |-> Gone]]]
\* ui-attach:session-remove-item, -update-annotation-lifecycle and -clear.
BackgroundMutates ==
  LET m == mutation   now == stored[m.site]
      takes == now.epoch = m.epoch /\ (m.kind = "clear" \/ (~now.clearing /\ Has(now, m.item)))
      Answer(ok) == mutation' = [m EXCEPT !.answered = TRUE,
                                          !.answer = [ok |-> ok, data |-> Readback(stored', m.site)]]
      Change == \/ /\ m.kind = "remove"
                   /\ stored' = [stored EXCEPT ![m.site].notes[m.item] = Gone]
                \/ m.kind = "lifecycle" /\ UNCHANGED stored
                \/ m.kind = "clear" /\ stored' = SiteCleared(m.site)
  IN /\ m # NoMutation /\ ~m.answered
     /\ \/ Responds /\ takes /\ Change /\ Answer(TRUE)
        \/ Responds /\ ~takes /\ UNCHANGED stored /\ Answer(FALSE)
        \/ NoResponse /\ takes /\ Change /\ Answer(FALSE)
        \/ NoResponse /\ UNCHANGED stored /\ Answer(FALSE)
        \/ /\ NoResponse /\ takes /\ m.kind = "clear"       \* CLEAR_IN_PROGRESS
           /\ stored' = [stored EXCEPT ![m.site].clearing = TRUE]
           /\ \E ok \in BOOLEAN : Answer(ok)
     /\ UNCHANGED <<saves, task, draft>> /\ Keeps

\* Others capture, remove, clear or turn to another page; a pending clear ends.
Other == elsewhere < MaxElsewhere /\ elsewhere' = elsewhere + 1
Elsewhere ==
  /\ \/ \E s \in Sites, i \in PanelItems :
          /\ Other /\ ~stored[s].clearing
          /\ stored' = [stored EXCEPT ![s].notes[i] = IF @ = Gone THEN "" ELSE Gone]
          /\ UNCHANGED front
     \/ \E s \in Sites : Other /\ stored' = SiteCleared(s) /\ UNCHANGED front
     \/ \E s \in Sites : /\ stored[s].clearing /\ stored' = SiteCleared(s)
                         /\ UNCHANGED <<front, elsewhere>>
     \/ Other /\ front' \in (Sites \cup {Nobody}) \ {front} /\ UNCHANGED stored
  /\ UNCHANGED <<snap, task, saves, mutation, timer, draft, panelFaults>> /\ KeepUser

----------------------------------------------------------------------------
(* The panel goes on with an answer.                                       *)

Arrived(kinds, stage) == task.kind \in kinds /\ task.stage = stage /\ task.answered
GoesOn == /\ UNCHANGED <<stored, front, timer, draft, elsewhere, panelFaults>> /\ KeepUser
Shown(rb, preferred, recovery) == snap' \in Applied(rb, preferred, recovery)

\* initialize
Initialized ==
  /\ Arrived({"initialize"}, "active") /\ GoesOn /\ EndTask /\ UNCHANGED saves
  /\ IF task.answer.ok THEN Shown(task.answer.data, AnyItem, NoRecovery) ELSE UNCHANGED snap

\* refreshActiveOrigin: a recovery is kept, a note is saved first.
RefreshRead ==
  LET active == task.answer.data
      r == snap.recovery
      aside == [draft |-> task.sent, pending |-> active.site]
  IN /\ Arrived({"refresh"}, "active") /\ GoesOn
     /\ IF ~task.calm \/ ~task.answer.ok
        THEN EndTask /\ UNCHANGED <<snap, saves>>
        ELSE \/ /\ r # NoRecovery /\ EndTask /\ UNCHANGED saves
                /\ IF SameSession(active, r.draft) THEN Shown(active, snap.item, r)
                                                   ELSE UNCHANGED snap
             \/ /\ r = NoRecovery /\ ~snap.dirty /\ EndTask /\ UNCHANGED saves
                /\ Shown(active, AnyItem, NoRecovery)
             \/ /\ r = NoRecovery /\ snap.dirty
                /\ IF SameSession(active, task.sent) /\ ~Has(active, task.sent.item)
                   THEN Shown(active, snap.item, aside) /\ EndTask /\ UNCHANGED saves
                   ELSE Send([task EXCEPT !.active = active]) /\ UNCHANGED <<snap, mutation>>
RefreshSaved ==
  LET aside == [draft |-> task.sent, pending |-> task.active.site]
  IN /\ Arrived({"refresh"}, "save") /\ GoesOn /\ EndTask /\ UNCHANGED saves
     /\ \/ ~StillCurrent /\ UNCHANGED snap
        \/ /\ StillCurrent /\ ~task.answer.ok
           /\ IF SameSession(task.active, task.sent)
              THEN Shown(task.active, snap.item, aside)
              ELSE snap' = [snap EXCEPT !.recovery = aside]
        \/ StillCurrent /\ task.answer.ok /\ ~task.calm /\ UNCHANGED snap
        \/ /\ StillCurrent /\ task.answer.ok /\ task.calm
           /\ IF task.active.site = task.sent.site
              THEN Shown(task.answer.data, AnyItem, NoRecovery)
              ELSE Shown(task.active, AnyItem, NoRecovery)

\* flushCurrentIntent
FlushAnswered ==
  /\ Arrived({"flush", "select", "lifecycle", "remove", "export"}, "save") /\ GoesOn
  /\ UNCHANGED saves
  /\ IF StillCurrent /\ task.answer.ok
     THEN \E s \in Applied(task.answer.data, task.sent.item, NoRecovery) :
            IF s.clearing THEN snap' = s /\ EndTask ELSE GoOn(task, s)
     ELSE EndTask /\ UNCHANGED snap

\* readExport; the exported file is the readback.
ExportRead ==
  /\ Arrived({"export"}, "active") /\ GoesOn /\ UNCHANGED <<saves, mutation>>
  /\ IF /\ task.calm /\ task.answer.ok /\ ~task.answer.data.clearing
        /\ SameSession(task.answer.data, snap)
     THEN Shown(task.answer.data, snap.item, NoRecovery)
          /\ task' = New("export", "exported", Nobody, NoDraft)
     ELSE task' = IdleTask /\ UNCHANGED snap

\* retryDirtyIntent with a recovery
RetrySaved ==
  LET rest == [snap EXCEPT !.recovery = NoRecovery, !.dirty = FALSE]
  IN /\ Arrived({"retry"}, "save") /\ GoesOn /\ UNCHANGED <<saves, mutation>>
     /\ \/ ~task.answer.ok /\ UNCHANGED snap /\ task' = IdleTask
        \/ /\ task.answer.ok /\ snap.recovery.pending # Nobody /\ snap' = rest
           /\ task' = New("retry", "active", Nobody, NoDraft)
        \/ /\ task.answer.ok /\ snap.recovery.pending = Nobody /\ task' = IdleTask
           /\ Shown(task.answer.data, task.sent.item, NoRecovery)
RetryRead ==
  /\ Arrived({"retry"}, "active") /\ GoesOn /\ EndTask /\ UNCHANGED saves
  /\ IF task.answer.ok THEN Shown(task.answer.data, AnyItem, NoRecovery) ELSE UNCHANGED snap

\* discardDirtyIntent refuses to jump to a third site.
DiscardRead ==
  LET pending == snap.recovery.pending
  IN /\ Arrived({"discard"}, "active") /\ GoesOn /\ EndTask /\ UNCHANGED saves
     /\ IF task.answer.ok /\ (pending = Nobody \/ pending = task.answer.data.site)
        THEN Shown(task.answer.data, AnyItem, NoRecovery)
        ELSE UNCHANGED snap

\* removeItem, setAnnotationLifecycle and clearSession.  An answer that another
\* request overtook only ends the mutation.
MutationAnswered ==
  LET m == mutation
      current == task.stage = "mutation" /\ SameSession(snap, m)
  IN /\ m.answered /\ mutation' = NoMutation /\ GoesOn /\ UNCHANGED saves
     /\ \/ ~current /\ task' = Disturbed /\ UNCHANGED snap
        \/ /\ current /\ ~m.answer.ok /\ UNCHANGED snap
           /\ task' = IF m.kind = "clear"
                      THEN [New("clear", "reconcile", Nobody, NoDraft) EXCEPT !.sent = InField(snap)]
                      ELSE IdleTask
        \/ /\ current /\ m.answer.ok /\ task' = IdleTask
           /\ Shown(m.answer.data, CASE m.kind = "remove" /\ snap.item # m.item -> snap.item
                                     [] m.kind = "lifecycle" -> m.item
                                     [] OTHER -> AnyItem, NoRecovery)
Reconciled ==
  /\ Arrived({"clear"}, "reconcile") /\ GoesOn /\ EndTask /\ UNCHANGED saves
  /\ IF task.answer.ok /\ task.answer.data.site = task.sent.site
     THEN Shown(task.answer.data, AnyItem, NoRecovery)
     ELSE UNCHANGED snap

PanelNext ==
  \/ \E text \in Notes : Type(text)
  \/ SetViewMode \/ Flush \/ Debounced
  \/ \E i \in PanelItems : SelectItem(i) \/ SetAnnotationLifecycle(i) \/ RemoveItem(i)
  \/ ClearSession \/ RefreshActiveOrigin \/ RetryDirtyIntent \/ DiscardDirtyIntent \/ ReadExport
  \/ BackgroundReads \/ BackgroundSaves \/ BackgroundMutates \/ Elsewhere
  \/ Initialized \/ RefreshRead \/ RefreshSaved \/ FlushAnswered \/ ExportRead
  \/ RetrySaved \/ RetryRead \/ DiscardRead \/ MutationAnswered \/ Reconciled
PanelSpec == PanelInit /\ [][PanelNext]_panelVars

----------------------------------------------------------------------------
(* What the user typed last and neither saved nor discarded is in the      *)
(* field of its item, or kept as the recovery with the item it belongs to, *)
(* whatever was asked for, answered or lost meanwhile.                     *)
DraftIsKept ==
  draft # NoDraft => \/ snap.dirty /\ InField(snap) = draft
                     \/ snap.recovery.draft = draft

(* A file that is exported has the note the user typed last.               *)
ExportIsComplete == task.stage = "exported" /\ task.calm => draft = NoDraft

(* No note is lost between the field, the background and a file.           *)
PanelIsSafe == DraftIsKept /\ ExportIsComplete
=============================================================================
