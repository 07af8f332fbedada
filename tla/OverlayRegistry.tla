--------------------------- MODULE OverlayRegistry ---------------------------
(***************************************************************************)
(* The markers a page shows.  The worker makes a projection of the session *)
(* for a document and path (its `place'), numbers it, writes it down and   *)
(* sends it; the page applies it and acknowledges it; only an acknowledged *)
(* projection lets a click on a marker change the session                  *)
(* (background-controller.ts, content.ts).                                 *)
(*                                                                         *)
(* One tab, its top frame, one origin; the markers are visible.  The       *)
(* worker may stop at any time and finds the registry again in storage: a  *)
(* generation in the local area, the records in the session area with the  *)
(* generation they were written under.  The generation only ever grows, so *)
(* all that is kept of it is whether the records have the current one.     *)
(* What the origin's queue runs is `turn'; a request is in that queue when *)
(* it starts.  The journal of a clear is DurableClear.                     *)
(***************************************************************************)
EXTENDS Naturals, Sequences, FiniteSets

CONSTANTS
  OverlayPaths, OverlayIds,
  MaxOverlayRecords,   \* MAX_OVERLAY_PROJECTIONS
  MaxProjections,      \* bound on the projections made
  MaxOverlaySent,      \* bound on what is sent to the page
  MaxOverlayAsks,      \* bound on the restores the page asks for
  MaxOverlayEvents,    \* bound on captures, removals, clears, moves and refreshes
  MaxOverlayClicks,    \* bound on clicks on a marker
  MaxOverlayFaults     \* bound on failed writes, lost messages, stopped workers

ASSUME OverlayPathsOK == OverlayPaths # {} /\ OverlayIds # {}

VARIABLES
  marked,        \* the session: epoch and items, each with its path
  place,         \* document and path of the frame
  page,          \* what the content script of that document shows
  acks,          \* acknowledgements, from the page's task to the worker's and back
  asks,          \* restores the page asked for
  states,        \* overlay states on their way to the page
  tombstones,    \* tombstones of a clear on their way to the page
  click,         \* the marker that was clicked
  registry, issuedHere, registryOK,   \* the worker's memory
  kept,          \* what storage holds
  writer,        \* overlayProjectionRegistryWriteTail
  turn,          \* what the origin's queue runs
  syncs,         \* changes of the session the page has to be told of
  cleanups,      \* navigations and tombstones that invalidate projections
  sentOnce, shown, acted,             \* what was sent, applied and done, for the properties
  numbers        \* counters

overlayVars == <<marked, place, page, acks, asks, states, tombstones, click, registry, issuedHere,
                 registryOK, kept, writer, turn, syncs, cleanups, sentOnce, shown, acted, numbers>>
OverlayDocs == 1 .. MaxOverlayEvents + 1
OverlayPlaces == [doc : OverlayDocs, path : OverlayPaths]
NoPlace == [doc |-> 0, path |-> CHOOSE p \in OverlayPaths : TRUE]
\* OverlayProjectionDescriptor, with the items it was made of; an object that
\* holds one is told apart from its copies by a number.
NoProjection == [id |-> 0, rev |-> 0, epoch |-> 0, place |-> NoPlace, items |-> {}]
NoObject == [obj |-> 0, d |-> NoProjection]
NoReadback == [epoch |-> 0, items |-> {}]
NoClick == [pc |-> "none", id |-> 0, of |-> NoObject]
NoOverlayOp == [pc |-> "none", n |-> 0, rb |-> NoReadback, at |-> NoPlace, bound |-> FALSE,
         d |-> NoProjection]
FreshPage == [applied |-> NoObject, acked |-> NoObject, failed |-> NoProjection,
              fence |-> [epoch |-> 0, path |-> NoPlace.path]]
IdleWriter == [queue |-> <<>>, pc |-> "idle", snap |-> {}]
RestoreAsked(n, p, applies) == [n |-> n, place |-> p, cur |-> TRUE, applies |-> applies,
                       pc |-> "new", got |-> NoObject]

OverlayInit ==
  /\ place = [NoPlace EXCEPT !.doc = 1]
  /\ marked = [epoch |-> 1, items |-> {[id |-> i, path |-> place.path] : i \in OverlayIds}]
  /\ page = FreshPage /\ acks = {} /\ states = {} /\ tombstones = {} /\ click = NoClick
  /\ asks = {RestoreAsked(1, place, TRUE)}
  /\ registry = {} /\ issuedHere = {} /\ registryOK = "unread"
  /\ kept = [agrees |-> TRUE, records |-> {}] /\ writer = IdleWriter
  /\ turn = NoOverlayOp /\ cleanups = {}
  /\ syncs \in {{}, {[rb |-> marked, at |-> place, bound |-> TRUE, n |-> 0]}}
  /\ sentOnce = {} /\ shown = {} /\ acted = {}
  /\ numbers = [ids |-> 0, made |-> 0, sent |-> 0, asks |-> 1, events |-> 0, clicks |-> 0,
              faults |-> 0]

OverlayEvent == numbers.events < MaxOverlayEvents
OverlayFault == numbers.faults < MaxOverlayFaults
CountOverlay(what) == numbers' = [numbers EXCEPT ![what] = @ + 1]
NoCount == UNCHANGED numbers
KeepHistory == UNCHANGED <<sentOnce, shown, acted>>
KeepPage == UNCHANGED <<page, asks, states, tombstones, click>>
KeepRegistry == UNCHANGED <<registry, issuedHere, registryOK>>
KeepStored == UNCHANGED <<kept, writer>>
KeepWork == UNCHANGED <<turn, syncs, cleanups>>
KeepWorker == KeepRegistry /\ KeepStored /\ KeepWork
KeepSession == UNCHANGED <<marked, place>>

SameRef(a, b) == a.id = b.id /\ a.rev = b.rev
SameDescriptor(a, b) == SameRef(a, b) /\ a.epoch = b.epoch /\ a.place = b.place
RecordsAt(p) == {r \in registry : r.d.place = p}
\* The registry still has this very record: a worker makes no two with one reference.
Registered(d, p) == \E r \in RecordsAt(p) : SameRef(r.d, d)
OtherThan(p) == registry \ RecordsAt(p)
IdsOn(rb, path) == {i.id : i \in {j \in rb.items : j.path = path}}
\* overlayProjectionItemsMatchLiveRoute.
ItemsMatch(rb, p, ids) == p = place /\ ids \subseteq IdsOn(rb, p.path)

-----------------------------------------------------------------------------
(* The registry and its storage.                                           *)
\* ensureOverlayProjectionRegistryLoaded: whatever is found has to be
\* acknowledged anew.
TrustedRecords == IF kept.agrees THEN kept.records ELSE {}
LoadOverlayRegistry ==
  /\ registryOK = "unread"
  /\ \/ /\ registryOK' = "ok" /\ NoCount
        /\ registry' = {[d |-> d, acked |-> FALSE] : d \in TrustedRecords}
     \/ /\ registryOK' = "lost" /\ UNCHANGED registry /\ OverlayFault /\ CountOverlay("faults")
  /\ UNCHANGED <<issuedHere, acks>>
  /\ KeepStored /\ KeepWork /\ KeepPage /\ KeepSession /\ KeepHistory

RegistryRead == registryOK # "unread"
QueueWrite(job) == writer' = [writer EXCEPT !.queue = Append(@, job)]
AllPending == registry' = {[r EXCEPT !.acked = FALSE] : r \in registry}

\* The write that was first in the queue ends; who asked for it goes on.
WriteSettled(job, ok) ==
  LET pc == IF ok THEN "written" ELSE "unwritten" IN
  /\ writer' = [IdleWriter EXCEPT !.queue = Tail(writer.queue)]
  /\ turn' = IF job.who = "op" THEN [turn EXCEPT !.pc = pc] ELSE turn
  /\ acks' = {IF job.who = "task" /\ t.n = job.n /\ t.pc = "writing"
                 THEN [t EXCEPT !.pc = pc] ELSE t : t \in acks}
  /\ cleanups' = {c \in cleanups : job.who # "cleanup" \/ c.n # job.n}

\* persistOverlayProjectionRegistry, up to the new generation.  When that cannot
\* be written the worker trusts nothing any more and removes the records.
WriteGeneration ==
  /\ writer.queue # <<>> /\ writer.pc = "idle"
  /\ \/ /\ registryOK = "ok" /\ NoCount
        /\ writer' = [writer EXCEPT !.pc = "records", !.snap = {r.d : r \in registry}]
        /\ kept' = [kept EXCEPT !.agrees = FALSE]
        /\ UNCHANGED <<registry, registryOK, turn, acks, cleanups>>
     \/ /\ registryOK = "ok" /\ OverlayFault /\ CountOverlay("faults")
        /\ registryOK' = "lost" /\ AllPending
        /\ \E removed \in BOOLEAN :
             kept' = IF removed THEN [kept EXCEPT !.records = {}] ELSE kept
        /\ WriteSettled(Head(writer.queue), FALSE)
     \/ /\ registryOK = "lost" /\ WriteSettled(Head(writer.queue), FALSE)
        /\ NoCount /\ UNCHANGED <<registry, registryOK, kept>>
  /\ UNCHANGED <<issuedHere, syncs>> /\ KeepPage /\ KeepSession /\ KeepHistory

\* ... and the records under it.
WriteRecords ==
  /\ writer.pc = "records"
  /\ \/ /\ kept' = [agrees |-> TRUE, records |-> writer.snap] /\ UNCHANGED registry
        /\ WriteSettled(Head(writer.queue), TRUE) /\ NoCount
     \/ /\ UNCHANGED kept /\ AllPending
        /\ WriteSettled(Head(writer.queue), FALSE) /\ OverlayFault /\ CountOverlay("faults")
  /\ UNCHANGED <<issuedHere, registryOK, syncs>> /\ KeepPage /\ KeepSession /\ KeepHistory

-----------------------------------------------------------------------------
(* The origin's queue: restores, changes to tell of, clicks.               *)
OverlayOpAt(kinds) == turn.pc \in kinds
AnswerRestore(n, pc, got) ==
  asks' = {IF a.n = n THEN [a EXCEPT !.pc = pc, !.got = got] ELSE a : a \in asks}

\* A record that is made or given again while an invalidation goes through the
\* records is looked at too.
Revisited(p) ==
  {IF c.pc \in {"look", "drop"} THEN [c EXCEPT !.todo = @ \cup {p}] ELSE c : c \in cleanups}

\* createOverlayProjection, up to the write.  The projection that was made for
\* this place in this worker is given again when nothing has changed.
ReusableRecords(rb, p, ids) ==
  {r \in RecordsAt(p) : p \in issuedHere /\ r.d.epoch = rb.epoch /\ r.d.items = ids}
NextReference(p) == \* the reference that follows the one the place has, or a new one
  IF RecordsAt(p) = {} THEN [id |-> numbers.ids + 1, rev |-> 1]
  ELSE LET last == (CHOOSE r \in RecordsAt(p) : TRUE).d IN [id |-> last.id, rev |-> last.rev + 1]
\* The oldest of the others goes; their times may be equal or run backwards.
EvictedRecords(p) ==
  IF Cardinality(OtherThan(p)) < MaxOverlayRecords THEN {{}}
  ELSE {{r} : r \in OtherThan(p)}

CreateProjection(rb, p, ids) ==
  LET d == [id |-> NextReference(p).id, rev |-> NextReference(p).rev, epoch |-> rb.epoch,
            place |-> p, items |-> ids]
  IN /\ numbers.made < MaxProjections
     /\ numbers' = [numbers EXCEPT !.made = @ + 1, !.ids = IF RecordsAt(p) = {} THEN @ + 1 ELSE @]
     /\ \E out \in EvictedRecords(p) :
          /\ registry' = (OtherThan(p) \ out) \cup {[d |-> d, acked |-> FALSE]}
          /\ issuedHere' = issuedHere \ {r.d.place : r \in out}
     /\ turn' = [turn EXCEPT !.pc = "writing", !.d = d, !.at = p]
     /\ QueueWrite([who |-> "op", n |-> 0]) /\ cleanups' = Revisited(p)
     /\ UNCHANGED <<registryOK, kept>>

\* The record is the worker's own from now on, if it is still there.
IssueRecord ==
  issuedHere' = IF Registered(turn.d, turn.at) THEN issuedHere \cup {turn.at} ELSE issuedHere
MarkSent(d) == sentOnce' = sentOnce \cup {d}
MaySend == numbers.sent < MaxOverlaySent

\* getOverlayRestore: the document is still where it asked from.
StartRestore(a) ==
  /\ OverlayOpAt({"none"}) /\ a.pc = "new" /\ NoCount
  /\ IF a.place = place
       THEN /\ turn' = [NoOverlayOp EXCEPT !.pc = "restore", !.n = a.n, !.at = a.place, !.rb = marked]
            /\ AnswerRestore(a.n, "running", NoObject)
       ELSE turn' = turn /\ AnswerRestore(a.n, "refused", NoObject)
  /\ KeepRegistry /\ KeepStored /\ KeepSession /\ KeepHistory
  /\ UNCHANGED <<page, states, tombstones, click, acks, syncs, cleanups>>

RestoreEnds(pc, got) == turn' = NoOverlayOp /\ AnswerRestore(turn.n, pc, got)
GiveBack(d) ==
  /\ MaySend /\ CountOverlay("sent") /\ MarkSent(d)
  /\ RestoreEnds("answered", [obj |-> numbers.sent + 1, d |-> d])
RestoreCreates ==
  /\ OverlayOpAt({"restore"}) /\ RegistryRead
  /\ LET ids == IdsOn(turn.rb, turn.at.path) IN
     \/ /\ turn.at # place \/ registryOK = "lost"
        /\ RestoreEnds("refused", NoObject) /\ NoCount
        /\ UNCHANGED <<sentOnce, cleanups>> /\ KeepRegistry /\ KeepStored
     \/ /\ turn.at = place /\ registryOK = "ok" /\ ReusableRecords(turn.rb, turn.at, ids) # {}
        /\ \E r \in ReusableRecords(turn.rb, turn.at, ids) : GiveBack(r.d)
        /\ cleanups' = Revisited(turn.at) /\ KeepRegistry /\ KeepStored
     \/ /\ turn.at = place /\ registryOK = "ok" /\ ReusableRecords(turn.rb, turn.at, ids) = {}
        /\ CreateProjection(turn.rb, turn.at, ids) /\ UNCHANGED <<asks, sentOnce>>
  /\ UNCHANGED <<page, states, tombstones, click, acks, syncs, shown, acted>> /\ KeepSession

RestoreWritten ==
  /\ turn.n # 0
  /\ \/ OverlayOpAt({"written"}) /\ IssueRecord /\ GiveBack(turn.d)
     \/ /\ OverlayOpAt({"unwritten"}) /\ UNCHANGED <<issuedHere, sentOnce>>
        /\ RestoreEnds("refused", NoObject) /\ NoCount
  /\ UNCHANGED <<registry, registryOK, page, states, tombstones, click, acks, syncs, cleanups,
                 shown, acted>>
  /\ KeepStored /\ KeepSession

\* syncOverlaySession: a capture tells of itself only while its page is there
\* (`bound'), other changes tell the document that is there now.
StartSync(s) ==
  /\ OverlayOpAt({"none"}) /\ syncs' = syncs \ {s} /\ NoCount
  /\ turn' = IF s.bound /\ (s.at # place \/ s.rb.epoch # marked.epoch) THEN NoOverlayOp
           ELSE [NoOverlayOp EXCEPT !.pc = "sync", !.rb = s.rb, !.at = s.at, !.bound = s.bound]
  /\ KeepRegistry /\ KeepStored /\ KeepSession /\ KeepHistory /\ KeepPage
  /\ UNCHANGED <<acks, cleanups>>

\* performOverlaySync for the endpoint of the frame.  What is not bound to a page
\* is not looked through for its path.
SyncCreates ==
  /\ OverlayOpAt({"sync"}) /\ RegistryRead
  /\ IF registryOK = "lost" \/ (turn.bound /\ turn.at # place)
       THEN turn' = NoOverlayOp /\ NoCount /\ KeepRegistry /\ KeepStored /\ UNCHANGED cleanups
       ELSE CreateProjection(turn.rb, place, IF turn.bound THEN IdsOn(turn.rb, place.path)
                                 ELSE {i.id : i \in turn.rb.items})
  /\ KeepPage /\ KeepSession /\ KeepHistory /\ UNCHANGED <<acks, syncs>>

SyncWritten ==
  /\ turn.n = 0 /\ OverlayOpAt({"written", "unwritten"})
  /\ IF OverlayOpAt({"written"}) THEN IssueRecord ELSE UNCHANGED issuedHere
  /\ turn' = NoOverlayOp
  /\ IF OverlayOpAt({"written"}) /\ turn.at = place
       THEN \/ /\ MaySend /\ CountOverlay("sent") /\ MarkSent(turn.d)
               /\ states' = states \cup {[obj |-> numbers.sent + 1, d |-> turn.d]}
            \/ OverlayFault /\ CountOverlay("faults") /\ UNCHANGED <<states, sentOnce>>
       ELSE NoCount /\ UNCHANGED <<states, sentOnce>>
  /\ UNCHANGED <<registry, registryOK, page, asks, tombstones, click, acks, syncs, cleanups,
                 shown, acted>>
  /\ KeepStored /\ KeepSession

-----------------------------------------------------------------------------
(* A click on a marker: handleOwnedOverlayMutation.                        *)
StartClick ==
  /\ OverlayOpAt({"none"}) /\ click.pc \in {"asked", "again"} /\ NoCount
  /\ IF click.of.d.place = place
       THEN /\ turn' = [NoOverlayOp EXCEPT !.pc = "decide", !.at = place, !.rb = marked]
            /\ UNCHANGED click
       ELSE turn' = turn /\ click' = [click EXCEPT !.pc = "refused"]
  /\ KeepRegistry /\ KeepStored /\ KeepSession /\ KeepHistory
  /\ UNCHANGED <<page, asks, states, tombstones, acks, syncs, cleanups>>

\* overlayProjectionItemAuthority.
NamesItem(r) == /\ SameRef(r.d, click.of.d) /\ r.d.epoch = turn.rb.epoch /\ click.id \in r.d.items
            /\ ItemsMatch(turn.rb, turn.at, r.d.items)
OwningRecords == IF registryOK = "ok" THEN {r \in RecordsAt(turn.at) : NamesItem(r)} ELSE {}
ClickEnds(pc) == turn' = NoOverlayOp /\ click' = [click EXCEPT !.pc = pc]
DecideClick ==
  /\ OverlayOpAt({"decide"}) /\ RegistryRead /\ NoCount
  /\ CASE turn.at # place \/ OwningRecords = {} -> ClickEnds("refused")
       [] turn.at = place /\ OwningRecords # {} /\ (\A r \in OwningRecords : ~r.acked) ->
            ClickEnds(IF click.pc = "asked" THEN "reack" ELSE "refused")
       [] OTHER ->
            turn' = [turn EXCEPT !.pc = "change", !.d = click.of.d] /\ UNCHANGED click
  /\ KeepRegistry /\ KeepStored /\ KeepSession /\ KeepHistory
  /\ UNCHANGED <<page, asks, states, tombstones, acks, syncs, cleanups>>

\* createOwnedOverlayMutationAuthority, asked by the store before it writes.  It
\* compares attachments too, but an item's id comes from its attachment's: what
\* was removed and captured again under one id passes.
MayChangeItem ==
  /\ marked.epoch = turn.rb.epoch /\ turn.at = place
  /\ registryOK = "ok" /\ \E r \in RecordsAt(turn.at) : SameRef(r.d, turn.d) /\ r.acked
NewerProjection(d, than) ==
  d.place = than.place /\ (d.id > than.id \/ (d.id = than.id /\ d.rev > than.rev))
ChangeDone ==
  /\ click' = [click EXCEPT !.pc = "done"]
  /\ turn' = [NoOverlayOp EXCEPT !.pc = "sync", !.rb = marked', !.at = turn.at, !.bound = TRUE]
ChangeItem ==
  /\ OverlayOpAt({"change"}) /\ NoCount
  /\ LET its == {i \in marked.items : i.id = click.id} IN
     \/ /\ its = {} \/ ~MayChangeItem
        /\ ClickEnds("refused") /\ UNCHANGED <<marked, acted>>
     \/ \* to remove what is gone already needs no authority
        /\ its = {} /\ marked.epoch = turn.rb.epoch
        /\ UNCHANGED <<marked, acted>> /\ ChangeDone
     \/ /\ its # {} /\ MayChangeItem
        /\ \E removes \in BOOLEAN :
             marked' = IF removes THEN [marked EXCEPT !.items = @ \ its] ELSE marked
        /\ acted' = acted \cup {[d |-> turn.d, id |-> click.id, epoch |-> marked.epoch,
                                 newer |-> {d \in sentOnce : NewerProjection(d, turn.d)}]}
        /\ ChangeDone
  /\ KeepRegistry /\ KeepStored
  /\ UNCHANGED <<place, page, asks, states, tombstones, acks, syncs, cleanups, sentOnce, shown>>

-----------------------------------------------------------------------------
(* acknowledgeOverlayProjection in the worker.                             *)
TaskBecomes(t, u) == acks' = (acks \ {t}) \cup {u}
TaskPc(t, pc) == TaskBecomes(t, [t EXCEPT !.pc = pc])
\* The place is asked of the browser; the sender only has to be its document.
AckReads(t) ==
  /\ t.pc = "asked" /\ RegistryRead /\ NoCount
  /\ IF t.d.place.doc = place.doc /\ registryOK = "ok" /\ Registered(t.d, place)
       THEN TaskBecomes(t, [t EXCEPT !.pc = "read", !.at = place, !.rb = marked])
       ELSE TaskPc(t, "refused")
  /\ KeepWorker /\ KeepPage /\ KeepSession /\ KeepHistory

MayAcknowledge(t) ==
  ItemsMatch(t.rb, t.at, t.d.items) /\ t.rb.epoch = t.d.epoch /\ Registered(t.d, t.at)
MarkRecord(p, acked) ==
  registry' = {IF r.d.place = p THEN [r EXCEPT !.acked = acked] ELSE r : r \in registry}
AckMarks(t) ==
  /\ t.pc = "read" /\ NoCount
  /\ IF MayAcknowledge(t)
       THEN /\ MarkRecord(t.at, TRUE) /\ QueueWrite([who |-> "task", n |-> t.n])
            /\ TaskPc(t, "writing")
       ELSE TaskPc(t, "refused") /\ UNCHANGED <<registry, writer>>
  /\ UNCHANGED <<issuedHere, registryOK, kept>>
  /\ KeepWork /\ KeepPage /\ KeepSession /\ KeepHistory

AckWritten(t) ==
  /\ t.pc \in {"written", "unwritten"} /\ NoCount
  /\ LET here == Registered(t.d, t.at)
         live == ItemsMatch(t.rb, t.at, t.d.items)
         stands == \E r \in RecordsAt(t.at) : SameRef(r.d, t.d) /\ r.acked
     IN CASE t.pc = "unwritten" \/ t.undone ->
               /\ IF here /\ ~t.undone THEN MarkRecord(t.at, FALSE) ELSE UNCHANGED registry
               /\ TaskPc(t, "refused") /\ UNCHANGED writer
          [] OTHER ->
               IF registryOK = "ok" /\ live /\ stands
                 THEN TaskPc(t, "accepted") /\ UNCHANGED <<registry, writer>>
               ELSE IF here /\ ~live
                 THEN /\ MarkRecord(t.at, FALSE) /\ QueueWrite([who |-> "task", n |-> t.n])
                      /\ TaskBecomes(t, [t EXCEPT !.pc = "writing", !.undone = TRUE])
               ELSE TaskPc(t, "refused") /\ UNCHANGED <<registry, writer>>
  /\ UNCHANGED <<issuedHere, registryOK, kept>>
  /\ KeepWork /\ KeepPage /\ KeepSession /\ KeepHistory

-----------------------------------------------------------------------------
(* Navigations and tombstones invalidate projections.                      *)
ReplaceCleanup(c, new) == cleanups' = (cleanups \ {c}) \cup new
KeepForCleanup == /\ KeepPage /\ KeepSession /\ KeepHistory
                  /\ UNCHANGED <<registryOK, kept, turn, syncs, acks>> /\ NoCount
\* invalidateOverlayProjectionsForNavigation: record by record, with an await
\* between the question whether one still fits and its removal by place.
CleanupReads(c) ==
  /\ c.pc = "new" /\ RegistryRead
  /\ ReplaceCleanup(c, IF registry = {} THEN {}
                ELSE {[c EXCEPT !.pc = "look", !.rb = marked, !.todo = {r.d.place : r \in registry}]})
  /\ UNCHANGED <<registry, issuedHere, writer>> /\ KeepForCleanup
CleanupLooks(c) ==
  /\ c.pc = "look" /\ c.todo # {}
  /\ \E p \in c.todo :
       LET rest == [c EXCEPT !.todo = @ \ {p}] IN
       ReplaceCleanup(c, {IF \E r \in RecordsAt(p) : ~ItemsMatch(c.rb, p, r.d.items)
                     THEN [rest EXCEPT !.pc = "drop", !.victim = p] ELSE rest})
  /\ UNCHANGED <<registry, issuedHere, writer>> /\ KeepForCleanup
DropRecord(p) == registry' = OtherThan(p) /\ issuedHere' = issuedHere \ {p}
CleanupDrops(c) ==
  /\ c.pc = "drop" /\ DropRecord(c.victim)
  /\ ReplaceCleanup(c, {[c EXCEPT !.pc = "look", !.changed = TRUE]})
  /\ UNCHANGED writer /\ KeepForCleanup
CleanupEnds(c) ==
  /\ c.pc = "look" /\ c.todo = {}
  /\ IF c.changed THEN /\ QueueWrite([who |-> "cleanup", n |-> c.n])
                       /\ ReplaceCleanup(c, {[c EXCEPT !.pc = "writing"]})
     ELSE UNCHANGED writer /\ ReplaceCleanup(c, {})
  /\ UNCHANGED <<registry, issuedHere>> /\ KeepForCleanup
\* invalidateOverlayProjectionForClearSubject.
ForgetCleared(c) ==
  /\ c.pc = "forget" /\ RegistryRead /\ DropRecord(c.victim)
  /\ IF RecordsAt(c.victim) # {} THEN /\ QueueWrite([who |-> "cleanup", n |-> c.n])
                               /\ ReplaceCleanup(c, {[c EXCEPT !.pc = "writing"]})
     ELSE UNCHANGED writer /\ ReplaceCleanup(c, {})
  /\ KeepForCleanup

-----------------------------------------------------------------------------
(* The page: content.ts.                                                   *)
\* Everything older stops to count: overlayProjectionApplicationRevision, and
\* for restores liveOverlayStateRevision.
OutdatedTasks(ts, live) == {[t EXCEPT !.cur = FALSE, !.live = @ /\ ~live] : t \in ts}
UnaskedRestores == {[a EXCEPT !.cur = FALSE] : a \in asks}
\* requestOverlayRestore; past the bound nothing comes of it.
AskRestore(others, applies) ==
  IF numbers.asks < MaxOverlayAsks
    THEN asks' = others \cup {RestoreAsked(numbers.asks + 1, place, applies)} /\ CountOverlay("asks")
    ELSE asks' = others /\ NoCount
OnRoute(d) == d.place = place
\* MUTANT of FencedOff: what was made before the clear is shown again.
FencedOffNever(d) == FALSE
\* violatesClearProjectionFence.
FencedOff(d) == /\ d.items # {} /\ page.fence.epoch # 0
             /\ page.fence.path = d.place.path /\ d.epoch # page.fence.epoch
UnackedUnless(d) == [page EXCEPT !.acked = IF SameDescriptor(@.d, d) THEN @ ELSE NoObject]
\* clearAppliedOverlayProjection, when what is applied is one of these objects.
TakenBackPage(objs) ==
  LET o == IF page.applied.obj # 0 THEN page.applied.obj ELSE page.acked.obj
      Kept(x) == IF o \in objs /\ x.obj = o THEN NoObject ELSE x
  IN [page EXCEPT !.applied = Kept(@), !.acked = Kept(@)]
NewAck(kind, got, pc) ==
  [n |-> got.obj, kind |-> kind, d |-> got.d, cur |-> TRUE, live |-> TRUE, pc |-> pc,
   rb |-> NoReadback, at |-> NoPlace, undone |-> FALSE]
ShowProjection(d) == shown' = shown \cup {d}
KeepOthers == KeepWorker /\ KeepSession /\ UNCHANGED <<sentOnce, acted>>

\* An overlay state arrives: applyOverlayProjection.
GetState(m) ==
  /\ states' = states \ {m} /\ NoCount
  /\ CASE m.d.place.doc # place.doc -> UNCHANGED <<page, asks, acks, shown>>
       [] m.d.place.doc = place.doc /\ (~OnRoute(m.d) \/ FencedOff(m.d)) ->
            /\ asks' = UnaskedRestores /\ acks' = {[t EXCEPT !.live = FALSE] : t \in acks}
            /\ UNCHANGED <<page, shown>>
       [] OTHER ->
            /\ asks' = UnaskedRestores /\ ShowProjection(m.d)
            /\ acks' = OutdatedTasks(acks, TRUE) \cup {NewAck("state", m, "asked")}
            /\ page' = [UnackedUnless(m.d) EXCEPT !.applied = m]
  /\ KeepOthers /\ UNCHANGED <<tombstones, click>>

\* The answer to a restore request; its markers are bound to elements first.
GetRestore(a) ==
  /\ a.pc \in {"answered", "refused"} /\ asks' = asks \ {a} /\ NoCount
  /\ IF a.pc = "refused" \/ ~a.cur \/ ~OnRoute(a.got.d) \/ FencedOff(a.got.d)
       THEN UNCHANGED <<page, acks, shown>>
       ELSE /\ acks' = OutdatedTasks(acks, FALSE) \cup {NewAck("restore", a.got, "bind")}
            /\ page' = IF a.applies THEN [UnackedUnless(a.got.d) EXCEPT !.applied = a.got]
                       ELSE UnackedUnless(a.got.d)
            /\ IF a.applies THEN ShowProjection(a.got.d) ELSE UNCHANGED shown
  /\ KeepOthers /\ UNCHANGED <<states, tombstones, click>>

AckCounts(t) == t.cur /\ OnRoute(t.d)
BindTargets(t) ==
  /\ t.pc = "bind" /\ NoCount
  /\ IF AckCounts(t)
       THEN /\ TaskPc(t, "asked") /\ ShowProjection(t.d)
            /\ page' = [page EXCEPT !.applied = [obj |-> t.n, d |-> t.d]]
       ELSE acks' = acks \ {t} /\ page' = TakenBackPage({t.n}) /\ UNCHANGED shown
  /\ KeepOthers /\ UNCHANGED <<asks, states, tombstones, click>>

\* The worker has answered.  A refusal is followed by one more restore.
AckAnswered(t) ==
  /\ t.kind # "click" /\ t.pc \in {"accepted", "refused"} /\ acks' = acks \ {t}
  /\ LET o == [obj |-> t.n, d |-> t.d] IN
     CASE ~AckCounts(t) -> page' = TakenBackPage({t.n}) /\ UNCHANGED asks /\ NoCount
       [] AckCounts(t) /\ t.pc = "accepted" ->
            /\ page' = [page EXCEPT !.applied = o, !.acked = o, !.failed = NoProjection]
            /\ IF t.kind = "state" /\ t.live THEN AskRestore(asks, FALSE) ELSE UNCHANGED asks /\ NoCount
       [] OTHER ->
            /\ page' = [TakenBackPage({t.n}) EXCEPT !.failed = t.d]
            /\ IF SameDescriptor(page.failed, t.d) THEN UNCHANGED asks /\ NoCount
               ELSE AskRestore(asks, TRUE)
  /\ KeepOthers /\ UNCHANGED <<states, tombstones, click, shown>>

\* requestOverlayAction.  Which markers are drawn is left out: any may be there.
ClickMarker ==
  /\ numbers.clicks < MaxOverlayClicks /\ CountOverlay("clicks") /\ click = NoClick
  /\ page.acked.obj # 0
  /\ \E i \in OverlayIds : click' = [pc |-> "asked", id |-> i, of |-> page.acked]
  /\ KeepOthers /\ UNCHANGED <<page, asks, states, tombstones, acks, shown>>

\* sendOverlayActionWithOneReack.
StillAcked == page.acked.obj = click.of.obj /\ OnRoute(click.of.d)
ClickAnswered ==
  /\ NoCount
  /\ \/ click.pc \in {"done", "refused"} /\ click' = NoClick /\ UNCHANGED acks
     \/ /\ click.pc = "reack"
        /\ IF StillAcked
             THEN /\ click' = [click EXCEPT !.pc = "waiting"]
                  /\ acks' = acks \cup {[NewAck("click", click.of, "asked") EXCEPT !.n = 0]}
             ELSE click' = NoClick /\ UNCHANGED acks
     \/ \E t \in acks :
          /\ t.kind = "click" /\ t.pc \in {"accepted", "refused"} /\ acks' = acks \ {t}
          /\ click' = IF t.pc = "accepted" /\ StillAcked THEN [click EXCEPT !.pc = "again"]
                      ELSE NoClick
  /\ KeepOthers /\ UNCHANGED <<page, asks, states, tombstones, shown>>

\* applyClearProjectionTombstone; its acknowledgement reaches the worker.
TombstoneArrives(m) ==
  /\ tombstones' = tombstones \ {m} /\ NoCount
  /\ IF m.place = place /\ m.epoch >= page.fence.epoch
       THEN /\ page' = [page EXCEPT !.applied = NoObject, !.acked = NoObject,
                                    !.fence = [epoch |-> m.epoch, path |-> m.place.path]]
            /\ asks' = UnaskedRestores /\ acks' = OutdatedTasks(acks, TRUE)
            /\ cleanups' = cleanups \cup
                 {[n |-> m.n, pc |-> "forget", rb |-> NoReadback, todo |-> {},
                   victim |-> m.place, changed |-> FALSE]}
       ELSE UNCHANGED <<page, asks, acks, cleanups>>
  /\ KeepRegistry /\ KeepStored /\ KeepSession /\ KeepHistory
  /\ UNCHANGED <<turn, syncs, states, click>>

-----------------------------------------------------------------------------
(* What happens around it.                                                 *)
NextEvent == numbers.events + 1
\* handleOverlayRouteChange, or a new document with its content script.
PageMoves ==
  /\ OverlayEvent
  /\ \E p \in OverlayPaths, doc \in {place.doc, place.doc + 1} :
       /\ <<p, doc>> # <<place.path, place.doc>> /\ place' = [doc |-> doc, path |-> p]
       /\ IF doc = place.doc
            THEN /\ page' = [TakenBackPage(1 .. MaxOverlaySent) EXCEPT !.failed = NoProjection]
                 /\ acks' = OutdatedTasks(acks, TRUE)
            ELSE page' = FreshPage /\ UNCHANGED acks
  /\ LET more == numbers.asks < MaxOverlayAsks IN
     /\ asks' = UnaskedRestores \cup
          (IF more THEN {RestoreAsked(numbers.asks + 1, place', TRUE)} ELSE {})
     /\ numbers' = [numbers EXCEPT !.events = @ + 1, !.asks = IF more THEN @ + 1 ELSE @]
  /\ cleanups' = cleanups \cup {[n |-> NextEvent, pc |-> "new", rb |-> NoReadback, todo |-> {},
                                 victim |-> NoPlace, changed |-> FALSE]}
  /\ KeepRegistry /\ KeepStored /\ KeepHistory
  /\ UNCHANGED <<marked, states, tombstones, click, turn, syncs>>

SessionChanges(items, epoch, bound) ==
  /\ marked' = [epoch |-> epoch, items |-> items]
  /\ syncs' = syncs \cup {[rb |-> marked', at |-> place, bound |-> bound, n |-> NextEvent]}
  /\ KeepRegistry /\ KeepStored /\ KeepHistory
  /\ UNCHANGED <<place, page, asks, states, click, turn, cleanups, acks>>
ItemCaptured ==
  /\ OverlayEvent /\ CountOverlay("events") /\ UNCHANGED tombstones
  /\ \E i \in OverlayIds : \* a new item, or one of this path again
       LET item == [id |-> i, path |-> place.path] IN
       /\ \A j \in marked.items : j.id = i => j = item
       /\ SessionChanges(marked.items \cup {item}, marked.epoch, TRUE)
ItemRemoved ==
  /\ OverlayEvent /\ CountOverlay("events") /\ UNCHANGED tombstones
  /\ \E i \in marked.items : SessionChanges(marked.items \ {i}, marked.epoch, FALSE)
OverlaySessionCleared ==
  /\ OverlayEvent /\ CountOverlay("events")
  /\ SessionChanges({}, marked.epoch + 1, FALSE)
  /\ tombstones' = tombstones \cup {[place |-> place, epoch |-> marked.epoch + 1, n |-> NextEvent]}

\* The panel, or a change of what is visible, has the page ask once more.
RestoreAskedAgain ==
  /\ OverlayEvent /\ numbers.asks < MaxOverlayAsks
  /\ asks' = asks \cup {RestoreAsked(numbers.asks + 1, place, TRUE)}
  /\ numbers' = [numbers EXCEPT !.events = @ + 1, !.asks = @ + 1]
  /\ KeepOthers /\ UNCHANGED <<page, states, tombstones, click, acks, shown>>

OverlayWorkerStops ==
  /\ OverlayFault /\ CountOverlay("faults")
  /\ registry' = {} /\ issuedHere' = {} /\ registryOK' = "unread"
  /\ writer' = IdleWriter /\ turn' = NoOverlayOp /\ syncs' = {} /\ cleanups' = {}
  /\ asks' = {IF a.pc = "running" THEN [a EXCEPT !.pc = "refused"] ELSE a : a \in asks}
  /\ acks' = {IF t.pc \in {"read", "writing", "written", "unwritten"}
                 THEN [t EXCEPT !.pc = "refused"] ELSE t : t \in acks}
  /\ click' = IF turn.pc \in {"decide", "change"} THEN [click EXCEPT !.pc = "refused"] ELSE click
  /\ UNCHANGED <<kept, page, states, tombstones>> /\ KeepSession /\ KeepHistory

OverlayNext ==
  \/ LoadOverlayRegistry \/ WriteGeneration \/ WriteRecords
  \/ \E a \in asks : StartRestore(a) \/ GetRestore(a)
  \/ RestoreCreates \/ RestoreWritten
  \/ \E s \in syncs : StartSync(s)
  \/ SyncCreates \/ SyncWritten
  \/ StartClick \/ DecideClick \/ ChangeItem
  \/ \E t \in acks : AckReads(t) \/ AckMarks(t) \/ AckWritten(t) \/ BindTargets(t) \/ AckAnswered(t)
  \/ \E c \in cleanups : \/ CleanupReads(c) \/ CleanupLooks(c) \/ CleanupDrops(c)
                         \/ CleanupEnds(c) \/ ForgetCleared(c)
  \/ \E m \in states : GetState(m)
  \/ \E m \in tombstones : TombstoneArrives(m)
  \/ ClickMarker \/ ClickAnswered
  \/ PageMoves \/ ItemCaptured \/ ItemRemoved \/ OverlaySessionCleared
  \/ RestoreAskedAgain \/ OverlayWorkerStops

-----------------------------------------------------------------------------
OverlayTypeOK ==
  /\ place \in OverlayPlaces /\ marked.epoch \in 1 .. MaxOverlayEvents + 1
  /\ \A i \in marked.items : i.id \in OverlayIds /\ i.path \in OverlayPaths
  /\ registryOK \in {"unread", "ok", "lost"} /\ kept.agrees \in BOOLEAN
  /\ Cardinality(registry) <= MaxOverlayRecords
  /\ \A r, s \in registry : r.d.place = s.d.place => r = s
  /\ turn.pc \in {"none", "restore", "sync", "decide", "change", "writing", "written", "unwritten"}
  /\ click.pc \in {"none", "asked", "reack", "waiting", "again", "done", "refused"}
  /\ \A t \in acks : t.pc \in {"bind", "asked", "read", "writing", "written", "unwritten",
                                "accepted", "refused"}

\* A reference names one projection, whatever was lost or forgotten between.
OneContent == \A a, b \in sentOnce : SameRef(a, b) => a = b
\* What the worker takes for acknowledged was shown.
AckedWasShown == \A r \in registry : r.acked => r.d \in shown
\* ... and would be found again by the next worker.
AckedIsStored ==
  registryOK = "ok" /\ writer = IdleWriter =>
    \A r \in registry : r.acked => kept.agrees /\ r.d \in kept.records
\* A click names what is shown.
ClickNamesShown ==
  page.applied.obj # 0 /\ page.acked.obj # 0 => SameDescriptor(page.applied.d, page.acked.d)
\* Nothing from before a clear is shown after its tombstone.
NothingClearedShown ==
  LET d == page.applied.d IN
  page.fence.epoch # 0 /\ d.items # {} /\ d.place.path = page.fence.path => d.epoch = page.fence.epoch
\* A click changed an item that its projection named, in its session, and that
\* projection had been shown and nothing newer been sent for its place.
ActedAsShown ==
  \A a \in acted : /\ a.d \in shown /\ a.id \in a.d.items
                   /\ a.epoch = a.d.epoch /\ a.newer = {}

OverlayIsSafe ==
  /\ OneContent /\ AckedWasShown /\ AckedIsStored
  /\ ClickNamesShown /\ NothingClearedShown /\ ActedAsShown
=============================================================================
