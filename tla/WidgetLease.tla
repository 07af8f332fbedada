------------------------------ MODULE WidgetLease ------------------------------
(***************************************************************************)
(* The widget in the page speaks for one surface of its tab, with a        *)
(* capability (background-controller.ts).  What the worker trusts is in    *)
(* its memory (`live'); a record of it survives the worker for minutes     *)
(* (in-page-widget-lease-store.ts), and so do tombstones of the surfaces   *)
(* that were released, in another storage area, written before the record  *)
(* is taken away.  When the tombstones cannot be read or written nothing   *)
(* is restored any more (`poison').                                        *)
(*                                                                         *)
(* One tab.  Surfaces are numbered in the order they are made, documents   *)
(* in the order they are loaded.  A show whose tab was cancelled, and a    *)
(* restoration a terminal change has crossed, are not `ok' any more: the   *)
(* code compares a generation and a revision at the same places.  What a   *)
(* widget asks for besides (notes, captures, actions) is left out.         *)
(***************************************************************************)
EXTENDS Naturals, Sequences, FiniteSets

CONSTANTS
  WidgetTasks,     \* tasks that may be under way at one time
  MaxSurfaces,     \* bound on the surfaces that are made
  MaxWidgetEvents, \* bound on tasks, navigations, ends of leases and of the worker
  MaxWidgetFaults  \* bound on storage requests that fail

VARIABLES
  live,            \* surfaces the worker trusts: inPageWidgetLeasesBySurfaceId
  bad,             \* and those it has marked as released
  loaded,          \* the tombstones have been read
  authority,       \* they can be relied upon
  record,          \* the stored lease of the tab, 0: none
  tombs, poison,   \* in the local storage area
  made,            \* the document of each surface
  given,           \* surfaces whose capability a page was given
  document, moved, \* of the tab; its commit is still to be handled
  tasks,
  waiting,         \* tasks with a storage request, in the order they made it
  over,            \* surfaces whose release or revocation came to its end
  widgetEvents, widgetFaults

widgetVars == <<live, bad, loaded, authority, record, tombs, poison, made, given, document,
                moved, tasks, waiting, over, widgetEvents, widgetFaults>>

Surfaces == 1 .. MaxSurfaces
NoTask == [kind |-> "none", pc |-> "none", at |-> "none", s |-> 0, doc |-> 0,
           ok |-> FALSE, had |-> FALSE, set |-> {}, snap |-> {}]
Routines == {"none", "revoke", "discard", "release", "reject", "restore", "save", "clear"}
CallPlaces == {"none", "page", "again", "ensure", "init", "answer", "queue", "mark", "load",
               "tombs", "poison", "store", "undone", "check"}

WidgetTypeOK ==
  /\ live \subseteq Surfaces /\ bad \subseteq Surfaces /\ tombs \subseteq Surfaces
  /\ given \subseteq Surfaces /\ over \subseteq Surfaces
  /\ loaded \in BOOLEAN /\ authority \in BOOLEAN /\ poison \in BOOLEAN /\ moved \in BOOLEAN
  /\ record \in Surfaces \cup {0}
  /\ Len(made) <= MaxSurfaces /\ \A s \in DOMAIN made : made[s] \in 1 .. document
  /\ tasks \in [WidgetTasks ->
       [kind : {"none", "show", "release", "reject", "navigation", "restore", "save"},
        pc : CallPlaces, at : Routines, s : Surfaces \cup {0}, doc : 0 .. document,
        ok : BOOLEAN, had : BOOLEAN, set : SUBSET Surfaces, snap : SUBSET Surfaces]]
  /\ \A k \in DOMAIN waiting : tasks[waiting[k]].pc \in {"tombs", "store"}
  /\ widgetEvents \in 0 .. MaxWidgetEvents /\ widgetFaults \in 0 .. MaxWidgetFaults

WidgetInit ==
  /\ live = {} /\ bad = {} /\ loaded = FALSE /\ authority = TRUE /\ record = 0 /\ tombs = {}
  /\ poison = FALSE /\ made = <<>> /\ given = {} /\ document = 1 /\ moved = FALSE
  /\ tasks = [w \in WidgetTasks |-> NoTask] /\ waiting = <<>> /\ over = {}
  /\ widgetEvents = 0 /\ widgetFaults = 0

Happens == /\ widgetEvents < MaxWidgetEvents /\ widgetEvents' = widgetEvents + 1
           /\ UNCHANGED widgetFaults
Fine == UNCHANGED <<widgetEvents, widgetFaults>>
StorageFails == /\ widgetFaults < MaxWidgetFaults /\ widgetFaults' = widgetFaults + 1
                /\ UNCHANGED widgetEvents
KeepStorage == UNCHANGED <<record, tombs, poison>>
KeepMarks == UNCHANGED <<loaded, authority>>
KeepTabPage == UNCHANGED <<made, given, document, moved>>
KeepTrust == UNCHANGED <<live, bad>>

\* The effects of a step on the other tasks.
TaskOver(w, f) == [f EXCEPT ![w] = NoTask]
Overtakes(f, kind) ==
  [o \in WidgetTasks |-> IF f[o].kind = kind THEN [f[o] EXCEPT !.ok = FALSE] ELSE f[o]]
Cancelled(f) == Overtakes(f, "show")
Crossed(f) == Overtakes(f, "restore")
Terminal(c) == c.at \in {"revoke", "discard", "release", "reject"}
Unhindered == \A o \in WidgetTasks : ~Terminal(tasks[o])
Goes(w, pc) == tasks' = [tasks EXCEPT ![w].pc = pc]
Others(w) == SelectSeq(waiting, LAMBDA o : o # w)
Asks(w, f) == tasks' = f /\ waiting' = Append(Others(w), w)
First(w, pc) ==
  \E k \in DOMAIN waiting : /\ waiting[k] = w /\ tasks[w].pc = pc
                            /\ \A j \in 1 .. k - 1 : tasks[waiting[j]].pc # pc

\* revokeInPageWidgetTab up to its first await.
RevokeTab(w, c, keep, f) ==
  /\ bad' = bad \cup live /\ live' = {}
  /\ LET g == IF keep THEN f ELSE Cancelled(f) IN
     tasks' = [Crossed(g) EXCEPT ![w] =
       [c EXCEPT !.pc = "load", !.at = "revoke", !.had = live # {}, !.set = DOMAIN made]]

\* discardInPageWidgetShowLease.
Discard(w) ==
  /\ live' = live \ {tasks[w].s} /\ bad' = bad \cup {tasks[w].s}
  /\ tasks' = [Crossed(tasks) EXCEPT ![w].pc = "load", ![w].at = "discard"]

Free(w) == /\ tasks[w].pc = "none"
           /\ w = CHOOSE f \in WidgetTasks : tasks[f].pc = "none"
Begins(w, kind, s) == [NoTask EXCEPT !.kind = kind, !.s = s, !.ok = TRUE]

-----------------------------------------------------------------------------
(* Showing the widget.                                                     *)
\* A tab has one show under way; whoever asks meanwhile gets its answer.
BeginShow(w) ==
  /\ Free(w) /\ Happens
  /\ ~ \E o \in WidgetTasks : tasks[o].kind = "show" /\ tasks[o].ok
  /\ tasks' = [tasks EXCEPT ![w] = [Begins(w, "show", 0) EXCEPT !.pc = "page"]]
  /\ KeepTrust /\ KeepMarks /\ KeepStorage /\ KeepTabPage /\ UNCHANGED <<waiting, over>>

\* The page is there: it may have a surface already.
ShowPage(w) ==
  /\ tasks[w].pc = "page" /\ Fine
  /\ LET c == [tasks[w] EXCEPT !.doc = document]
         own == {s \in live : made[s] = document} IN
     \/ tasks' = TaskOver(w, tasks) /\ KeepTrust
     \/ /\ c.ok /\ own # {} /\ KeepTrust
        /\ tasks' = [tasks EXCEPT ![w] =
             [c EXCEPT !.pc = "again", !.s = CHOOSE s \in own : TRUE]]
     \/ c.ok /\ own = {} /\ RevokeTab(w, c, TRUE, tasks)
  /\ KeepMarks /\ KeepStorage /\ KeepTabPage /\ UNCHANGED <<waiting, over>>

\* Its widget is asked to be there; another extension's panel may stand in
\* for it, and then the tab needs no surface.
ShowAgain(w) ==
  /\ tasks[w].pc = "again" /\ Fine
  /\ \/ tasks' = TaskOver(w, tasks) /\ KeepTrust /\ UNCHANGED given
     \/ /\ tasks[w].ok /\ tasks[w].doc = document
        /\ RevokeTab(w, tasks[w], TRUE, tasks) /\ UNCHANGED given
     \/ /\ tasks[w].ok /\ tasks[w].doc = document /\ given' = given \cup {tasks[w].s}
        /\ tasks' = TaskOver(w, tasks) /\ KeepTrust
  /\ KeepMarks /\ KeepStorage /\ UNCHANGED <<made, document, moved, waiting, over>>

\* A new surface, stored before it is trusted.
ShowNew(w) ==
  /\ tasks[w].pc = "ensure" /\ Fine
  /\ \/ tasks' = TaskOver(w, tasks) /\ UNCHANGED <<made, waiting>>
     \/ /\ tasks[w].ok /\ tasks[w].doc = document /\ Len(made) < MaxSurfaces
        /\ made' = Append(made, document)
        /\ Asks(w, [tasks EXCEPT ![w].s = Len(made) + 1, ![w].pc = "store", ![w].at = "save"])
  /\ KeepTrust /\ KeepMarks /\ KeepStorage /\ UNCHANGED <<given, document, moved, over>>

\* The page is given the surface; then its answer comes.
ShowInit(w) ==
  /\ tasks[w].pc = "init" /\ Fine
  /\ \/ Discard(w) /\ UNCHANGED given
     \/ /\ tasks[w].ok /\ tasks[w].doc = document /\ given' = given \cup {tasks[w].s}
        /\ Goes(w, "answer") /\ KeepTrust
  /\ KeepMarks /\ KeepStorage /\ UNCHANGED <<made, document, moved, waiting, over>>

ShowAnswer(w) ==
  /\ tasks[w].pc = "answer" /\ Fine
  /\ \/ Discard(w)
     \/ tasks[w].ok /\ tasks' = TaskOver(w, tasks) /\ KeepTrust
  /\ KeepMarks /\ KeepStorage /\ KeepTabPage /\ UNCHANGED <<waiting, over>>

-----------------------------------------------------------------------------
(* What ends a surface, and what changes its record.                       *)
\* widget-surface-release, and a widget that refused its action: the second
\* is forgotten at once, the first waits for the lifecycle of the agent.
BeginEnd(w, s, kind) ==
  /\ Free(w) /\ Happens /\ s \in live \cap given
  /\ kind = "release" => s \notin bad
  /\ live' = IF kind = "reject" THEN live \ {s} ELSE live
  /\ tasks' = [Crossed(tasks) EXCEPT ![w] =
       [Begins(w, kind, s) EXCEPT !.at = kind, !.pc = IF kind = "reject" THEN "mark" ELSE "queue"]]
  /\ KeepMarks /\ KeepStorage /\ KeepTabPage /\ UNCHANGED <<bad, waiting, over>>

EndMarks(w) ==
  /\ tasks[w].pc \in {"mark", "queue"} /\ Fine
  /\ IF tasks[w].pc = "queue" /\ tasks[w].s \notin live \ bad
       THEN tasks' = TaskOver(w, tasks) /\ UNCHANGED bad
       ELSE Goes(w, "load") /\ bad' = bad \cup {tasks[w].s}
  /\ KeepMarks /\ KeepStorage /\ KeepTabPage /\ UNCHANGED <<live, waiting, over>>

\* handleNavigationCommitted: another document ends the surface.
Navigates ==
  /\ Happens /\ ~moved /\ document' = document + 1 /\ moved' = TRUE
  /\ KeepTrust /\ KeepMarks /\ KeepStorage /\ UNCHANGED <<made, given, tasks, waiting, over>>
Committed(w) ==
  /\ Free(w) /\ moved /\ moved' = FALSE /\ Fine
  /\ IF \E s \in live : made[s] = document
       THEN UNCHANGED tasks /\ KeepTrust
       ELSE RevokeTab(w, Begins(w, "navigation", 0), FALSE, tasks)
  /\ KeepMarks /\ KeepStorage /\ UNCHANGED <<made, given, document, waiting, over>>

\* Another address of the same document, a chosen frame, a reconciled
\* marker: the lease is stored with its new context.
BeginSave(w, s) ==
  /\ Free(w) /\ Happens /\ s \in live
  /\ Asks(w, [tasks EXCEPT ![w] = [Begins(w, "save", s) EXCEPT !.pc = "store", !.at = "save"]])
  /\ KeepTrust /\ KeepMarks /\ KeepStorage /\ KeepTabPage /\ UNCHANGED over

\* Six seconds without a port: forgotten, but not released.
DisconnectExpires(s) ==
  /\ Happens /\ s \in live \cap given
  /\ ~ \E o \in WidgetTasks : tasks[o].kind = "release" /\ tasks[o].s = s
  /\ live' = live \ {s} /\ tasks' = Cancelled(tasks)
  /\ KeepMarks /\ KeepStorage /\ KeepTabPage /\ UNCHANGED <<bad, waiting, over>>

\* Five minutes without a renewal, or the browser has been closed.
RecordLapses ==
  /\ Happens /\ record # 0 /\ record' = 0
  /\ KeepTrust /\ KeepMarks /\ KeepTabPage /\ UNCHANGED <<tombs, poison, tasks, waiting, over>>

\* resolveInPageWidgetLease of a surface the worker does not know (any more).
BeginRestore(w, s) ==
  /\ Free(w) /\ Happens /\ s \in given \ live
  /\ tasks' = [tasks EXCEPT ![w] =
       [Begins(w, "restore", s) EXCEPT !.at = "restore", !.pc = "load", !.ok = Unhindered]]
  /\ KeepTrust /\ KeepMarks /\ KeepStorage /\ KeepTabPage /\ UNCHANGED <<waiting, over>>

Restorable(s) == authority /\ s \notin bad

Restores(w) ==
  live' = IF Restorable(tasks[w].s) /\ tasks[w].ok THEN live \cup {tasks[w].s} ELSE live

RestoreChecks(w) ==
  /\ tasks[w].pc = "check" /\ Fine
  /\ Restores(w) /\ tasks' = TaskOver(w, tasks)
  /\ KeepMarks /\ KeepStorage /\ KeepTabPage /\ UNCHANGED <<bad, waiting, over>>

-----------------------------------------------------------------------------
(* The tombstones: ensureInPageWidgetLeaseInvalidationsLoaded and          *)
(* persistInPageWidgetLeaseInvalidations.                                  *)
LoadTombs ==
  /\ ~loaded /\ \E w \in WidgetTasks : tasks[w].pc = "load"
  /\ loaded' = TRUE
  /\ \/ Fine /\ ~poison /\ bad' = bad \cup tombs /\ UNCHANGED <<authority, poison>>
     \/ Fine /\ poison /\ authority' = FALSE /\ UNCHANGED <<bad, poison>>
     \/ StorageFails /\ authority' = FALSE /\ poison' = TRUE /\ UNCHANGED bad
  /\ KeepTabPage /\ UNCHANGED <<live, record, tombs, tasks, waiting, over>>

RestoreAsks(w) ==
  /\ tasks[w].pc = "load" /\ tasks[w].at = "restore" /\ loaded /\ Fine
  /\ IF Restorable(tasks[w].s) THEN Asks(w, [tasks EXCEPT ![w].pc = "store"])
     ELSE tasks' = TaskOver(w, tasks) /\ UNCHANGED waiting
  /\ KeepTrust /\ KeepMarks /\ KeepStorage /\ KeepTabPage /\ UNCHANGED over

\* Everybody else writes the tombstones as they now are; a show whose
\* surface is stored has taken away those of its tab first.
TombsAsk(w) ==
  /\ tasks[w].pc = "load" /\ tasks[w].at # "restore" /\ loaded /\ Fine
  /\ LET clears == tasks[w].at = "clear"
         now == IF clears THEN {} ELSE bad
         c == [tasks[w] EXCEPT !.set = IF clears THEN bad ELSE @, !.snap = now]
     IN
     /\ bad' = now
     /\ IF clears /\ bad = {} THEN Goes(w, "init") /\ UNCHANGED waiting
        ELSE IF authority THEN Asks(w, [tasks EXCEPT ![w] = [c EXCEPT !.pc = "tombs"]])
        ELSE /\ tasks' = [tasks EXCEPT ![w] = [c EXCEPT !.pc = "poison"]]
             /\ UNCHANGED waiting
  /\ KeepMarks /\ KeepStorage /\ KeepTabPage /\ UNCHANGED <<live, over>>

\* What follows the tombstones, written or not.
AfterTombs(w, wrote) ==
  LET c == tasks[w] IN
  \/ /\ c.at \in {"revoke", "discard", "reject"}
     /\ Asks(w, [tasks EXCEPT ![w].pc = "store"]) /\ KeepTrust
  \/ /\ c.at = "release" /\ wrote /\ live' = live \ {c.s} /\ UNCHANGED bad
     /\ Asks(w, [Cancelled(tasks) EXCEPT ![w].pc = "store"])
  \/ /\ c.at = "release" /\ ~wrote /\ tasks' = TaskOver(w, tasks) /\ KeepTrust
     /\ waiting' = Others(w)
  \/ /\ c.at = "clear" /\ Goes(w, "init") /\ UNCHANGED live /\ waiting' = Others(w)
     /\ bad' = IF wrote THEN bad ELSE bad \cup c.set

TombsWritten(w) ==
  /\ First(w, "tombs")
  /\ \/ Fine /\ tombs' = tasks[w].snap /\ AfterTombs(w, TRUE) /\ UNCHANGED authority
     \/ /\ StorageFails /\ authority' = FALSE /\ Goes(w, "poison") /\ waiting' = Others(w)
        /\ KeepTrust /\ UNCHANGED tombs
  /\ KeepTabPage /\ UNCHANGED <<loaded, record, poison, over>>

Poisons(w) ==
  /\ tasks[w].pc = "poison" /\ AfterTombs(w, FALSE)
  /\ (Fine /\ poison' = TRUE) \/ (StorageFails /\ UNCHANGED poison)
  /\ KeepMarks /\ KeepTabPage /\ UNCHANGED <<record, tombs, over>>

-----------------------------------------------------------------------------
(* The record: in-page-widget-lease-store.ts, one request after the other. *)
\* The tab has no surface any more, or a show may make one.
TabRevoked(w) ==
  /\ over' = over \cup tasks[w].set
  /\ tasks' = IF tasks[w].kind = "show" /\ tasks[w].s = 0
                THEN [tasks EXCEPT ![w].pc = "ensure", ![w].at = "none"]
                ELSE TaskOver(w, tasks)

Saved(w) ==
  /\ tasks[w].at = "save"
  /\ LET c == tasks[w] IN
     \/ /\ Fine /\ record' = c.s /\ UNCHANGED over
        /\ IF c.kind = "save" THEN tasks' = TaskOver(w, tasks) /\ KeepTrust
           ELSE IF ~c.ok THEN Discard(w)
           ELSE /\ live' = live \cup {c.s} /\ UNCHANGED bad
                /\ tasks' = [tasks EXCEPT ![w].pc = "load", ![w].at = "clear"]
     \/ /\ StorageFails /\ UNCHANGED <<record, over>>
        /\ \/ c.kind = "show" /\ Discard(w)
           \/ c.kind = "save" /\ tasks' = TaskOver(w, tasks) /\ KeepTrust
           \/ c.kind = "save" /\ c.s \in live /\ RevokeTab(w, c, FALSE, tasks)

Forgotten(w) ==
  /\ tasks[w].at \in {"release", "discard", "reject"} /\ KeepTrust /\ tasks' = TaskOver(w, tasks)
  /\ \/ Fine /\ record' = (IF record = tasks[w].s THEN 0 ELSE record)
        /\ over' = over \cup {tasks[w].s}
     \/ /\ StorageFails /\ UNCHANGED record
        /\ over' = IF tasks[w].at = "release" THEN over ELSE over \cup {tasks[w].s}

TabForgotten(w) ==
  /\ tasks[w].at = "revoke" /\ KeepTrust
  /\ \/ Fine /\ record' = 0 /\ TabRevoked(w)
     \/ StorageFails /\ UNCHANGED record /\ tasks[w].had /\ TabRevoked(w)
     \/ StorageFails /\ UNCHANGED <<record, over>> /\ ~tasks[w].had /\ Goes(w, "undone")
  /\ authority' = (authority /\ tasks'[w].pc # "undone")

Found(w) ==
  /\ tasks[w].at = "restore" /\ KeepTrust /\ UNCHANGED <<record, over>>
  /\ \/ Fine /\ tasks' = IF record = tasks[w].s THEN [tasks EXCEPT ![w].pc = "check"]
                         ELSE TaskOver(w, tasks)
     \/ StorageFails /\ tasks' = TaskOver(w, tasks)

StoreAnswers(w) ==
  /\ First(w, "store") /\ waiting' = Others(w)
  /\ \/ (Saved(w) \/ Forgotten(w) \/ Found(w)) /\ UNCHANGED authority
     \/ TabForgotten(w)
  /\ KeepTabPage /\ UNCHANGED <<loaded, tombs, poison>>

\* Neither marked nor taken away: nothing is to be restored any more.
PoisonsUndone(w) ==
  /\ tasks[w].pc = "undone" /\ TabRevoked(w)
  /\ (Fine /\ poison' = TRUE) \/ (StorageFails /\ UNCHANGED poison)
  /\ KeepTrust /\ KeepMarks /\ KeepTabPage /\ UNCHANGED <<record, tombs, waiting>>

WidgetWorkerDies ==
  /\ Happens /\ live' = {} /\ bad' = {} /\ loaded' = FALSE /\ authority' = TRUE
  /\ tasks' = [w \in WidgetTasks |-> NoTask] /\ waiting' = <<>>
  /\ KeepStorage /\ KeepTabPage /\ UNCHANGED over

\* What follows an await of something that is there already runs before the
\* worker turns to anything else.
AtOnce(w) == tasks[w].pc = "mark" \/ (tasks[w].pc = "load" /\ loaded)
Continues == \E w \in WidgetTasks : AtOnce(w) /\ (EndMarks(w) \/ RestoreAsks(w) \/ TombsAsk(w))
Turns ==
  \/ \E w \in WidgetTasks :
       \/ BeginShow(w) \/ ShowPage(w) \/ ShowAgain(w) \/ ShowNew(w) \/ ShowInit(w)
       \/ ShowAnswer(w) \/ EndMarks(w) \/ Committed(w) \/ RestoreChecks(w)
       \/ TombsWritten(w) \/ Poisons(w) \/ StoreAnswers(w) \/ PoisonsUndone(w)
       \/ \E s \in DOMAIN made :
            \/ BeginEnd(w, s, "release") \/ BeginEnd(w, s, "reject")
            \/ BeginSave(w, s) \/ BeginRestore(w, s)
  \/ \E s \in live : DisconnectExpires(s)
  \/ Navigates \/ RecordLapses \/ LoadTombs \/ WidgetWorkerDies

WidgetNext == IF \E w \in WidgetTasks : AtOnce(w) THEN Continues ELSE Turns

WidgetSpec == WidgetInit /\ [][WidgetNext]_widgetVars

-----------------------------------------------------------------------------
(* A surface whose release, rejection or revocation has come to its end is *)
(* never trusted again, by this worker or by a later one, whatever crossed *)
(* it: a restoration that had read the record, a lease stored anew, a show *)
(* that takes the tombstones of its tab away, a worker that ended between  *)
(* the tombstone and the record, one storage request that failed.          *)
ReleaseIsFinal == over \cap live = {}

(* Shows, restorations and navigations that cross never leave two surfaces *)
(* of one tab that may both speak for it.                                  *)
OneSurface == Cardinality(live) <= 1

(* When nothing is under way, a worker that starts again would trust the   *)
(* surface the page has now, or none: never an older one.                  *)
RestartFindsLive ==
  (\A w \in WidgetTasks : tasks[w] = NoTask) /\ ~moved =>
    \A s \in live \ bad : record \in {0, s} /\ s \notin tombs

(* Together: who may speak for a tab.                                      *)
WidgetIsSafe == ReleaseIsFinal /\ OneSurface /\ RestartFindsLive
=============================================================================
