---------------------------- MODULE DurableClear ----------------------------
(***************************************************************************)
(* Clearing a page: the background worker (background-controller.ts) wipes *)
(* the captures of the page's origins in the session store, and tells each *)
(* document that showed some of them to take its markers down and fence    *)
(* off the old ones (content.ts).  The journal of ClearJournal and the     *)
(* store's clear authority outlive the worker; a reconcile pass at every   *)
(* start and at every alarm takes up what a dead worker left.              *)
(*                                                                         *)
(* What runs under the operation's lease is split at its storage writes.   *)
(* The store is SessionStore seen from outside: one epoch per origin, and  *)
(* for each clear the origins it has committed so far.                     *)
(*                                                                         *)
(* Abstractions.  Delivery times are not kept: an open target is due, and  *)
(* a drain takes all of them (the code takes 32 and asks for another       *)
(* drain).  Finalisations are asked for at each accepted answer, and wait  *)
(* for the lease even where the code still holds it.  A handler that moves *)
(* targets to a live subject and cannot read the journal has moved none.   *)
(* The token that guards a capture is checked when the capture is stored.  *)
(* The in-page widget's own clear takes the same path as a request, from   *)
(* a single origin.                                                        *)
(***************************************************************************)
EXTENDS ClearJournal

CONSTANTS
  Requests,     \* clear requests of the user, one handler each
  None, Boot,   \* no one; the load that restores barriers after a restart
  HomeOf,       \* frame -> origin of its first document
  TopFrame,     \* the frame the user clears from
  MaxMoves,     \* bound on what the user does besides (see moves)
  MaxFaults,    \* bound on worker deaths, lost messages and storage errors
  StorageFails, \* TRUE: storage calls may reject
  Events        \* what the user does: a subset of UserEvents

UserEvents == {"capture", "clearAll", "navigate", "route", "close"}

ASSUME ConstantsOK ==
  /\ {None, Boot} \cap (Requests \cup Ops) = {} /\ None # Boot
  /\ HomeOf \in [Frames -> Origins]
  /\ TopFrame \in Frames
  /\ MaxMoves \in Nat /\ MaxFaults \in Nat
  /\ StorageFails \in BOOLEAN /\ Events \subseteq UserEvents
  /\ Documents = 0 .. MaxMoves
  /\ IsFiniteSet(Frames)

VARIABLES
  \* Durable, in chrome.storage.local and chrome.alarms (with journal).
  epoch,    \* per origin: the epoch of its session, 0 for none
  canon,    \* operation id -> canonical clear, for those in the authority
  last,     \* per origin: the last clear that completed there, or None
  saved,    \* places (frame, origin, path) that have captures
  alarm,    \* the retry alarm is set
  \* The browser.
  live,     \* per frame: the subject it shows
  closed,   \* frames that are gone
  marks,    \* per frame: epoch of the markers it shows, 0 for none
  fence,    \* per frame: the clear that fences its document
  net,      \* messages between worker and pages
  navs,     \* committed navigations the worker has not heard of
  \* Volatile, in the worker.
  req,      \* per request: its handler
  barrier,  \* per operation: the attempt that holds its clear barrier
  loaded,   \* the barriers of the journal were restored
  tasks,    \* handlers that move targets to a live subject
  sends,    \* deliveries that wait for their answer
  recon,    \* the reconcile pass
  drain,    \* the drain
  fin,      \* per operation: its finalisation
  reread,   \* an alarm decision waits for its read of the journal
  \* Bookkeeping of the model.
  made,     \* per origin: epochs allocated
  gens,     \* authority generations allocated
  moves,    \* navigations, route changes, closed frames, "clear all" so far
  faults    \* deaths, losses and errors so far

storeVars  == <<epoch, canon, last, saved, made, gens>>
pageVars   == <<live, closed, marks, fence>>
passVars   == <<recon, drain, fin, reread>>
vars == <<journal, storeVars, alarm, pageVars, net, navs, req, barrier, loaded,
          tasks, sends, passVars, moves, faults>>

NoFence   == [op |-> None, gen |-> 0, rev |-> 0, path |-> None, after |-> 0]
Ref       == [op : Ops, gen : Nat \ {0}, sub : Subject, rev : Nat \ {0}]
Entry     == [before : Nat, after : Nat \ {0},
              state : {"pending", "committed", "conflict"}]
Nothing   == [x \in {} |-> 0]
NewReq    == [pc |-> "new", op |-> None, origin |-> None, epoch |-> 0,
              fresh |-> FALSE, resumed |-> FALSE, before |-> Nothing, subs |-> {},
              after |-> Nothing, gen |-> 0, unsent |-> {}, waiting |-> {}, failed |-> FALSE,
              reply |-> "none"]
IdleRecon == [busy |-> FALSE, again |-> FALSE, todo |-> {}, held |-> None,
              att |-> None, drop |-> FALSE, drains |-> FALSE]
IdleDrain == [busy |-> FALSE, again |-> FALSE, batch |-> {}, waiting |-> {}]
NoFin     == [pc |-> "idle", att |-> None]
Running   == {"found", "prepared", "cleared", "drop", "await", "final"}

Still     == {"new", "looked", "done"}

Done(r, reply) == [NewReq EXCEPT !.pc = "done", !.op = req[r].op, !.reply = reply]
PlaceOf(s)   == <<s.frame, s.origin, s.path>>
IsLive(s)    == s.frame \notin closed /\ live[s.frame] = s
RefOf(op, s) == [op |-> op, gen |-> journal[op].gen, sub |-> s,
                 rev |-> journal[op].targets[s].rev]
InCanon(op)  == op \in DOMAIN canon
Entries(op, st) == {o \in DOMAIN canon[op].entry : canon[op].entry[o].state = st}
Settled(op)  == InCanon(op) /\ Entries(op, "pending") = {}
Committed(op) == [o \in Entries(op, "committed") |-> canon[op].entry[o].after]
Owned(op)    == (IF InCanon(op) THEN DOMAIN canon[op].entry ELSE {})
                  \cup (IF Present(op) THEN DOMAIN journal[op].before ELSE {})
Owners(o)    == {op \in Ops : o \in Owned(op)}

TypeOK ==
  /\ JournalTypeOK
  /\ epoch \in [Origins -> Nat] /\ made \in [Origins -> Nat] /\ gens \in Nat
  /\ DOMAIN canon \in SUBSET Ops
  /\ \A op \in DOMAIN canon : /\ canon[op].gen \in Nat \ {0}
                              /\ Partial(canon[op].entry, Origins, Entry)
  /\ last \in [Origins -> Ops \cup {None}]
  /\ saved \subseteq Frames \X Origins \X Paths
  /\ alarm \in BOOLEAN /\ loaded \in BOOLEAN /\ reread \in BOOLEAN
  /\ live \in [Frames -> Subject] /\ closed \subseteq Frames
  /\ marks \in [Frames -> Nat]
  /\ \A r \in Requests : /\ req[r].pc \in Running \cup {"new", "looked", "asked", "settle", "gone",
                                                           "done"}
                         /\ req[r].op \in Ops \cup {None}
                         /\ req[r].unsent \subseteq Ref
                         /\ req[r].waiting \subseteq Ref
  /\ barrier \in [Ops -> Requests \cup {None, Boot}]
  /\ sends \subseteq Ref
  /\ recon.todo \subseteq Ops /\ recon.held \in Ops \cup {None}
  /\ drain.batch \subseteq Ref /\ drain.waiting \subseteq Ref
  /\ \A op \in Ops : fin[op].pc \in {"idle", "asked", "half"}

\* What is stored and held has the shape that those who read it back demand,
\* whatever step a worker died at: the types, and the rules of the journal.
StoresReadable == TypeOK /\ JournalReadable

\* Nobody runs under the operation's lease.
LeaseFree(op) ==
  /\ \A r \in Requests : req[r].op = op => req[r].pc \notin {"prepared", "cleared", "drop"}
  /\ recon.held # op
  /\ fin[op].pc # "half"

Init ==
  /\ JournalInit
  /\ epoch = [o \in Origins |-> 1] /\ made = epoch /\ gens = 0
  /\ canon = Nothing /\ last = [o \in Origins |-> None]
  /\ \E p \in Paths : live = [f \in Frames |-> [frame |-> f, doc |-> 0,
                                              origin |-> HomeOf[f], path |-> p]]
  /\ saved = {PlaceOf(live[f]) : f \in Frames}
  /\ marks = [f \in Frames |-> 1]
  /\ fence = [f \in Frames |-> NoFence]
  /\ closed = {} /\ net = {} /\ navs = {} /\ alarm = FALSE
  /\ req = [r \in Requests |-> NewReq]
  /\ barrier = [op \in Ops |-> None]
  /\ loaded = TRUE
  /\ tasks = {} /\ sends = {}
  /\ recon = IdleRecon /\ drain = IdleDrain
  /\ fin = [op \in Ops |-> NoFin]
  /\ reread = FALSE
  /\ moves = 0 /\ faults = 0

-----------------------------------------------------------------------------
\* Pages.

State(f, e) == [kind |-> "state", sub |-> live[f], epoch |-> e]

\* A capture is stored and its marker is sent to its page: refused while a clear
\* barrier stands, which the check restores first, and by the store while the
\* origin is being cleared.  The first capture of an origin starts its epoch.
Capture(f) ==
  LET o == live[f].origin
      e == IF epoch[o] = 0 THEN made[o] + 1 ELSE epoch[o]
  IN
  /\ "capture" \in Events
  /\ f \notin closed
  /\ PlaceOf(live[f]) \notin saved
  /\ loaded /\ \A op \in Ops : barrier[op] = None
  /\ \A op \in DOMAIN canon : o \notin Entries(op, "pending")
  /\ epoch' = [epoch EXCEPT ![o] = e]
  /\ made' = [made EXCEPT ![o] = IF epoch[o] = 0 THEN e ELSE @]
  /\ saved' = saved \cup {PlaceOf(live[f])}
  /\ net' = net \cup {State(f, e)}
  /\ UNCHANGED <<journal, canon, last, gens, alarm, pageVars, navs, req, barrier, loaded,
                 tasks, sends, passVars, moves, faults>>

\* "Clear all saved captures": the sessions of all origins go at once, whatever
\* clears are under way, and the pages are sent empty states.
ClearAll ==
  /\ "clearAll" \in Events
  /\ moves < MaxMoves
  /\ moves' = moves + 1
  /\ epoch' = [o \in Origins |-> 0]
  /\ last' = [o \in Origins |-> None]
  /\ saved' = {}
  /\ net' = net \cup {State(f, 0) : f \in Frames \ closed}
  /\ UNCHANGED <<journal, canon, made, gens, alarm, pageVars, navs, req, barrier,
                 loaded, tasks, sends, passVars, faults>>

\* What a frame takes with it when it goes or changes: another document of the
\* top frame takes the embedded frames.
Embedded(f) == IF f = TopFrame THEN Frames \ {f} ELSE {}
NetWithout(F) == {m \in net : m.kind \in {"ack", "ask"} \/ m.sub.frame \notin F}
Blank(F)      == [f \in Frames |-> IF f \in F THEN 0 ELSE marks[f]]

\* The frame shows another document; its content script asks for its markers.
Navigate(f, o, p) ==
  LET s == [frame |-> f, doc |-> live[f].doc + 1, origin |-> o, path |-> p]
      gone == Embedded(f)
  IN
  /\ "navigate" \in Events
  /\ f \notin closed
  /\ moves < MaxMoves
  /\ moves' = moves + 1
  /\ live' = [live EXCEPT ![f] = s]
  /\ closed' = closed \cup gone
  /\ marks' = Blank({f} \cup gone)
  /\ fence' = [fence EXCEPT ![f] = NoFence]
  /\ navs' = navs \cup {s}
  /\ net' = NetWithout({f} \cup gone) \cup {[kind |-> "ask", sub |-> s]}
  /\ UNCHANGED <<journal, storeVars, alarm, req, barrier, loaded, tasks, sends,
                 passVars, faults>>

\* The same document takes another path; the page forgets its markers, asks for
\* those of the new path, and no answer to an earlier request counts any more.
ChangeRoute(f, p) ==
  LET s == [live[f] EXCEPT !.path = p] IN
  /\ "route" \in Events
  /\ f \notin closed
  /\ p # live[f].path
  /\ moves < MaxMoves
  /\ moves' = moves + 1
  /\ live' = [live EXCEPT ![f] = s]
  /\ marks' = Blank({f})
  /\ navs' = navs \cup {s}
  /\ net' = {m \in net : m.kind # "restore" \/ m.sub.frame # f}
              \cup {[kind |-> "ask", sub |-> s]}
  /\ UNCHANGED <<journal, storeVars, alarm, closed, fence, req, barrier, loaded,
                 tasks, sends, passVars, faults>>

\* A tab or a frame is closed: the worker is not told.
CloseFrame(f) ==
  LET gone == {f} \cup Embedded(f) IN
  /\ "close" \in Events
  /\ f \notin closed
  /\ moves < MaxMoves
  /\ moves' = moves + 1
  /\ closed' = closed \cup gone
  /\ marks' = Blank(gone)
  /\ net' = NetWithout(gone)
  /\ UNCHANGED <<journal, storeVars, alarm, live, fence, navs, req, barrier, loaded,
                 tasks, sends, passVars, faults>>

\* MUTANT of Fenced: whatever comes is shown.
Unfenced(f, m) == FALSE

\* Markers of another epoch than the one the fence lets through.
Fenced(f, m) ==
  /\ fence[f] # NoFence
  /\ fence[f].path = m.sub.path
  /\ m.epoch # fence[f].after

\* An overlay state, or the answer to a restore request, reaches its page.
ShowMarkers(m) ==
  LET f == m.sub.frame IN
  /\ m.kind \in {"state", "restore"}
  /\ net' = net \ {m}
  /\ marks' = IF ~IsLive(m.sub) THEN marks
              ELSE [marks EXCEPT ![f] = IF Fenced(f, m) THEN 0 ELSE m.epoch]
  /\ UNCHANGED <<journal, storeVars, alarm, live, closed, fence, navs, req, barrier,
                 loaded, tasks, sends, passVars, moves, faults>>

\* An older clear, or the same one under another reference, is ignored.
TombstoneCounts(f, new) ==
  fence[f] = NoFence \/ fence[f].gen < new.gen \/ fence[f] = new

\* applyClearProjectionTombstone: the markers go, the fence is put up, answers
\* to earlier restore requests no longer count, and the page acknowledges.
TakeDown(m) ==
  LET f   == m.sub.frame
      new == [op |-> m.ref.op, gen |-> m.ref.gen, rev |-> m.ref.rev,
              path |-> m.sub.path, after |-> m.after]
  IN
  /\ m.kind = "tomb"
  /\ IF IsLive(m.sub) /\ TombstoneCounts(f, new)
     THEN /\ marks' = Blank({f})
          /\ fence' = [fence EXCEPT ![f] = new]
          /\ net' = {x \in net \ {m} : x.kind # "restore" \/ x.sub.frame # f}
                      \cup {[m EXCEPT !.kind = "ack"]}
     ELSE net' = net \ {m} /\ UNCHANGED <<marks, fence>>
  /\ UNCHANGED <<journal, storeVars, alarm, live, closed, navs, req, barrier, loaded,
                 tasks, sends, passVars, moves, faults>>

-----------------------------------------------------------------------------
\* The store's canonical clear (store.clearOrigins), seen from outside.  A new one
\* is recorded with the epoch each origin is to have; it is refused when an origin
\* is another clear's or its epoch is not the one the clear was asked for.
MayBegin(op, before) ==
  /\ \A x \in DOMAIN canon : DOMAIN canon[x].entry \cap DOMAIN before = {}
  /\ \A o \in DOMAIN before : epoch[o] = before[o]

BeginClear(op, before) ==
  /\ ~InCanon(op) /\ MayBegin(op, before)
  /\ canon' = [x \in DOMAIN canon \cup {op} |->
                 IF x # op THEN canon[x]
                 ELSE [gen |-> gens + 1,
                       entry |-> [o \in DOMAIN before |->
                         [before |-> before[o], after |-> made[o] + 1, state |-> "pending"]]]]
  /\ gens' = gens + 1
  /\ made' = [o \in Origins |-> made[o] + IF o \in DOMAIN before THEN 1 ELSE 0]
  /\ UNCHANGED <<epoch, last, saved>>

\* Then its origins are cleared one by one.  One whose epoch has changed is in
\* conflict, and so is one where a clear of the same id completed before.
Clearable(op, o) == epoch[o] = canon[op].entry[o].before /\ last[o] # op

\* MUTANT of ClearOrigin: the origin counts as cleared, but its session stays.
ClearRecordOnly(op, o) ==
  /\ InCanon(op) /\ o \in Entries(op, "pending")
  /\ canon' = [canon EXCEPT ![op].entry[o].state =
                 IF Clearable(op, o) THEN "committed" ELSE "conflict"]
  /\ UNCHANGED <<epoch, last, saved, made, gens>>

ClearOrigin(op, o) ==
  /\ InCanon(op) /\ o \in Entries(op, "pending")
  /\ canon' = [canon EXCEPT ![op].entry[o].state =
                 IF Clearable(op, o) THEN "committed" ELSE "conflict"]
  /\ IF Clearable(op, o)
     THEN /\ epoch' = [epoch EXCEPT ![o] = canon[op].entry[o].after]
          /\ last' = [last EXCEPT ![o] = op]
          /\ saved' = {x \in saved : x[2] # o}
     ELSE UNCHANGED <<epoch, last, saved>>
  /\ UNCHANGED <<made, gens>>

\* A conflict ends the call, with the other origins still pending.
CutShort(op, o) == ~Clearable(op, o) /\ Entries(op, "pending") # {o}

\* store.finalizeClearOperation: only once no origin is pending.
FinalizeClear(op) ==
  /\ InCanon(op) => Settled(op)
  /\ canon' = [x \in DOMAIN canon \ {op} |-> canon[x]]

\* MUTANT of BarrierWithout: whoever put the barrier up.
BarrierOfAny(op, attempt) == [barrier EXCEPT ![op] = None]

\* removeClearActionBarrier: of that attempt only.
BarrierWithout(op, attempt) ==
  IF attempt # None /\ barrier[op] = attempt
  THEN [barrier EXCEPT ![op] = None] ELSE barrier

\* Restored once per worker, when a barrier is first checked or given up.
LoadBarriers ==
  /\ ~loaded
  /\ loaded' = TRUE
  /\ barrier' = [op \in Ops |-> IF Present(op) /\ barrier[op] = None THEN Boot
                                ELSE barrier[op]]
  /\ UNCHANGED <<journal, storeVars, alarm, pageVars, net, navs, req, tasks, sends,
                 passVars, moves, faults>>

-----------------------------------------------------------------------------
\* A clear request of the user.

Top == live[TopFrame]

\* scheduleConservativeClearProjectionRetry: at once, and in place of a decision
\* that still waits for its read of the journal.
Arm == alarm' = TRUE /\ reread' = FALSE

\* The handler answers; a durable failure arms the retry alarm.
Fail(r, durable) ==
  /\ req' = [req EXCEPT ![r].pc = "settle", ![r].reply = "failed"]
  /\ IF durable THEN Arm ELSE UNCHANGED <<alarm, reread>>

\* The user's view of the page: the clear that is pending there, or a new id.
Look(r, op) ==
  LET o == Top.origin IN
  /\ req[r].pc = "new"
  /\ TopFrame \notin closed
  /\ \/ op \in Owners(o)
     \/ /\ Owners(o) = {} /\ ~Present(op)
        /\ \A q \in Requests : req[q].op # op
  /\ req' = [req EXCEPT ![r] = [req[r] EXCEPT !.pc = "looked", !.op = op, !.origin = o,
                                              !.epoch = epoch[o]]]
  /\ UNCHANGED <<journal, storeVars, alarm, pageVars, net, navs, barrier, loaded,
                 tasks, sends, passVars, moves, faults>>

\* The user clears; the barrier goes up before any check.
Ask(r) ==
  /\ req[r].pc = "looked"
  /\ req' = [req EXCEPT ![r].pc = "asked"]
  /\ barrier' = [barrier EXCEPT ![req[r].op] = r]
  /\ UNCHANGED <<journal, storeVars, alarm, pageVars, net, navs, loaded, tasks, sends,
                 passVars, moves, faults>>

\* resumeExistingDurableClearProjection: a clear that owns the origin is taken up
\* by its own id alone, from its own page, and for the epoch it was asked for.
MayResume(r) ==
  LET op == req[r].op IN
  /\ Owners(req[r].origin) = {op}
  /\ Present(op)
  /\ TopFrame \notin closed /\ journal[op].endpoint = Top
  /\ req[r].origin \in DOMAIN journal[op].before
  /\ journal[op].before[req[r].origin] = req[r].epoch
  /\ (~InCanon(op) /\ ~Bound(op)) =>
       \A o \in DOMAIN journal[op].before : epoch[o] = journal[op].before[o]

OpenRefs(op) == {RefOf(op, s) : s \in OpenSubjects(op)}

Resume(r) ==
  LET op == req[r].op IN
  /\ req[r].pc = "asked"
  /\ LeaseFree(op)
  /\ MayResume(r)
  /\ req' = [req EXCEPT ![r] =
       IF Bound(op)
       THEN [@ EXCEPT !.pc = "await", !.resumed = TRUE, !.gen = journal[op].gen,
                      !.after = journal[op].after, !.subs = DOMAIN journal[op].targets,
                      !.unsent = OpenRefs(op), !.waiting = OpenRefs(op)]
       ELSE [@ EXCEPT !.resumed = TRUE, !.before = journal[op].before,
                      !.pc = IF Settled(op) THEN "cleared" ELSE "prepared"]]
  /\ UNCHANGED <<journal, storeVars, alarm, pageVars, net, navs, barrier, loaded,
                 tasks, sends, passVars, moves, faults>>

Refuse(r) ==
  /\ req[r].pc = "asked"
  /\ LeaseFree(req[r].op)
  /\ Owners(req[r].origin) # {}
  /\ ~MayResume(r)
  /\ Fail(r, FALSE)
  /\ UNCHANGED <<journal, storeVars, pageVars, net, navs, barrier, loaded,
                 tasks, sends, recon, drain, fin, moves, faults>>

\* clearActivePageSessions: the live frames that show captures of theirs, and the
\* epochs of their origins and of the page's own.
Discover(r) ==
  LET shown == {live[f] : f \in {g \in Frames \ closed : PlaceOf(live[g]) \in saved}}
      os    == {req[r].origin} \cup {s.origin : s \in shown}
  IN
  /\ req[r].pc = "asked"
  /\ LeaseFree(req[r].op)
  /\ Owners(req[r].origin) = {}
  /\ IF \E f \in Frames \ closed : live[f].origin = req[r].origin
     THEN /\ req' = [req EXCEPT ![r] =
               [@ EXCEPT !.pc = "found", !.fresh = TRUE, !.subs = shown,
                         !.before = [o \in os |-> IF o = req[r].origin
                                                  THEN req[r].epoch ELSE epoch[o]]]]
          /\ UNCHANGED <<alarm, reread>>
     ELSE Fail(r, FALSE)
  /\ UNCHANGED <<journal, storeVars, pageVars, net, navs, barrier, loaded,
                 tasks, sends, recon, drain, fin, moves, faults>>

\* executeDurableClearProjection: the clear is written to the journal before
\* anything is cleared, unless the page moved on since the discovery.
StartClear(r) ==
  LET op == req[r].op
      sound == req[r].fresh /\ TopFrame \notin closed /\ Top.origin = req[r].origin
  IN
  /\ req[r].pc = "found"
  /\ LeaseFree(op)
  /\ \/ /\ sound
        /\ Prepare(op, Top, req[r].before, req[r].subs)
        /\ req' = [req EXCEPT ![r].pc = "prepared"]
        /\ UNCHANGED <<alarm, reread>>
     \/ /\ \/ ~sound
           \/ Present(op)
           \/ Cardinality(DOMAIN journal) >= MaxActive
           \/ \E x \in DOMAIN journal :
                DOMAIN journal[x].before \cap DOMAIN req[r].before # {}
        /\ \E durable \in {FALSE, ~req[r].fresh} : Fail(r, durable)
        /\ UNCHANGED journal
  /\ UNCHANGED <<storeVars, pageVars, net, navs, barrier, loaded, tasks, sends,
                 recon, drain, fin, moves, faults>>

\* failAfterPreparedClearContextChanged: the page moved on before the clear; the
\* unbound operation is withdrawn, unless the page moves on once more meanwhile.
Withdraw(r) ==
  LET op == req[r].op IN
  /\ req[r].pc = "prepared"
  /\ ~req[r].resumed /\ ~req[r].fresh
  /\ ~InCanon(op)
  /\ \/ RemoveOperation(op, Unbound)
     \/ navs # {} /\ UNCHANGED journal
  /\ Fail(r, TRUE)
  /\ UNCHANGED <<storeVars, pageVars, net, navs, barrier, loaded, tasks, sends,
                 recon, drain, fin, moves, faults>>

ClearSessions(r) ==
  LET op == req[r].op IN
  /\ req[r].pc = "prepared"
  /\ req[r].resumed \/ req[r].fresh \/ InCanon(op)
  /\ \/ /\ BeginClear(op, req[r].before)
        /\ UNCHANGED <<req, alarm, reread>>
     \/ /\ ~InCanon(op) /\ ~MayBegin(op, req[r].before)
        /\ Fail(r, TRUE)
        /\ UNCHANGED storeVars
     \/ \E o \in Origins :
          /\ ClearOrigin(op, o)
          /\ IF CutShort(op, o) THEN Fail(r, TRUE)
             ELSE /\ req' = [req EXCEPT ![r].pc = IF Entries(op, "pending") = {o}
                                                 THEN "cleared" ELSE @]
                  /\ UNCHANGED <<alarm, reread>>
  /\ UNCHANGED <<journal, pageVars, net, navs, barrier, loaded, tasks, sends,
                 recon, drain, fin, moves, faults>>

\* The clear's authority is bound; the targets of origins that were cleared are
\* delivered.  After that the lease is given back.
Bind(r) ==
  LET op == req[r].op IN
  /\ req[r].pc = "cleared"
  /\ DOMAIN Committed(op) # {}
  /\ CommitOrigins(op, canon[op].gen, Committed(op))
  /\ LET refs == {[op |-> op, gen |-> canon[op].gen, sub |-> s,
                   rev |-> journal[op].targets[s].rev] :
                    s \in {x \in OpenSubjects(op) : x.origin \in DOMAIN Committed(op)}}
     IN req' = [req EXCEPT ![r] = [req[r] EXCEPT !.pc = "await", !.gen = canon[op].gen,
                                                 !.after = Committed(op),
                                                 !.subs = DOMAIN journal'[op].targets,
                                                 !.unsent = refs, !.waiting = refs]]
  /\ UNCHANGED <<storeVars, alarm, pageVars, net, navs, barrier, loaded, tasks, sends,
                 passVars, moves, faults>>

\* Every origin was in conflict: the clear is given up in both stores.
GiveUp(r) ==
  LET op == req[r].op IN
  /\ \/ /\ req[r].pc = "cleared"
        /\ DOMAIN Committed(op) = {}
        /\ FinalizeClear(op)
        /\ req' = [req EXCEPT ![r].pc = "drop"]
        /\ UNCHANGED <<journal, alarm, reread>>
     \/ /\ req[r].pc = "drop"
        /\ RemoveOperation(op, Unbound)
        /\ Fail(r, FALSE)
        /\ UNCHANGED canon
  /\ UNCHANGED <<epoch, last, saved, made, gens, pageVars, net, navs, barrier, loaded,
                 tasks, sends, recon, drain, fin, moves, faults>>

\* All deliveries were answered: the clear is finalised, or has failed for now.
Delivered(r) ==
  /\ req[r].pc = "await"
  /\ req[r].waiting = {}
  /\ IF req[r].failed
     THEN Fail(r, TRUE) /\ UNCHANGED fin
     ELSE /\ req' = [req EXCEPT ![r].pc = "final"]
          /\ fin' = [fin EXCEPT ![req[r].op] = IF @.pc = "idle"
                                               THEN [pc |-> "asked", att |-> None] ELSE @]
          /\ UNCHANGED <<alarm, reread>>
  /\ UNCHANGED <<journal, storeVars, pageVars, net, navs, barrier, loaded,
                 tasks, sends, recon, drain, moves, faults>>

\* Success, if the operation is gone from both stores; a new clear of which some
\* origins were in conflict is stale, a resumed one reads its origin once more.
Reply(r) ==
  LET op == req[r].op
      gone == ~InCanon(op) /\ (Present(op) => journal[op].gen # req[r].gen)
      ok   == gone /\ IF req[r].resumed THEN Owners(req[r].origin) = {}
                      ELSE DOMAIN req[r].before = DOMAIN req[r].after
  IN
  /\ req[r].pc = "final"
  /\ fin[op].pc = "idle"
  /\ IF ok THEN /\ req' = [req EXCEPT ![r].pc = "settle", ![r].reply = "ok"]
                /\ UNCHANGED <<alarm, reread>>
     ELSE Fail(r, ~gone \/ req[r].resumed)
  /\ UNCHANGED <<journal, storeVars, pageVars, net, navs, barrier, loaded,
                 tasks, sends, recon, drain, fin, moves, faults>>

\* settleClearActionBarrier: the attempt's barrier goes with the operation, which
\* the journal was read for before.
Settle(r) ==
  LET op == req[r].op IN
  /\ \/ /\ req[r].pc = "settle" /\ Present(op)
        /\ req' = [req EXCEPT ![r] = Done(r, req[r].reply)]
        /\ UNCHANGED barrier
     \/ /\ req[r].pc = "settle" /\ ~Present(op)
        /\ req' = [req EXCEPT ![r].pc = "gone"]
        /\ UNCHANGED barrier
     \/ /\ req[r].pc = "gone"
        /\ req' = [req EXCEPT ![r] = Done(r, req[r].reply)]
        /\ barrier' = BarrierWithout(op, r)
  /\ UNCHANGED <<journal, storeVars, alarm, pageVars, net, navs, loaded, tasks, sends,
                 passVars, moves, faults>>

\* The storage fails the barrier: before the checks the stop of the selection, which
\* the request follows by giving its barrier up; at the end the read of the journal.
BarrierError(r) ==
  /\ StorageFails /\ faults < MaxFaults
  /\ faults' = faults + 1
  /\ \/ /\ req[r].pc = "asked"
        /\ req' = [req EXCEPT ![r] = Done(r, "failed")]
        /\ barrier' = BarrierWithout(req[r].op, r)
     \/ /\ req[r].pc = "settle"
        /\ req' = [req EXCEPT ![r] = Done(r, req[r].reply)]
        /\ UNCHANGED barrier
  /\ UNCHANGED <<journal, storeVars, alarm, pageVars, net, navs, loaded, tasks, sends,
                 passVars, moves>>

\* A storage call of the handler rejects; before the deliveries that is the removal
\* of the origins' diagnostics.  A new request that cannot record a cleared origin
\* asks the store once more at once, and so runs on.
RequestError(r) ==
  /\ StorageFails /\ faults < MaxFaults
  /\ faults' = faults + 1
  /\ \/ req[r].pc \in {"asked", "found", "prepared", "cleared", "drop", "final"}
     \/ req[r].pc = "await" /\ req[r].unsent = req[r].waiting
  /\ req' = [req EXCEPT ![r] = [req[r] EXCEPT !.pc = "settle", !.reply = "failed",
                                              !.unsent = {}, !.waiting = {}]]
  /\ IF req[r].pc \in {"asked", "found"} THEN UNCHANGED <<alarm, reread>> ELSE Arm
  /\ UNCHANGED <<journal, storeVars, pageVars, net, navs, barrier, loaded, tasks, sends,
                 recon, drain, fin, moves>>

-----------------------------------------------------------------------------
\* Delivery of the targets, by the requests and by the drain.

\* The answer to a delivery, for all who wait for it; an accepted one lets the
\* drain finalise its operation.
Answered(ref, ok) ==
  /\ sends' = sends \ {ref}
  /\ req' = [r \in Requests |->
               IF ref \notin req[r].waiting THEN req[r]
               ELSE [req[r] EXCEPT !.waiting = @ \ {ref}, !.unsent = @ \ {ref},
                                   !.failed = @ \/ ~ok]]
  /\ drain' = [drain EXCEPT !.waiting = @ \ {ref}, !.batch = @ \ {ref}]

AskFin(ops) ==
  fin' = [op \in Ops |-> IF op \in ops /\ fin[op].pc = "idle"
                         THEN [pc |-> "asked", att |-> None] ELSE fin[op]]

Due == drain.batch \cup UNION {req[r].unsent : r \in Requests}

\* deliverClearProjectionTarget: one delivery at a time per target; it is marked
\* in the journal, then told to the page if that still shows the subject.
Deliver(ref) ==
  LET taken == /\ req' = [r \in Requests |-> [req[r] EXCEPT !.unsent = @ \ {ref}]]
               /\ drain' = [drain EXCEPT !.batch = @ \ {ref}]
  IN
  /\ ref \in Due
  /\ \/ /\ ref \in sends
        /\ taken
        /\ UNCHANGED <<journal, sends, net>>
     \/ /\ ref \notin sends /\ LeaseFree(ref.op)
        /\ MarkDelivered(ref.op, ref.gen, ref.sub, ref.rev)
        /\ IF IsLive(ref.sub)
           THEN /\ taken
                /\ sends' = sends \cup {ref}
                /\ net' = net \cup {[kind |-> "tomb", sub |-> ref.sub, ref |-> ref,
                                     after |-> journal[ref.op].after[ref.sub.origin]]}
           ELSE Answered(ref, FALSE) /\ UNCHANGED net
     \/ /\ ref \notin sends /\ LeaseFree(ref.op)
        /\ Exact(ref.op, ref.gen, ref.sub, ref.rev) =>
             ~IsOpen(journal[ref.op].targets[ref.sub])
        /\ Answered(ref, FALSE)
        /\ UNCHANGED <<journal, net>>
  /\ UNCHANGED <<storeVars, alarm, pageVars, navs, barrier, loaded, tasks, recon, fin,
                 reread, moves, faults>>

\* CLEAR_PROJECTION_ACK_TIMEOUT_MS without an answer.
Timeout(ref) ==
  /\ ref \in sends
  /\ Answered(ref, FALSE)
  /\ UNCHANGED <<journal, storeVars, alarm, pageVars, net, navs, barrier, loaded,
                 tasks, recon, fin, reread, moves, faults>>

\* The acknowledgement counts: its authority, clear and target are the ones in
\* the journal and in the store.  (validateClearProjectionAuthority)
Valid(m) ==
  LET op == m.ref.op IN
  /\ Exact(op, m.ref.gen, m.sub, m.ref.rev)
  /\ journal[op].targets[m.sub].state # "superseded"
  /\ m.sub.origin \in DOMAIN journal[op].after
  /\ journal[op].after[m.sub.origin] = m.after
  /\ InCanon(op) /\ canon[op].gen = m.ref.gen
  /\ canon[op].entry[m.sub.origin].state = "committed"

\* acknowledgeClearProjection.  The sender is checked to show the subject still
\* before the journal is written, so a page that has moved on since its message
\* may be believed or not.
Acknowledged(m) ==
  LET op == m.ref.op IN
  /\ m.kind = "ack"
  /\ LeaseFree(op)
  /\ Valid(m)
  /\ \/ Acknowledge(op, m.ref.gen, m.sub, m.ref.rev)
     \/ journal[op].targets[m.sub].state = "acknowledged" /\ UNCHANGED journal
  /\ Answered(m.ref, TRUE)
  /\ fin' = [fin EXCEPT ![op] = IF m.ref \in drain.waiting /\ @.pc = "idle"
                                THEN [pc |-> "asked", att |-> None] ELSE @]
  /\ recon' = [recon EXCEPT !.again = TRUE]
  /\ net' = net \ {m}
  /\ UNCHANGED <<storeVars, alarm, pageVars, navs, barrier, loaded, tasks, reread,
                 moves, faults>>

Disbelieved(m) ==
  /\ m.kind = "ack"
  /\ LeaseFree(m.ref.op)
  /\ \/ ~IsLive(m.sub) /\ UNCHANGED <<sends, req, drain>>
     \/ ~Valid(m) /\ Answered(m.ref, FALSE)
  /\ net' = net \ {m}
  /\ UNCHANGED <<journal, storeVars, alarm, pageVars, navs, barrier, loaded, tasks,
                 recon, fin, reread, moves, faults>>

-----------------------------------------------------------------------------
\* Navigations and new content scripts: open targets of the frame are handed to
\* the subject it shows now.  (replaceClearProjectionTargetsForLiveSubject)

Task(kind, s) == [kind |-> kind, sub |-> s, todo |-> DOMAIN journal]

\* handleNavigationCommitted also makes every discovery and fence stale.
HandleNavigation(s) ==
  /\ s \in navs
  /\ navs' = navs \ {s}
  /\ tasks' = tasks \cup {Task("navigation", s)}
  /\ req' = [r \in Requests |-> [req[r] EXCEPT !.fresh = FALSE]]
  /\ UNCHANGED <<journal, storeVars, alarm, pageVars, net, barrier, loaded, sends,
                 passVars, moves, faults>>

HandleRestore(m) ==
  /\ m.kind = "ask"
  /\ net' = net \ {m}
  /\ tasks' = tasks \cup {Task("restore", m.sub)}
  /\ UNCHANGED <<journal, storeVars, alarm, pageVars, navs, req, barrier, loaded, sends,
                 passVars, moves, faults>>

\* The open target of the frame that is not on its present subject.
Strays(op, s) == {x \in OpenSubjects(op) : x.frame = s.frame /\ x # s}

TaskStep(t, op) ==
  LET next == (tasks \ {t}) \cup {[t EXCEPT !.todo = @ \ {op}]}
  IN
  /\ t \in tasks /\ op \in t.todo
  /\ LeaseFree(op)
  /\ \/ /\ ~Bound(op)
        /\ tasks' = next
        /\ UNCHANGED <<journal, req, sends, drain, fin>>
     \/ /\ Bound(op)
        /\ \A x \in Strays(op, t.sub) :
             x.origin = t.sub.origin /\ t.sub \in DOMAIN journal[op].targets
        /\ tasks' = next
        /\ AskFin({op})
        /\ UNCHANGED <<journal, req, sends, drain>>
     \/ /\ Bound(op)
        /\ \E x \in Strays(op, t.sub) :
             LET ref == RefOf(op, x) IN
             /\ \/ /\ x.origin = t.sub.origin
                   /\ ReplaceTarget(op, ref.gen, x, ref.rev, t.sub)
                \/ /\ x.origin # t.sub.origin
                   /\ Supersede(op, ref.gen, x, ref.rev)
             /\ sends' = sends \ {ref}
             /\ req' = [r \in Requests |->
                          IF ref \notin req[r].waiting THEN req[r]
                          ELSE [req[r] EXCEPT !.waiting = @ \ {ref}, !.failed = TRUE,
                                              !.unsent = @ \ {ref}]]
             /\ drain' = [drain EXCEPT !.waiting = @ \ {ref}, !.batch = @ \ {ref},
                                       !.again = TRUE]
        /\ UNCHANGED <<tasks, fin>>
  /\ UNCHANGED <<storeVars, alarm, pageVars, net, navs, barrier, loaded, recon, reread,
                 moves, faults>>

\* A restore request is answered with what the store has for the page.
TaskEnd(t) ==
  LET asks == t.kind = "restore" IN
  /\ t \in tasks /\ t.todo = {}
  /\ tasks' = tasks \ {t}
  /\ drain' = IF asks THEN [drain EXCEPT !.again = TRUE] ELSE drain
  /\ net' = IF asks /\ IsLive(t.sub) /\ PlaceOf(t.sub) \in saved
            THEN net \cup {[kind |-> "restore", sub |-> t.sub,
                            epoch |-> epoch[t.sub.origin]]}
            ELSE net
  /\ UNCHANGED <<journal, storeVars, alarm, pageVars, navs, req, barrier, loaded, sends,
                 recon, fin, reread, moves, faults>>

-----------------------------------------------------------------------------
\* finalizeClearProjectionOperation: once every target is done with, the clear
\* leaves the store, then the journal, and its barrier falls.
Finalize(op) ==
  /\ fin[op].pc = "asked"
  /\ LeaseFree(op)
  /\ loaded
  /\ IF Bound(op) /\ AllTerminal(op)
     THEN /\ FinalizeClear(op)
          /\ fin' = [fin EXCEPT ![op] = [pc |-> "half", att |-> barrier[op]]]
     ELSE fin' = [fin EXCEPT ![op] = NoFin] /\ UNCHANGED canon
  /\ UNCHANGED <<journal, epoch, last, saved, made, gens, alarm, pageVars, net, navs, req,
                 barrier, loaded, tasks, sends, recon, drain, reread, moves, faults>>

Forget(op) ==
  /\ fin[op].pc = "half"
  /\ RemoveOperation(op, journal[op].gen)
  /\ barrier' = BarrierWithout(op, fin[op].att)
  /\ fin' = [fin EXCEPT ![op] = NoFin]
  /\ reread' = TRUE
  /\ UNCHANGED <<storeVars, alarm, pageVars, net, navs, req, loaded, tasks, sends, recon,
                 drain, moves, faults>>

-----------------------------------------------------------------------------
\* reconcileClearProjectionJournal: at every start of the worker, at every alarm
\* and after every acknowledgement, each operation that no request is clearing is
\* taken up where it was left.  The drain comes after.

Clearing(op) == \E r \in Requests : req[r].op = op /\ ~req[r].resumed /\ req[r].pc \in Running

\* What the pass leaves alone, and what else only it changes.
Rest == <<pageVars, net, navs, req, loaded, tasks, sends, moves, faults>>
Release == recon' = [recon EXCEPT !.held = None, !.att = None, !.drop = FALSE]

ReconStart ==
  /\ recon.again /\ ~recon.busy
  /\ recon' = [recon EXCEPT !.again = FALSE, !.busy = TRUE, !.todo = DOMAIN journal]
  /\ UNCHANGED <<journal, storeVars, barrier, drain, fin, alarm, reread, Rest>>

\* Under the lease; the barrier to take down is the one that stands now.
ReconTake(op) ==
  /\ op \in recon.todo /\ recon.held = None
  /\ Clearing(op) \/ LeaseFree(op)
  /\ recon' = [recon EXCEPT !.todo = @ \ {op},
                 !.held = IF Clearing(op) \/ ~Present(op) THEN None ELSE op,
                 !.att = IF Clearing(op) \/ ~Present(op) THEN None ELSE barrier[op]]
  /\ UNCHANGED <<journal, storeVars, barrier, drain, fin, alarm, reread, Rest>>

\* exactClearProjectionEndpointWasReplaced: a closed page answers nothing.
Replaced(s) == s.frame \notin closed /\ live[s.frame] # s

\* The operation leaves the journal: it was never cleared and its page has gone
\* on, or the store forgot it, all of its origins in conflict or all work done.
ReconRemove ==
  LET op == recon.held IN
  /\ op # None
  /\ ~InCanon(op)
  /\ \/ ~Bound(op) /\ (recon.drop \/ Replaced(journal[op].endpoint))
     \/ Bound(op) /\ AllTerminal(op)
  /\ RemoveOperation(op, journal[op].gen)
  /\ barrier' = BarrierWithout(op, recon.att)
  /\ Release
  /\ UNCHANGED <<storeVars, drain, fin, alarm, reread, Rest>>

\* Nothing can be done: the user has to ask again from the page, or the clear of
\* a bound operation is gone before its work was done.
ReconLeave ==
  LET op == recon.held IN
  /\ op # None
  /\ ~InCanon(op)
  /\ \/ ~Bound(op) /\ ~recon.drop /\ ~Replaced(journal[op].endpoint) /\ UNCHANGED <<alarm, reread>>
     \/ Bound(op) /\ ~AllTerminal(op) /\ Arm
  /\ Release
  /\ UNCHANGED <<journal, storeVars, barrier, drain, fin, Rest>>

\* Origins that are still pending in the store are cleared.
ReconClear ==
  LET op == recon.held IN
  /\ op # None
  /\ \E o \in Origins :
       /\ ClearOrigin(op, o)
       /\ IF CutShort(op, o) THEN Release ELSE UNCHANGED recon
  /\ UNCHANGED <<journal, barrier, drain, fin, alarm, reread, Rest>>

\* All origins in conflict: the clear leaves the store, the operation is next.
ReconGiveUp ==
  LET op == recon.held IN
  /\ op # None
  /\ Settled(op) /\ Committed(op) = Nothing
  /\ FinalizeClear(op)
  /\ recon' = [recon EXCEPT !.drop = TRUE]
  /\ UNCHANGED <<journal, epoch, last, saved, made, gens, barrier, drain, fin, alarm, reread, Rest>>

ReconBind ==
  LET op == recon.held IN
  /\ op # None
  /\ Settled(op) /\ ~Bound(op)
  /\ CommitOrigins(op, canon[op].gen, Committed(op))
  /\ UNCHANGED <<storeVars, barrier, recon, drain, fin, alarm, reread, Rest>>

ReconFinalize ==
  LET op == recon.held IN
  /\ op # None
  /\ Settled(op) /\ Bound(op)
  /\ AskFin({op})
  /\ Release
  /\ UNCHANGED <<journal, storeVars, barrier, drain, alarm, reread, Rest>>

\* It waits for the drain before another pass may begin.
ReconDrain ==
  /\ recon.busy /\ recon.todo = {} /\ recon.held = None /\ ~recon.drains
  /\ recon' = [recon EXCEPT !.drains = TRUE]
  /\ drain' = [drain EXCEPT !.again = TRUE]
  /\ UNCHANGED <<journal, storeVars, barrier, fin, alarm, reread, Rest>>

ReconEnd ==
  /\ recon.drains /\ ~drain.again /\ ~drain.busy
  /\ recon' = [recon EXCEPT !.busy = FALSE, !.drains = FALSE]
  /\ UNCHANGED <<journal, storeVars, barrier, drain, fin, alarm, reread, Rest>>

\* requestClearProjectionDrain: one drain at a time, of all that is open.
DrainStart ==
  LET open == UNION {OpenRefs(op) : op \in {x \in DOMAIN journal : Bound(x)}} IN
  /\ drain.again /\ ~drain.busy
  /\ drain' = [busy |-> TRUE, again |-> FALSE, batch |-> open, waiting |-> open]
  /\ UNCHANGED <<journal, storeVars, barrier, recon, fin, alarm, reread, Rest>>

DrainEnd ==
  /\ drain.busy /\ drain.waiting = {}
  /\ drain' = [drain EXCEPT !.busy = FALSE]
  /\ reread' = TRUE
  /\ UNCHANGED <<journal, storeVars, barrier, recon, fin, alarm, Rest>>

\* MUTANT of Reschedule: only open targets need the alarm.
RescheduleForOpen ==
  /\ reread
  /\ alarm' = (\E op \in DOMAIN journal : OpenSubjects(op) # {})
  /\ reread' = FALSE
  /\ UNCHANGED <<journal, storeVars, barrier, recon, drain, fin, Rest>>

\* rescheduleClearProjectionAlarm: an alarm as long as the journal has operations.
Reschedule ==
  /\ reread
  /\ alarm' = (DOMAIN journal # {})
  /\ reread' = FALSE
  /\ UNCHANGED <<journal, storeVars, barrier, recon, drain, fin, Rest>>

\* MUTANT of AlarmFires: it delivers what is open and takes nothing else up.
AlarmDrains ==
  /\ alarm
  /\ alarm' = FALSE
  /\ drain' = [drain EXCEPT !.again = TRUE]
  /\ UNCHANGED <<journal, storeVars, pageVars, net, navs, req, barrier, loaded, tasks,
                 sends, recon, fin, reread, moves, faults>>

AlarmFires ==
  /\ alarm
  /\ alarm' = FALSE
  /\ recon' = [recon EXCEPT !.again = TRUE]
  /\ UNCHANGED <<journal, storeVars, pageVars, net, navs, req, barrier, loaded, tasks,
                 sends, drain, fin, reread, moves, faults>>

-----------------------------------------------------------------------------
\* Faults.

\* A storage call of a delivery, of the pass, of the drain, of a finalisation, or
\* of an alarm decision rejects.
PassError ==
  /\ StorageFails /\ faults < MaxFaults
  /\ faults' = faults + 1
  /\ \/ /\ \E ref \in Due : ref \notin sends /\ LeaseFree(ref.op) /\ Answered(ref, FALSE)
        /\ UNCHANGED <<recon, fin, alarm, reread>>
     \/ /\ recon.held # None /\ Release /\ Arm
        /\ UNCHANGED <<sends, req, drain, fin>>
     \/ /\ recon.again /\ ~recon.busy
        /\ recon' = [recon EXCEPT !.again = FALSE] /\ Arm
        /\ UNCHANGED <<sends, req, drain, fin>>
     \/ /\ drain.again /\ ~drain.busy
        /\ drain' = [drain EXCEPT !.again = FALSE] /\ Arm
        /\ UNCHANGED <<sends, req, recon, fin>>
     \/ /\ \E op \in Ops : fin[op].pc # "idle" /\ fin' = [fin EXCEPT ![op] = NoFin]
        /\ UNCHANGED <<sends, req, recon, drain, alarm, reread>>
     \/ /\ reread /\ Arm
        /\ UNCHANGED <<sends, req, recon, drain, fin>>
  /\ UNCHANGED <<journal, storeVars, pageVars, net, navs, barrier, loaded, tasks, moves>>

LoseMessage(m) ==
  /\ faults < MaxFaults
  /\ faults' = faults + 1
  /\ net' = net \ {m}
  /\ UNCHANGED <<journal, storeVars, alarm, pageVars, navs, req, barrier, loaded, tasks,
                 sends, passVars, moves>>

\* The worker dies and is started again by the next event of the browser; its
\* start begins a reconcile pass.
WorkerDies ==
  /\ faults < MaxFaults
  /\ faults' = faults + 1
  /\ req' = [r \in Requests |-> IF req[r].pc \in Still THEN req[r]
                                ELSE Done(r, "failed")]
  /\ barrier' = [op \in Ops |-> None]
  /\ loaded' = FALSE
  /\ tasks' = {} /\ sends' = {}
  /\ recon' = [IdleRecon EXCEPT !.again = TRUE] /\ drain' = IdleDrain
  /\ fin' = [op \in Ops |-> NoFin]
  /\ reread' = FALSE
  /\ UNCHANGED <<journal, storeVars, alarm, pageVars, net, navs, moves>>

-----------------------------------------------------------------------------
PageNext ==
  \/ \E f \in Frames : \/ Capture(f)
                       \/ CloseFrame(f)
                       \/ \E p \in Paths : \/ ChangeRoute(f, p)
                                           \/ \E o \in Origins : Navigate(f, o, p)
  \/ ClearAll
  \/ \E m \in net : ShowMarkers(m) \/ TakeDown(m)

RequestStep(r) ==
  \/ Resume(r) \/ Refuse(r) \/ Discover(r) \/ StartClear(r) \/ Withdraw(r)
  \/ ClearSessions(r) \/ Bind(r) \/ GiveUp(r) \/ Delivered(r) \/ Reply(r) \/ Settle(r)

DeliveryNext ==
  \/ \E ref \in Due : Deliver(ref)
  \/ \E ref \in sends : Timeout(ref)
  \/ \E m \in net : Acknowledged(m) \/ Disbelieved(m)

TaskNext ==
  \/ \E s \in navs : HandleNavigation(s)
  \/ \E m \in net : HandleRestore(m)
  \/ \E t \in tasks : TaskEnd(t) \/ \E op \in t.todo : TaskStep(t, op)

ReconStep ==
  \/ ReconStart \/ ReconRemove \/ ReconLeave \/ ReconClear \/ ReconGiveUp
  \/ ReconBind \/ ReconFinalize \/ ReconDrain \/ ReconEnd
  \/ \E op \in recon.todo : ReconTake(op)

PassNext == ReconStep \/ DrainStart \/ DrainEnd \/ Reschedule \/ AlarmFires \/ LoadBarriers
              \/ \E op \in Ops : Finalize(op) \/ Forget(op)

FaultNext ==
  \/ PassError
  \/ WorkerDies
  \/ \E m \in net : LoseMessage(m)
  \/ \E r \in Requests : RequestError(r) \/ BarrierError(r)

Next ==
  \/ PageNext
  \/ \E r \in Requests : RequestStep(r) \/ Ask(r) \/ \E op \in Ops : Look(r, op)
  \/ DeliveryNext \/ TaskNext \/ PassNext \/ FaultNext

Spec == Init /\ [][Next]_vars

\* Handlers and the pass run on, messages arrive, a handler that waits for a lease
\* gets it (they queue), and the alarm goes off.  No fairness for the user and the
\* pages' own moves, nor for faults.
Fairness ==
  /\ \A r \in Requests : WF_vars(RequestStep(r)) /\ WF_vars(Ask(r))
  /\ \A f \in Frames : WF_vars(\E m \in net : m.sub.frame = f /\ TakeDown(m))
  /\ \A f \in Frames : SF_vars(\E m \in net : m.sub.frame = f /\ (Acknowledged(m) \/ Disbelieved(m)))
  /\ WF_vars(\E ref \in Due : Deliver(ref))
  /\ WF_vars(\E ref \in sends : Timeout(ref))
  /\ WF_vars(TaskNext)
  /\ WF_vars(ReconStep)
  /\ WF_vars(DrainStart \/ DrainEnd)
  /\ WF_vars(Reschedule) /\ WF_vars(AlarmFires) /\ WF_vars(LoadBarriers)
  /\ \A op \in Ops : SF_vars(Finalize(op)) /\ WF_vars(Forget(op))

FairSpec == Spec /\ Fairness

-----------------------------------------------------------------------------
\* Correctness.

\* The two stores never contradict each other, so the snapshot that every clear,
\* readback and saved list needs can always be combined: what they both have of an
\* operation agrees, no origin is owned twice, no authority is used twice.
\* (combineAuthoritativeClearSnapshot)
SnapshotConsistent ==
  /\ \A op \in DOMAIN canon \cap DOMAIN journal :
       /\ DOMAIN canon[op].entry = DOMAIN journal[op].before
       /\ Bound(op) => /\ journal[op].gen = canon[op].gen
                       /\ Settled(op)
                       /\ journal[op].after = Committed(op)
  /\ \A x, y \in Ops : x # y => Owned(x) \cap Owned(y) = {}
  /\ \A x \in DOMAIN canon, y \in DOMAIN journal : x # y => canon[x].gen # journal[y].gen

\* A document that acknowledged shows no marker from before the clear, whatever
\* states and restore answers were under way to it, and neither does a document of
\* its origin that the frame shows after it.
AckMeansClean ==
  \A op \in DOMAIN journal : \A s \in DOMAIN journal[op].targets :
    LET now == live[s.frame] IN
    (/\ journal[op].targets[s].state = "acknowledged"
     /\ now = s \/ (now.origin = s.origin /\ now.doc > s.doc)) =>
      marks[s.frame] = 0 \/ marks[s.frame] >= journal[op].after[s.origin]

\* A barrier that keeps captures and edits out stays up as long as its operation is in
\* the journal, and a restarted worker has them all back before it lets one in.  It
\* falls with the attempt that put it up, and with no other: when the selection could
\* not be stopped, or when the attempt at its end found its operation gone.
GaveUp(op) == \E r \in Requests : /\ barrier[op] = r /\ req[r].pc \in {"asked", "gone"}
                                  /\ req'[r].pc = "done"
BarrierHolds ==
  [][loaded' => \A op \in DOMAIN journal' :
       (barrier[op] # None \/ ~loaded) => (barrier'[op] # None \/ GaveUp(op))]_vars

\* When the worker has nothing left to do, an operation in the journal has an
\* alarm that takes it up again.
Resting ==
  /\ \A r \in Requests : req[r].pc \in Still
  /\ tasks = {} /\ sends = {} /\ ~reread
  /\ ~recon.busy /\ ~recon.again /\ ~drain.busy /\ ~drain.again
  /\ \A op \in Ops : fin[op].pc = "idle"
NoStranded == (Resting /\ DOMAIN journal # {}) => alarm

\* A clear that succeeds was real: of the origins that it was asked for, a retry of
\* those that it could clear, each has lost the session it had and got none back
\* that is older than the clear.
ReplyIsReal ==
  [][\A r \in Requests : (req'[r].reply = "ok" /\ req[r].reply # "ok") =>
       \A o \in DOMAIN (IF req[r].resumed THEN req[r].after ELSE req[r].before) :
         o \in DOMAIN req[r].after /\ (epoch[o] = 0 \/ epoch[o] >= req[r].after[o])]_vars

\* A clear is finished some time after its last fault, unless it was never begun
\* in the store and its page waits for the user to ask again, or one of its
\* documents went away without another one taking over.
Abandoned(op) ==
  /\ Present(op)
  /\ \/ ~Bound(op) /\ ~InCanon(op) /\ ~Replaced(journal[op].endpoint)
     \/ \E s \in OpenSubjects(op) : ~IsLive(s)
ClearCompletes == \A op \in Ops : []<>(~Present(op) \/ Abandoned(op))

\* The page says of a pending clear "Retry to confirm completion."
\* (annotation-surface-controller.ts): a retry from the page of a clear whose
\* authority is bound is taken up.
RetryIsTaken ==
  [][\A r \in Requests : LET op == req[r].op IN
       (req[r].pc = "asked" /\ req'[r].reply = "failed") =>
         ~(Bound(op) /\ Owners(req[r].origin) = {op}
             /\ TopFrame \notin closed /\ journal[op].endpoint = Top)]_vars
=============================================================================
