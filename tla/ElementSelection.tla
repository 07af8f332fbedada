--------------------------- MODULE ElementSelection ---------------------------
(***************************************************************************)
(* Which page may pick elements (background-controller.ts, content.ts).    *)
(* The worker grants one page a lease of the selection; the right to give  *)
(* it is the durable selection intent, whose every change goes through one *)
(* queue (selection-intent-store.ts); pages are told through another.  A   *)
(* page that picks holds a port to the worker: when the port closes, both  *)
(* sides give up.                                                          *)
(*                                                                         *)
(* A start is a row of awaits; after each the code compares the selection  *)
(* revision, the pending record or the lease with what the start has       *)
(* taken, which `valid' stands for: no other start and no stop has come    *)
(* since.  Documents of a tab are numbered; a start from the panel names   *)
(* no document (0).  Frames below the top one behave like tabs of their    *)
(* own and are left out, with their permission and resumption records.     *)
(***************************************************************************)
EXTENDS Naturals, Sequences, FiniteSets

CONSTANTS
  Starts,          \* starts that may be under way at one time
  SelTabs,
  MaxSelEvents,    \* bound on starts, stops, navigations, settings changes and faults
  MaxSelFaults     \* bound on failures and cancellations, and on worker deaths

VARIABLES
  lease,           \* tab, document and generation of the selection
  keptPort,        \* the port of the leased page
  starts,
  intent,          \* the selection intent, and whether it can be read
  storeQueue,      \* requests to the intent store
  deliveries,      \* settings on their way to the pages
  pages,
  wire,            \* ports opened and closed by pages
  cut,             \* ports closed by the worker
  selEvents, selFaults,
  stopSeen         \* the last word the store was given is a stop

selectionVars == <<lease, keptPort, starts, intent, storeQueue, deliveries, pages,
                   wire, cut, selEvents, selFaults, stopSeen>>

Ports == 1 .. 3 * Cardinality(SelTabs)
Docs == 1 .. MaxSelEvents + 1
Gens == 0 .. 2 * MaxSelEvents
NoLease == [tab |-> "none", doc |-> 0, gen |-> 0]
NoStart == [pc |-> "none", tab |-> "none", doc |-> 0, valid |-> FALSE,
            resume |-> FALSE, gen |-> 0]
StartPlaces == {"none", "asked", "inject", "read", "authorize", "mode", "deliver", "confirm"}
Targets == [tab : SelTabs, doc : Docs \cup {0}, gen : Gens] \cup {NoLease}

SelectionTypeOK ==
  /\ lease \in Targets /\ keptPort \in Ports \cup {0}
  /\ starts \in [Starts -> [pc : StartPlaces, tab : SelTabs \cup {"none"}, doc : Docs \cup {0},
       valid : BOOLEAN, resume : BOOLEAN, gen : Gens]]
  /\ intent \in [on : BOOLEAN, gen : Gens, owner : SelTabs \cup {"none"},
                 down : BOOLEAN, poison : BOOLEAN]
  /\ \A k \in DOMAIN storeQueue : storeQueue[k].kind \in {"read", "start", "stop"}
  /\ \A k \in DOMAIN deliveries : deliveries[k].to \in Targets
  /\ pages \in [SelTabs -> [doc : Docs, picking : BOOLEAN, port : Ports \cup {0},
       init : {"fresh", "on", "off", "done"}, moved : BOOLEAN]]
  /\ \A k \in DOMAIN wire : wire[k].port \in Ports
  /\ cut \subseteq Ports /\ stopSeen \in BOOLEAN
  /\ selEvents \in 0 .. MaxSelEvents /\ selFaults \in 0 .. MaxSelFaults

SelectionInit ==
  /\ lease = NoLease /\ keptPort = 0
  /\ starts = [s \in Starts |-> NoStart]
  /\ intent = [on |-> FALSE, gen |-> 0, owner |-> "none", down |-> FALSE, poison |-> FALSE]
  /\ storeQueue = <<>> /\ deliveries = <<>> /\ wire = <<>> /\ cut = {}
  /\ pages = [t \in SelTabs |->
       [doc |-> 1, picking |-> FALSE, port |-> 0, init |-> "done", moved |-> FALSE]]
  /\ selEvents = 0 /\ selFaults = 0 /\ stopSeen = TRUE

Event == /\ selEvents < MaxSelEvents /\ selEvents' = selEvents + 1
         /\ UNCHANGED selFaults
SelFault == /\ selEvents < MaxSelEvents /\ selEvents' = selEvents + 1
            /\ selFaults < MaxSelFaults /\ selFaults' = selFaults + 1
Quiet == UNCHANGED <<selEvents, selFaults>>
KeepPages == UNCHANGED <<pages, wire>>
KeepStore == UNCHANGED <<intent, stopSeen>>

Fits(target, t) == /\ target.tab = t
                   /\ target.doc \in {0, pages[t].doc}
Overtaken(f) == [s \in Starts |-> [f[s] EXCEPT !.valid = FALSE]]
PutStart(s, r) == starts' = [starts EXCEPT ![s] = r]
Ended(s) == [starts EXCEPT ![s] = NoStart]

\* revokeElementSelectionLease, up to its first await; the store answers it
\* by telling the pages.  `f' is what becomes of the starts otherwise.
Revoke(f, expected) ==
  /\ lease' = NoLease /\ keptPort' = 0
  /\ cut' = cut \cup ({keptPort} \ {0})
  /\ starts' = Overtaken(f)
  /\ storeQueue' = Append(storeQueue,
       [kind |-> "stop", start |-> "none", gen |-> expected, tells |-> TRUE])
KeepLease == UNCHANGED <<lease, keptPort, cut, storeQueue>>

-----------------------------------------------------------------------------
(* A start: setElementSelectionLease.                                      *)
\* From the panel or a menu, or from a widget, which names the document and
\* the generation it knows (0: none) and may only continue (resume).
BeginStart(s) ==
  /\ s = CHOOSE f \in Starts : \/ starts[f].pc = "none"
                              \/ \A o \in Starts : starts[o].pc # "none"
  /\ starts[s].pc = "none" /\ Event
  /\ \E t \in SelTabs, widget, resume \in BOOLEAN :
       /\ resume => widget
       /\ PutStart(s, [pc |-> "asked", tab |-> t, doc |-> IF widget THEN pages[t].doc ELSE 0,
                       valid |-> TRUE, resume |-> resume,
                       gen |-> IF widget THEN intent.gen ELSE 0])
  /\ KeepLease /\ KeepPages /\ KeepStore /\ UNCHANGED deliveries

\* Disclosure, active tab and page are known: the start becomes the pending
\* one and overtakes all others.
BecomePending(s) ==
  /\ starts[s].pc = "asked"
  /\ \/ /\ starts[s].valid /\ Quiet
        /\ starts' = [Overtaken(starts) EXCEPT ![s] = [starts[s] EXCEPT !.pc = "inject"]]
     \/ ~starts[s].valid /\ Quiet /\ starts' = Ended(s)
     \/ SelFault /\ starts' = Ended(s)
  /\ KeepLease /\ KeepPages /\ KeepStore /\ UNCHANGED deliveries

\* The content script is there, the frame is still the same one.
Inject(s) ==
  /\ starts[s].pc = "inject"
  /\ \/ /\ starts[s].valid /\ Quiet
        /\ PutStart(s, [starts[s] EXCEPT !.pc = "read"])
        /\ storeQueue' = Append(storeQueue,
             [kind |-> "read", start |-> s, gen |-> 0, tells |-> FALSE])
     \/ ~starts[s].valid /\ Quiet /\ starts' = Ended(s) /\ UNCHANGED storeQueue
     \/ SelFault /\ starts' = Ended(s) /\ UNCHANGED storeQueue
  /\ KeepPages /\ KeepStore /\ UNCHANGED <<lease, keptPort, cut, deliveries>>

\* Installed: the page is told next.
ReadMode(s) ==
  /\ starts[s].pc = "mode" /\ KeepPages /\ KeepStore
  /\ \/ /\ starts[s].valid /\ Quiet /\ PutStart(s, [starts[s] EXCEPT !.pc = "deliver"])
        /\ deliveries' = Append(deliveries, [to |-> lease, start |-> s, half |-> FALSE])
        /\ KeepLease
     \/ ~starts[s].valid /\ Quiet /\ starts' = Ended(s) /\ KeepLease /\ UNCHANGED deliveries
     \/ starts[s].valid /\ SelFault /\ Revoke(Ended(s), 0) /\ UNCHANGED deliveries

\* The tab is still active and on the same page.
Confirm(s) ==
  /\ starts[s].pc = "confirm" /\ KeepPages /\ KeepStore /\ UNCHANGED deliveries
  /\ \/ Quiet /\ starts' = Ended(s) /\ KeepLease
     \/ starts[s].valid /\ SelFault /\ Revoke(Ended(s), 0)

-----------------------------------------------------------------------------
(* The intent store, one request after the other.                          *)
Request1 == Head(storeQueue)
Changed(on, owner) ==
  [intent EXCEPT !.on = on, !.gen = @ + 1, !.owner = owner]
Unwritten == [intent EXCEPT !.down = TRUE, !.poison = TRUE]

AnswerRead ==
  /\ storeQueue # <<>> /\ Request1.kind = "read" /\ Quiet
  /\ LET s == Request1.start
         r == starts[s] IN
     IF r.valid /\ ~intent.down
       THEN LET g == IF r.gen = 0 THEN intent.gen ELSE r.gen IN
            /\ PutStart(s, [r EXCEPT !.pc = "authorize", !.gen = g])
            /\ storeQueue' = Append(Tail(storeQueue),
                 [kind |-> "start", start |-> s, gen |-> g, tells |-> FALSE])
       ELSE starts' = Ended(s) /\ storeQueue' = Tail(storeQueue)
  /\ KeepPages /\ KeepStore /\ UNCHANGED <<lease, keptPort, cut, deliveries>>

\* Whether a start may have the lease.
MayStart(r) == /\ ~intent.down /\ r.gen = intent.gen
               /\ r.resume => intent.on /\ intent.owner = r.tab

\* MUTANT of Install: the port of the page that had the lease stays open.
InstallBeside(s, gen) ==
  /\ lease' = [tab |-> starts[s].tab, doc |-> starts[s].doc, gen |-> gen]
  /\ keptPort' = 0 /\ UNCHANGED cut
  /\ PutStart(s, [starts[s] EXCEPT !.pc = "mode"])

Install(s, gen) ==
  /\ lease' = [tab |-> starts[s].tab, doc |-> starts[s].doc, gen |-> gen]
  /\ keptPort' = 0 /\ cut' = cut \cup ({keptPort} \ {0})
  /\ PutStart(s, [starts[s] EXCEPT !.pc = "mode"])

\* startExplicit or resume; a start that was overtaken takes it back.
AnswerStart ==
  /\ storeQueue # <<>> /\ Request1.kind = "start"
  /\ LET s == Request1.start
         r == starts[s]
         gen == IF r.resume THEN intent.gen ELSE intent.gen + 1
     IN
     \/ /\ MayStart(r) /\ Quiet
        /\ intent' = IF r.resume THEN intent ELSE Changed(TRUE, r.tab)
        /\ stopSeen' = (r.resume /\ stopSeen)
        /\ IF r.valid
             THEN Install(s, gen) /\ storeQueue' = Tail(storeQueue)
             ELSE /\ starts' = Ended(s)
                  /\ storeQueue' = Append(Tail(storeQueue),
                       [kind |-> "stop", start |-> "none", gen |-> gen, tells |-> FALSE])
                  /\ UNCHANGED <<lease, keptPort, cut>>
     \/ /\ ~MayStart(r) /\ Quiet /\ KeepStore
        /\ starts' = Ended(s) /\ storeQueue' = Tail(storeQueue)
        /\ UNCHANGED <<lease, keptPort, cut>>
     \/ /\ MayStart(r) /\ ~r.resume /\ SelFault /\ intent' = Unwritten
        /\ starts' = Ended(s) /\ storeQueue' = Tail(storeQueue)
        /\ UNCHANGED <<lease, keptPort, cut, stopSeen>>
  /\ KeepPages /\ UNCHANGED deliveries

\* stop: unless it names another generation it is the last word, also when
\* it cannot be written: then nothing is authorised by this store any more.
AnswerStop ==
  /\ storeQueue # <<>> /\ Request1.kind = "stop"
  /\ LET stale == ~intent.down /\ Request1.gen \notin {0, intent.gen} IN
     \/ stale /\ Quiet /\ KeepStore
     \/ ~stale /\ ~intent.down /\ Quiet /\ intent' = Changed(FALSE, "none") /\ stopSeen' = TRUE
     \/ ~stale /\ intent.down /\ Quiet /\ intent' = Unwritten /\ stopSeen' = TRUE
     \/ ~stale /\ ~intent.down /\ SelFault /\ intent' = Unwritten /\ stopSeen' = TRUE
  /\ storeQueue' = Tail(storeQueue)
  /\ deliveries' = IF Request1.tells
                     THEN Append(deliveries, [to |-> NoLease, start |-> "none", half |-> FALSE])
                     ELSE deliveries
  /\ KeepPages /\ UNCHANGED <<lease, keptPort, cut, starts>>

-----------------------------------------------------------------------------
(* The pages are told: everybody off, then the leased one on.              *)
OpenPorts == {pages[t].port : t \in SelTabs} \cup {keptPort} \cup cut
             \cup {wire[k].port : k \in DOMAIN wire}
FreshPort == CHOOSE p \in Ports : p \notin OpenPorts
Message(kind, port, t) == [kind |-> kind, port |-> port, tab |-> t, doc |-> pages[t].doc]

\* applyContentSettings, disabled: picking ends and the port is closed.
ClosedBy(t) == IF pages[t].port = 0 THEN <<>> ELSE <<Message("close", pages[t].port, t)>>
TabOrder == CHOOSE q \in [1 .. Cardinality(SelTabs) -> SelTabs] :
              \A i, j \in DOMAIN q : q[i] = q[j] => i = j
AllClosed[i \in 0 .. Cardinality(SelTabs)] ==
  IF i = 0 THEN <<>> ELSE AllClosed[i - 1] \o ClosedBy(TabOrder[i])

TellOff ==
  /\ deliveries # <<>> /\ ~Head(deliveries).half
  /\ deliveries' = [deliveries EXCEPT ![1].half = TRUE]
  /\ wire' = wire \o AllClosed[Cardinality(SelTabs)]
  /\ pages' = [t \in SelTabs |->
       [pages[t] EXCEPT !.picking = FALSE, !.port = 0, !.init = "done"]]
  /\ KeepLease /\ KeepStore /\ Quiet /\ UNCHANGED starts

\* enabled: a port is opened and the page picks.
Arm(t) ==
  IF pages[t].port # 0
    THEN pages' = [pages EXCEPT ![t].picking = TRUE, ![t].init = "done"] /\ UNCHANGED wire
    ELSE /\ Ports \ OpenPorts # {}
         /\ pages' = [pages EXCEPT ![t].picking = TRUE, ![t].init = "done",
                                   ![t].port = FreshPort]
         /\ wire' = Append(wire, Message("open", FreshPort, t))

TellOn ==
  /\ deliveries # <<>> /\ Head(deliveries).half /\ KeepStore
  /\ deliveries' = Tail(deliveries)
  /\ LET to == Head(deliveries).to
         s == Head(deliveries).start
         reached == {t \in SelTabs : Fits(to, t)}
         mine == s # "none" /\ starts[s].pc = "deliver"
     IN
     \/ /\ \E t \in reached : Arm(t)
        /\ starts' = IF ~mine THEN starts
                     ELSE IF starts[s].valid
                       THEN [starts EXCEPT ![s].pc = "confirm"] ELSE Ended(s)
        /\ KeepLease /\ Quiet
     \/ /\ reached = {} /\ Quiet /\ KeepPages
        /\ IF mine /\ starts[s].valid THEN Revoke(Ended(s), 0)
           ELSE KeepLease /\ starts' = IF mine THEN Ended(s) ELSE starts

\* Another disclosure mode: all pages are told again.
SettingsChange ==
  /\ Event /\ KeepPages /\ KeepStore /\ KeepLease /\ UNCHANGED starts
  /\ deliveries' = Append(deliveries, [to |-> lease, start |-> "none", half |-> FALSE])

\* The settings cannot be read: nobody picks, and the intent is left alone.
SettingsUnreadable ==
  /\ SelFault /\ lease' = NoLease /\ starts' = Overtaken(starts)
  /\ deliveries' = Append(deliveries, [to |-> NoLease, start |-> "none", half |-> FALSE])
  /\ KeepPages /\ KeepStore /\ UNCHANGED <<keptPort, cut, storeQueue>>

-----------------------------------------------------------------------------
(* Ports.                                                                  *)
\* retainElementSelectionLifecyclePort.
PortOpened ==
  /\ wire # <<>> /\ Head(wire).kind = "open" /\ wire' = Tail(wire) /\ Quiet
  /\ LET p == Head(wire).port IN
     IF lease.tab = Head(wire).tab /\ lease.doc \in {0, Head(wire).doc}
       THEN keptPort' = p /\ cut' = cut \cup ({keptPort} \ {0})
       ELSE UNCHANGED keptPort /\ cut' = cut \cup {p}
  /\ KeepStore /\ UNCHANGED <<lease, starts, storeQueue, deliveries, pages>>

PortClosed ==
  /\ wire # <<>> /\ Head(wire).kind = "close" /\ wire' = Tail(wire) /\ Quiet
  /\ IF Head(wire).port = keptPort THEN Revoke(starts, 0) ELSE KeepLease /\ UNCHANGED starts
  /\ KeepStore /\ UNCHANGED <<deliveries, pages>>

\* The page learns that its port is closed, and stops.
PageCut(p) ==
  /\ p \in cut /\ cut' = cut \ {p} /\ Quiet
  /\ pages' = [t \in SelTabs |-> IF pages[t].port = p
       THEN [pages[t] EXCEPT !.port = 0, !.picking = FALSE] ELSE pages[t]]
  /\ KeepStore /\ UNCHANGED <<lease, keptPort, starts, storeQueue, deliveries, wire>>

-----------------------------------------------------------------------------
(* The rest of the world.                                                  *)
\* Stop, Escape on the page, a clear, another active tab, a capture that
\* was to be the only one; a widget names the generation it knows.
Stop ==
  /\ Event /\ \E g \in {0, intent.gen} : Revoke(starts, g)
  /\ KeepPages /\ KeepStore /\ UNCHANGED deliveries

Navigate(t) ==
  /\ Event /\ wire' = wire \o ClosedBy(t)
  /\ pages' = [pages EXCEPT ![t] = [doc |-> pages[t].doc + 1, picking |-> FALSE, port |-> 0,
                                    init |-> "fresh", moved |-> TRUE]]
  /\ KeepLease /\ KeepStore /\ UNCHANGED <<starts, deliveries>>

\* handleTabUpdated, handleNavigationCommitted.
NavigationSeen(t) ==
  /\ pages[t].moved /\ pages' = [pages EXCEPT ![t].moved = FALSE] /\ Quiet
  /\ IF lease.tab = t \/ \E s \in Starts : /\ starts[s].valid /\ starts[s].tab = t
                                           /\ starts[s].pc \in {"inject", "read", "authorize"}
       THEN Revoke(starts, 0) ELSE KeepLease /\ UNCHANGED starts
  /\ KeepStore /\ UNCHANGED <<deliveries, wire>>

\* A new document asks for its settings; the answer may come late.
AnswerPage(t) ==
  /\ pages[t].init = "fresh" /\ Quiet
  /\ pages' = [pages EXCEPT ![t].init = IF Fits(lease, t) THEN "on" ELSE "off"]
  /\ KeepLease /\ KeepStore /\ UNCHANGED <<starts, deliveries, wire>>
ApplyAnswer(t) ==
  /\ pages[t].init \in {"on", "off"} /\ Quiet
  /\ IF pages[t].init = "on" THEN Arm(t)
     ELSE pages' = [pages EXCEPT ![t].init = "done"] /\ UNCHANGED wire
  /\ KeepLease /\ KeepStore /\ UNCHANGED <<starts, deliveries>>

\* The worker ends: what it kept in memory is gone, and so are its ports.
\* The next one tells the pages to be off.
SelectionWorkerDies ==
  /\ SelFault
  /\ lease' = NoLease /\ keptPort' = 0 /\ starts' = [s \in Starts |-> NoStart]
  /\ storeQueue' = <<>> /\ wire' = <<>>
  /\ deliveries' = <<[to |-> NoLease, start |-> "none", half |-> FALSE]>>
  /\ cut' = {pages[t].port : t \in SelTabs} \ {0}
  /\ intent' = [intent EXCEPT !.down = intent.poison]
  /\ UNCHANGED <<pages, stopSeen>>

SelectionNext ==
  \/ \E s \in Starts : BeginStart(s) \/ BecomePending(s) \/ Inject(s) \/ ReadMode(s) \/ Confirm(s)
  \/ AnswerRead \/ AnswerStart \/ AnswerStop
  \/ TellOff \/ TellOn \/ SettingsChange \/ SettingsUnreadable
  \/ PortOpened \/ PortClosed \/ \E p \in cut : PageCut(p)
  \/ Stop \/ SelectionWorkerDies
  \/ \E t \in SelTabs : Navigate(t) \/ NavigationSeen(t) \/ AnswerPage(t) \/ ApplyAnswer(t)

SelectionSpec == SelectionInit /\ [][SelectionNext]_selectionVars

-----------------------------------------------------------------------------
\* Every delivery turns all pages off before it turns one on.
OffComing == \/ \E k \in DOMAIN deliveries : deliveries[k].to = NoLease \/ ~deliveries[k].half
             \/ \E k \in DOMAIN storeQueue : storeQueue[k].tells
Unjudged(p) == \E k \in DOMAIN wire : wire[k].kind = "open" /\ wire[k].port = p

(* A page that picks is the leased one and the worker keeps its port, or   *)
(* it is going to be stopped or judged: its port is cut or not yet seen by *)
(* the worker, or the word that turns every page off is on its way.  So no *)
(* page goes on picking for a start that was stopped or overtaken, however *)
(* starts, stops, navigations and late answers cross.                      *)
PickingIsHeld ==
  \A t \in SelTabs : pages[t].picking =>
    \/ pages[t].port = keptPort /\ Fits(lease, t)
    \/ pages[t].port \in cut \/ Unjudged(pages[t].port)
    \/ OffComing

(* A widget that continues a selection after its page or the worker has    *)
(* started again never undoes a stop, not even one that could not be       *)
(* written (the poison of the intent store).                               *)
ResumeRespectsStop ==
  \A s \in Starts : starts[s].pc = "authorize" /\ starts'[s].pc = "mode" /\ starts[s].resume
    => ~stopSeen

(* Both together: the user's word holds, in the pages and after a restart. *)
SelectionObeys == [][ResumeRespectsStop /\ PickingIsHeld']_selectionVars
=============================================================================
