----------------------------- MODULE WidgetActions -----------------------------
(***************************************************************************)
(* What a marker on the page asks of the widget (edit, more) is queued by  *)
(* the worker and handed over one action at a time, through the port the   *)
(* widget holds open (background-controller.ts); the widget carries it out *)
(* and acknowledges it on the port it has then (in-page-widget-entry.ts).  *)
(* A port may be lost, replaced or given up after four seconds without an  *)
(* acknowledgement; the same action is then handed over again on the next  *)
(* one, and the widget remembers what it has carried out.                  *)
(*                                                                         *)
(* One surface.  The queue is an array that is changed in place, or put    *)
(* aside for another one (`queueId'): who holds the old array can tell.    *)
(* Each action belongs to a frame of the page; a navigation drops those of *)
(* the frame that moved and asks for each of the others, with an await,    *)
(* whether its marker is still shown.  Messages of one port keep their     *)
(* order.                                                                  *)
(***************************************************************************)
EXTENDS Naturals, Sequences, FiniteSets

CONSTANTS
  MaxActions,      \* bound on the actions that are asked for
  MaxQueued,       \* MAX_PENDING_IN_PAGE_WIDGET_ACTIONS
  MaxPorts,        \* bound on the ports the widget opens
  MaxMoves,        \* bound on navigations
  MaxActFaults     \* bound on lost ports, stale and rejected actions, late answers

ASSUME ActionConstantsOK ==
  /\ MaxActions \in Nat /\ MaxQueued \in Nat /\ MaxPorts \in Nat
  /\ MaxMoves \in Nat /\ MaxActFaults \in Nat

VARIABLES
  surface,         \* "live", "dormant" (without a port for six seconds), "ended"
  actPort,         \* lease.port, 0: none
  queue, queueId,
  drain,           \* the one task that hands actions over
  frameOf,         \* the frame of each action asked for
  scan,            \* the navigation that looks through the queue
  newPort,         \* a port the widget has opened and the worker not yet seen
  widgetPort,      \* lifecyclePort of the widget, 0: none
  down, up,        \* messages of each port, to the widget and to the worker
  handled,         \* what the widget made of each action
  owed, acked,     \* acknowledgements to come and those sent, with their port
  moves, actFaults

actionVars == <<surface, actPort, queue, queueId, drain, frameOf, scan, newPort, widgetPort,
                down, up, handled, owed, acked, moves, actFaults>>

Actions == 1 .. MaxActions
ActPorts == 1 .. MaxPorts
Frames == {1, 2}
NoDrain == [pc |-> "none", id |-> 0, port |-> 0, a |-> 0, outcome |-> "none"]
NoScan == [pc |-> "none", id |-> 0, frame |-> 0, at |-> 0, a |-> 0, kept |-> <<>>]
Outcomes == {"none", "consumed", "rejected", "retry", "dropped"}

ActionTypeOK ==
  /\ surface \in {"live", "dormant", "ended"} /\ actPort \in ActPorts \cup {0}
  /\ \A k \in DOMAIN queue : queue[k] \in DOMAIN frameOf
  /\ drain.pc \in {"none", "prepare", "wait", "settled"} /\ drain.outcome \in Outcomes
  /\ drain.a \in Actions \cup {0} /\ drain.port \in ActPorts \cup {0}
  /\ Len(frameOf) <= MaxActions /\ \A a \in DOMAIN frameOf : frameOf[a] \in Frames
  /\ scan.pc \in {"none", "look", "asked"}
  /\ newPort \in ActPorts \cup {0} /\ widgetPort \in ActPorts \cup {0}
  /\ handled \in [Actions -> {"none", "running", "consumed", "rejected"}]
  /\ owed \subseteq Actions \X ActPorts /\ acked \subseteq Actions \X ActPorts
  /\ moves \in 0 .. MaxMoves /\ actFaults \in 0 .. MaxActFaults

ActionInit ==
  /\ surface = "live" /\ actPort = 0 /\ queue = <<>> /\ queueId = 1 /\ drain = NoDrain
  /\ frameOf = <<>> /\ scan = NoScan /\ newPort = 0 /\ widgetPort = 0
  /\ down = [p \in ActPorts |-> <<>>] /\ up = [p \in ActPorts |-> <<>>]
  /\ handled = [a \in Actions |-> "none"] /\ owed = {} /\ acked = {}
  /\ moves = 0 /\ actFaults = 0

NoFault == UNCHANGED actFaults
ActFault == actFaults < MaxActFaults /\ actFaults' = actFaults + 1
KeepWidget == UNCHANGED <<newPort, widgetPort, handled, owed, acked>>
KeepWires == UNCHANGED <<down, up>>
KeepScan == UNCHANGED <<frameOf, scan, moves>>
KeepHanding == UNCHANGED <<surface, actPort, queue, queueId, drain>>

\* deliverPendingInPageWidgetActions, in the state that follows.
Starting(id) == [NoDrain EXCEPT !.pc = "prepare", !.id = id, !.port = actPort']
Delivered(d) ==
  IF d.pc = "none" /\ surface' = "live" /\ actPort' # 0 /\ queue' # <<>>
    THEN Starting(queueId') ELSE d
Settle(d, outcome) ==
  IF d.pc = "wait" THEN [d EXCEPT !.pc = "settled", !.outcome = outcome] ELSE d
\* A closed port carries nothing any more.
Cut(wires, p) == IF p = 0 THEN wires ELSE [wires EXCEPT ![p] = <<>>]
LosesPort(p) == /\ actPort' = IF p = 0 THEN actPort ELSE 0
                /\ down' = Cut(down, p) /\ up' = Cut(up, p)

\* MUTANT of DrainOver: what came meanwhile is not looked for.
DrainOverForGood == NoDrain

\* The task has ended; there may be something left.
DrainOver == Delivered(NoDrain)

-----------------------------------------------------------------------------
(* The worker hands the actions over.                                      *)
\* handleOverlayActionRequest, when the surface is there.
Accept ==
  /\ Len(frameOf) < MaxActions /\ surface = "live" /\ Len(queue) < MaxQueued
  /\ drain.pc # "prepare" /\ NoFault
  /\ \E f \in Frames : frameOf' = Append(frameOf, f)
  /\ queue' = Append(queue, Len(frameOf) + 1)
  /\ queueId' = IF queue = <<>> THEN queueId + 1 ELSE queueId
  /\ UNCHANGED <<surface, actPort, scan, moves>>
  /\ drain' = Delivered(drain)
  /\ KeepWidget /\ KeepWires

DrainCurrent(d) == /\ surface = "live" /\ actPort = d.port /\ queueId = d.id /\ queue # <<>>

\* drainPendingInPageWidgetActions, at the head of its loop: the action is
\* dropped when its marker is not shown any more or cannot be stored.
Prepare ==
  /\ drain.pc = "prepare" /\ DrainCurrent(drain)
  /\ \/ /\ NoFault /\ UNCHANGED <<queue, up>>
        /\ drain' = [drain EXCEPT !.pc = "wait", !.a = Head(queue)]
        /\ down' = [down EXCEPT ![actPort] = Append(@, Head(queue))]
     \/ /\ ActFault /\ queue' = Tail(queue) /\ UNCHANGED drain /\ KeepWires
  /\ KeepWidget /\ KeepScan /\ UNCHANGED <<surface, actPort, queueId>>

\* The loop ends, and another one begins when there is something left.
DrainEnds ==
  /\ drain.pc = "prepare" /\ ~DrainCurrent(drain) /\ NoFault
  /\ UNCHANGED <<surface, actPort, queue, queueId>>
  /\ drain' = DrainOver
  /\ KeepWidget /\ KeepWires /\ KeepScan

\* A consumed action leaves the queue if it is still at its head; a refused
\* one ends the surface.
IsHead(d) == DrainCurrent(d) /\ Head(queue) = d.a
Settled ==
  /\ drain.pc = "settled" /\ NoFault
  /\ LET ends == drain.outcome = "rejected" /\ surface = "live" /\ actPort = drain.port IN
     /\ surface' = IF ends THEN "ended" ELSE surface
     /\ actPort' = IF ends THEN 0 ELSE actPort
     /\ down' = IF ends THEN Cut(down, actPort) ELSE down
     /\ up' = IF ends THEN Cut(up, actPort) ELSE up
     /\ queue' = IF ends THEN <<>>
                 ELSE IF drain.outcome = "consumed" /\ IsHead(drain) THEN Tail(queue) ELSE queue
  /\ UNCHANGED queueId
  /\ drain' = IF drain.outcome \in {"retry", "rejected"} THEN DrainOver
              ELSE [drain EXCEPT !.pc = "prepare", !.a = 0, !.outcome = "none"]
  /\ KeepWidget /\ KeepScan

\* MUTANT of AckFits: any acknowledgement of this port will do.
AckOfPort(p, a) == drain.pc = "wait" /\ drain.port = p /\ actPort = p

AckFits(p, a) == drain.pc = "wait" /\ drain.port = p /\ actPort = p /\ drain.a = a

Acknowledged(p) ==
  /\ up[p] # <<>> /\ up' = [up EXCEPT ![p] = Tail(@)] /\ NoFault
  /\ drain' = IF AckFits(p, Head(up[p]).a) THEN Settle(drain, Head(up[p]).outcome) ELSE drain
  /\ KeepWidget /\ KeepScan /\ UNCHANGED <<surface, actPort, queue, queueId, down>>

\* Four seconds: the port is given up.  They are long: the acknowledgement
\* has been sent before, on this port, or it is a fault that it takes them.
NothingComes(p, a) ==
  /\ <<a, p>> \notin owed
  /\ \A k \in DOMAIN down[p] : down[p][k] # a
  /\ \A k \in DOMAIN up[p] : up[p][k].a # a
AckTimeout ==
  /\ drain.pc = "wait"
  /\ IF NothingComes(drain.port, drain.a) THEN NoFault ELSE ActFault
  /\ drain' = Settle(drain, "retry")
  /\ LosesPort(IF actPort = drain.port THEN actPort ELSE 0)
  /\ KeepWidget /\ KeepScan /\ UNCHANGED <<surface, queue, queueId>>

-----------------------------------------------------------------------------
(* The port.                                                               *)
FreePorts == {p \in ActPorts : /\ p \notin {actPort, newPort, widgetPort, drain.port}
                               /\ \A a \in Actions : <<a, p>> \notin owed}
\* connectLifecycle: the surface is registered, which restores it.
Connect ==
  /\ widgetPort = 0 /\ newPort = 0 /\ surface # "ended" /\ FreePorts # {} /\ NoFault
  /\ surface' = "live"
  /\ LET p == CHOOSE f \in FreePorts : \A g \in FreePorts : f <= g IN
     /\ widgetPort' = p /\ newPort' = p
     /\ acked' = {o \in acked : o[2] # p}
  /\ KeepWires /\ KeepScan /\ UNCHANGED <<actPort, queue, queueId, drain, handled, owed>>

\* retainInPageWidgetLifecyclePort, or the sender is not trusted.
Retain ==
  /\ newPort # 0 /\ newPort' = 0
  /\ \/ /\ surface = "live" /\ NoFault /\ actPort' = newPort
        /\ down' = Cut(down, actPort) /\ up' = Cut(up, actPort)
        /\ UNCHANGED <<surface, queue, queueId>>
        /\ drain' = Delivered(IF drain.port = actPort THEN Settle(drain, "retry") ELSE drain)
     \/ /\ surface = "live" /\ ActFault
        /\ KeepHanding /\ KeepWires
     \/ /\ surface # "live" /\ NoFault
        /\ KeepHanding /\ KeepWires
  /\ KeepScan /\ UNCHANGED <<widgetPort, handled, owed, acked>>

\* Lost on the way; the widget learns of it, and of a port that was closed.
PortLost ==
  /\ actPort # 0 /\ ActFault /\ LosesPort(actPort)
  /\ drain' = IF drain.port = actPort THEN Settle(drain, "retry") ELSE drain
  /\ KeepWidget /\ KeepScan /\ UNCHANGED <<surface, queue, queueId>>
SeesPortClosed ==
  /\ widgetPort \notin {0, newPort, actPort} /\ widgetPort' = 0 /\ NoFault
  /\ KeepWires /\ KeepScan
  /\ KeepHanding /\ UNCHANGED <<newPort, handled, owed, acked>>

\* Six seconds without a port, or the end of the worker: what was queued is
\* gone, the surface is not.
GoesDormant ==
  /\ surface = "live" /\ scan.pc = "none" /\ ActFault
  /\ \/ actPort = 0 /\ drain' = Settle(drain, "dropped") /\ UNCHANGED <<newPort, down, up>>
     \/ drain' = NoDrain /\ newPort' = 0 /\ down' = [p \in ActPorts |-> <<>>]
        /\ up' = [p \in ActPorts |-> <<>>]
  /\ surface' = "dormant" /\ actPort' = 0 /\ queue' = <<>> /\ queueId' = queueId
  /\ KeepScan /\ UNCHANGED <<widgetPort, handled, owed, acked>>

-----------------------------------------------------------------------------
(* The widget: createInPageWidgetActionConsumer.                           *)
Receive(p) ==
  /\ down[p] # <<>> /\ down' = [down EXCEPT ![p] = Tail(@)] /\ NoFault
  /\ LET a == Head(down[p]) IN
     /\ handled' = [handled EXCEPT ![a] = IF @ = "none" THEN "running" ELSE @]
     /\ owed' = IF widgetPort = 0 THEN owed ELSE owed \cup {<<a, widgetPort>>}
  /\ KeepScan /\ KeepHanding /\ UNCHANGED <<newPort, widgetPort, up, acked>>

CarryOut(a) ==
  /\ handled[a] = "running"
  /\ \/ NoFault /\ handled' = [handled EXCEPT ![a] = "consumed"]
     \/ ActFault /\ handled' = [handled EXCEPT ![a] = "rejected"]
  /\ KeepScan /\ KeepWires /\ KeepHanding /\ UNCHANGED <<newPort, widgetPort, owed, acked>>

\* Once per port, and only on the port the action came by.
Acknowledge(a, p) ==
  /\ <<a, p>> \in owed /\ handled[a] \in {"consumed", "rejected"} /\ NoFault
  /\ owed' = owed \ {<<a, p>>}
  /\ LET sends == widgetPort = p /\ <<a, p>> \notin acked IN
     /\ acked' = IF sends THEN acked \cup {<<a, p>>} ELSE acked
     /\ up' = IF sends /\ p \in {actPort, newPort}
                THEN [up EXCEPT ![p] = Append(@, [a |-> a, outcome |-> handled[a]])] ELSE up
  /\ KeepScan /\ KeepHanding /\ UNCHANGED <<newPort, widgetPort, handled, down>>

-----------------------------------------------------------------------------
(* A navigation: clearPendingInPageWidgetActionsForNavigation.             *)
\* From the k-th action on, up to the next await or to the end.
Looks(k, frame, kept, id) ==
  LET array == IF queueId = id THEN queue ELSE <<>>
      others == {n \in k .. Len(array) : frameOf[array[n]] # frame}
      n == CHOOSE m \in others : \A o \in others : m <= o
      keptSet == {kept[m] : m \in DOMAIN kept}
  IN
  IF others # {}
    THEN /\ scan' = [pc |-> "asked", id |-> id, frame |-> frame, at |-> n, a |-> array[n],
                     kept |-> kept]
         /\ UNCHANGED <<queue, queueId, drain>>
    ELSE /\ scan' = NoScan
         /\ IF Len(kept) = Len(array) \/ surface # "live" THEN UNCHANGED <<queue, queueId, drain>>
            ELSE /\ queue' = kept /\ queueId' = queueId + 1
                 /\ drain' = IF drain.a \in keptSet THEN drain ELSE Settle(drain, "dropped")

FrameMoves(f) ==
  /\ moves < MaxMoves /\ moves' = moves + 1 /\ scan.pc = "none" /\ queue # <<>> /\ NoFault
  /\ Looks(1, f, <<>>, queueId)
  /\ KeepWidget /\ KeepWires /\ UNCHANGED <<surface, actPort, frameOf>>

Asked ==
  /\ scan.pc = "asked"
  /\ \/ NoFault /\ Looks(scan.at + 1, scan.frame, Append(scan.kept, scan.a), scan.id)
     \/ ActFault /\ Looks(scan.at + 1, scan.frame, scan.kept, scan.id)
  /\ KeepWidget /\ KeepWires /\ UNCHANGED <<surface, actPort, frameOf, moves>>

ActionNext ==
  \/ Accept \/ Prepare \/ DrainEnds \/ Settled \/ AckTimeout
  \/ Connect \/ Retain \/ PortLost \/ SeesPortClosed \/ GoesDormant \/ Asked
  \/ \E p \in ActPorts : Acknowledged(p) \/ Receive(p)
  \/ \E a \in Actions : CarryOut(a) \/ \E p \in ActPorts : Acknowledge(a, p)
  \/ \E f \in Frames : FrameMoves(f)

ActionSpec == ActionInit /\ [][ActionNext]_actionVars
ActionWork ==
  \/ Prepare \/ DrainEnds \/ Settled \/ AckTimeout \/ Connect \/ Retain \/ SeesPortClosed \/ Asked
  \/ \E p \in ActPorts : Acknowledged(p) \/ Receive(p)
  \/ \E a \in Actions : CarryOut(a) \/ \E p \in ActPorts : Acknowledge(a, p)
ActionFairSpec == ActionSpec /\ WF_actionVars(ActionWork)

-----------------------------------------------------------------------------
(* What the worker takes for the answer to an action is the answer to that *)
(* action, although the widget may answer late, twice, on another port, or *)
(* for an action that was handed over before.                              *)
AnswersFit ==
  drain.pc = "settled" /\ drain.outcome \in {"consumed", "rejected"}
    => handled[drain.a] = drain.outcome

(* No action is carried out before an older one that is still queued.      *)
NoOvertaking == moves = 0 =>
  \A i, j \in DOMAIN queue :
    i < j /\ handled[queue[j]] # "none" => handled[queue[i]] # "none"

ActionsAreSafe == AnswersFit /\ NoOvertaking

(* An action that was accepted does not stay in the queue: it is empty     *)
(* again and again.  A navigation that crosses it is another matter.       *)
ActionsAreServed == []<>(queue = <<>>)
=============================================================================
