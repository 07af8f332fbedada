-------------------------- MODULE WidgetActionsProofs --------------------------
(***************************************************************************)
(* Proofs about the actions a marker asks of the widget: an answer is      *)
(* always taken for the action it is an answer to, and the widget carries  *)
(* nothing out before an older action that is still queued, for any number *)
(* of actions, ports, navigations and faults.                              *)
(***************************************************************************)
EXTENDS WidgetActions, WellFoundedInduction, TLAPS

USE ActionConstantsOK

-----------------------------------------------------------------------------
(* The types.                                                              *)

Drain == [pc : {"none", "prepare", "wait", "settled"}, id : Nat,
          port : ActPorts \cup {0}, a : Actions \cup {0}, outcome : Outcomes]
Scan == [pc : {"none", "look", "asked"}, id : Nat, frame : Frames \cup {0}, at : Nat,
         a : Actions \cup {0}, kept : Seq(Actions)]
Ack == [a : Actions, outcome : {"consumed", "rejected"}]

\* Of actions that were asked for.
Known(s) == \A k \in DOMAIN s : s[k] <= Len(frameOf)

PortsTyped ==
  /\ surface \in {"live", "dormant", "ended"}
  /\ actPort \in ActPorts \cup {0} /\ newPort \in ActPorts \cup {0}
  /\ widgetPort \in ActPorts \cup {0}
QueueTyped ==
  /\ frameOf \in Seq(Frames) /\ Len(frameOf) <= MaxActions
  /\ queue \in Seq(Actions) /\ Known(queue) /\ queueId \in Nat
ScanTyped ==
  /\ scan \in Scan /\ Known(scan.kept)
  /\ scan.pc = "asked" => scan.a \in Actions /\ scan.a <= Len(frameOf)
  /\ moves \in 0 .. MaxMoves
  /\ scan.pc # "none" => moves # 0
WiresTyped ==
  /\ down \in [ActPorts -> Seq(Actions)]
  /\ up \in [ActPorts -> Seq(Ack)]
WidgetTyped ==
  /\ handled \in [Actions -> {"none", "running", "consumed", "rejected"}]
  /\ owed \subseteq Actions \X ActPorts /\ acked \subseteq Actions \X ActPorts
  /\ actFaults \in 0 .. MaxActFaults
DrainIs(d) == d \in Drain /\ (d.pc \in {"wait", "settled"} => d.a \in Actions)
DrainTyped == DrainIs(drain)
Typed == PortsTyped /\ QueueTyped /\ ScanTyped /\ DrainTyped /\ WiresTyped /\ WidgetTyped

-----------------------------------------------------------------------------
(* The inductive invariant.                                                *)

\* Neither with the widget nor on its way there.
Untouched(a, h, d) ==
  /\ h[a] = "none"
  /\ \A p \in ActPorts : \A k \in DOMAIN d[p] : d[p][k] # a

\* Only the first of the queue was ever handed over, as long as nothing navigates.
OrderOK ==
  moves = 0 =>
    /\ \A i, j \in DOMAIN queue : i < j => queue[i] < queue[j]
    /\ \A k \in DOMAIN queue : k > 1 => Untouched(queue[k], handled, down)
    /\ \A a \in Actions : a > Len(frameOf) => Untouched(a, handled, down)

\* What is on its way to the worker, and what it took, is what the widget did.
AnswersOK ==
  /\ \A p \in ActPorts : \A k \in DOMAIN up[p] : up[p][k].outcome = handled[up[p][k].a]
  /\ AnswersFit

IInv == Typed /\ OrderOK /\ AnswersOK

-----------------------------------------------------------------------------
(* Sequences and wires.                                                    *)

LEMMA TailIs ==
  ASSUME NEW S, NEW s \in Seq(S), s # <<>>
  PROVE  /\ Tail(s) \in Seq(S) /\ Head(s) \in S
         /\ Len(Tail(s)) = Len(s) - 1 /\ Len(s) \in Nat /\ DOMAIN s = 1 .. Len(s)
         /\ DOMAIN Tail(s) = 1 .. Len(Tail(s)) /\ 1 \in DOMAIN s /\ Head(s) = s[1]
         /\ \A k \in DOMAIN Tail(s) : k + 1 \in DOMAIN s /\ Tail(s)[k] = s[k + 1]
OBVIOUS

LEMMA AppendIs ==
  ASSUME NEW S, NEW s \in Seq(S), NEW x \in S
  PROVE  /\ Append(s, x) \in Seq(S) /\ Len(Append(s, x)) = Len(s) + 1
         /\ DOMAIN s = 1 .. Len(s) /\ Len(s) \in Nat
         /\ DOMAIN Append(s, x) = 1 .. Len(s) + 1
         /\ \A k \in DOMAIN s : Append(s, x)[k] = s[k]
         /\ Append(s, x)[Len(s) + 1] = x
OBVIOUS

\* What every wire carries, it carried before.
Less(new, old) ==
  \A p \in ActPorts : \A k \in DOMAIN new[p] : \E j \in DOMAIN old[p] : new[p][k] = old[p][j]

LEMMA CutTyped ==
  ASSUME NEW S, NEW w \in [ActPorts -> Seq(S)], NEW p
  PROVE  Cut(w, p) \in [ActPorts -> Seq(S)] /\ Less(Cut(w, p), w)
<1>1. <<>> \in Seq(S) /\ DOMAIN <<>> = {}
  OBVIOUS
<1>2. CASE p = 0
  BY <1>2 DEF Cut, Less
<1>3. CASE p # 0
  BY <1>1, <1>3 DEF Cut, Less
<1> QED  BY <1>2, <1>3

Taken(w, p) == [w EXCEPT ![p] = Tail(@)]
LEMMA TakeTyped ==
  ASSUME NEW S, NEW w \in [ActPorts -> Seq(S)], NEW p \in ActPorts, w[p] # <<>>
  PROVE  /\ Taken(w, p) \in [ActPorts -> Seq(S)] /\ Less(Taken(w, p), w)
         /\ Head(w[p]) \in S /\ 1 \in DOMAIN w[p] /\ Head(w[p]) = w[p][1]
<1>1. /\ Tail(w[p]) \in Seq(S) /\ Head(w[p]) \in S
      /\ 1 \in DOMAIN w[p] /\ Head(w[p]) = w[p][1]
      /\ \A k \in DOMAIN Tail(w[p]) : k + 1 \in DOMAIN w[p] /\ Tail(w[p])[k] = w[p][k + 1]
  BY TailIs
<1> QED  BY <1>1 DEF Less, Taken

LEMMA SendTyped ==
  ASSUME NEW S, NEW w \in [ActPorts -> Seq(S)], NEW p, NEW x \in S
  PROVE  /\ [w EXCEPT ![p] = Append(@, x)] \in [ActPorts -> Seq(S)]
         /\ \A q \in ActPorts : \A k \in DOMAIN [w EXCEPT ![p] = Append(@, x)][q] :
              \/ \E j \in DOMAIN w[q] : [w EXCEPT ![p] = Append(@, x)][q][k] = w[q][j]
              \/ [w EXCEPT ![p] = Append(@, x)][q][k] = x
<1>1. CASE p \in ActPorts
  <2>1. /\ Append(w[p], x) \in Seq(S)
        /\ \A k \in DOMAIN Append(w[p], x) :
             (\E j \in DOMAIN w[p] : Append(w[p], x)[k] = w[p][j]) \/ Append(w[p], x)[k] = x
    BY <1>1, AppendIs
  <2> QED  BY <1>1, <2>1
<1>2. CASE p \notin ActPorts
  BY <1>2
<1> QED  BY <1>1, <1>2

LEMMA LessSame == ASSUME NEW w  PROVE Less(w, w)
BY DEF Less

LEMMA LeastIs == ASSUME NEW S \in SUBSET Nat, S # {}  PROVE \E x \in S : \A y \in S : x <= y
<1>1. PICK x \in S : \A y \in S : ~ (<<y, x>> \in OpToRel(<, Nat))
  BY NatLessThanWellFounded, WFMin
<1>2. \A y \in S : x <= y
  <2> SUFFICES ASSUME NEW y \in S  PROVE x <= y
    OBVIOUS
  <2>1. ~ (y < x)
    BY <1>1 DEF OpToRel
  <2> QED  BY <2>1
<1> QED  BY <1>2

-----------------------------------------------------------------------------
(* What a step does to the variables, put together.                        *)

\* A step that sends nothing to the widget and hands it nothing.
LEMMA TouchKept ==
  ASSUME handled' = handled, Less(down', down)
  PROVE  \A a \in Actions : Untouched(a, handled, down) => Untouched(a, handled', down')
BY DEF Less, Untouched

\* The queue loses its head or everything; nothing else is touched.
LEMMA OrderKept ==
  ASSUME Typed, OrderOK,
         moves' = 0 =>
           /\ moves = 0 /\ frameOf' = frameOf
           /\ queue' = queue \/ queue' = <<>> \/ (queue # <<>> /\ queue' = Tail(queue))
           /\ \A a \in Actions : Untouched(a, handled, down) => Untouched(a, handled', down')
  PROVE  OrderOK'
<1> SUFFICES ASSUME moves' = 0
             PROVE  /\ \A i, j \in DOMAIN queue' : i < j => queue'[i] < queue'[j]
                    /\ \A k \in DOMAIN queue' : k > 1 => Untouched(queue'[k], handled', down')
                    /\ \A a \in Actions : a > Len(frameOf') => Untouched(a, handled', down')
  BY DEF OrderOK
<1>1. /\ \A i, j \in DOMAIN queue : i < j => queue[i] < queue[j]
      /\ \A k \in DOMAIN queue : k > 1 => Untouched(queue[k], handled, down)
      /\ \A a \in Actions : a > Len(frameOf) => Untouched(a, handled, down)
      /\ queue \in Seq(Actions)
      /\ \A k \in DOMAIN queue : queue[k] \in Actions
  BY DEF OrderOK, Typed, QueueTyped
<1>2. \A a \in Actions : a > Len(frameOf') => Untouched(a, handled', down')
  BY <1>1
<1>3. CASE queue' = queue
  BY <1>1, <1>2, <1>3
<1>4. CASE queue' = <<>>
  BY <1>2, <1>4
<1>5. CASE queue # <<>> /\ queue' = Tail(queue)
  <2>1. /\ DOMAIN queue = 1 .. Len(queue) /\ Len(queue) \in Nat
        /\ DOMAIN queue' = 1 .. Len(queue) - 1
        /\ \A k \in DOMAIN queue' : k + 1 \in DOMAIN queue /\ queue'[k] = queue[k + 1]
    BY <1>1, <1>5, TailIs
  <2>2. \A i, j \in DOMAIN queue' : i < j => queue'[i] < queue'[j]
    BY <1>1, <2>1
  <2>3. \A k \in DOMAIN queue' : k > 1 => Untouched(queue'[k], handled', down')
    <3> SUFFICES ASSUME NEW k \in DOMAIN queue', k > 1  PROVE Untouched(queue'[k], handled', down')
      OBVIOUS
    <3>1. k + 1 \in DOMAIN queue /\ queue'[k] = queue[k + 1] /\ k + 1 > 1
      BY <2>1
    <3>2. queue[k + 1] \in Actions /\ Untouched(queue[k + 1], handled, down)
      BY <1>1, <3>1
    <3> QED  BY <3>1, <3>2
  <2> QED  BY <1>2, <2>2, <2>3
<1> QED  BY <1>3, <1>4, <1>5

\* Nothing is answered, and what was answered stays as it was.
LEMMA AnswersKept ==
  ASSUME Typed, AnswersOK, Less(up', up), DrainTyped', up' \in [ActPorts -> Seq(Ack)],
         \A a \in Actions : handled[a] \in {"consumed", "rejected"} => handled'[a] = handled[a],
         /\ drain'.pc = "settled" /\ drain'.outcome \in {"consumed", "rejected"}
         => drain' = drain
  PROVE  AnswersOK'
<1>1. \A p \in ActPorts : \A k \in DOMAIN up[p] :
        /\ up[p][k].a \in Actions /\ up[p][k].outcome \in {"consumed", "rejected"}
        /\ up[p][k].outcome = handled[up[p][k].a]
  <2> SUFFICES ASSUME NEW p \in ActPorts, NEW k \in DOMAIN up[p]
               PROVE  /\ up[p][k].a \in Actions
                      /\ up[p][k].outcome \in {"consumed", "rejected"}
                      /\ up[p][k].outcome = handled[up[p][k].a]
    OBVIOUS
  <2>1. up[p] \in Seq(Ack)
    BY DEF Typed, WiresTyped
  <2>2. up[p][k] \in Ack
    BY <2>1
  <2> QED  BY <2>2 DEF AnswersOK, Ack
<1>2. \A p \in ActPorts : \A k \in DOMAIN up'[p] : up'[p][k].outcome = handled'[up'[p][k].a]
  BY <1>1 DEF Less
<1>3. AnswersFit'
  BY DEF AnswersFit, AnswersOK, Typed, DrainTyped, DrainIs
<1> QED  BY <1>2, <1>3 DEF AnswersOK

-----------------------------------------------------------------------------
(* The steps.                                                              *)

LEMMA SettleIs ==
  ASSUME NEW d, DrainIs(d), NEW o \in Outcomes
  PROVE  /\ DrainIs(Settle(d, o))
         /\ \/ Settle(d, o) = d
            \/ d.pc = "wait" /\ Settle(d, o).outcome = o
BY DEF Settle, DrainIs, Drain

LEMMA DeliveredIs ==
  ASSUME NEW d, DrainIs(d), PortsTyped', QueueTyped'
  PROVE  /\ DrainIs(Delivered(d))
         /\ Delivered(d) = d \/ Delivered(d).pc = "prepare"
BY DEF Delivered, Starting, NoDrain, DrainIs, Drain, Outcomes, PortsTyped, QueueTyped

LEMMA NoDrainIs == DrainIs(NoDrain)
BY DEF DrainIs, Drain, NoDrain, Outcomes

LEMMA EmptyIs == ASSUME NEW S  PROVE <<>> \in Seq(S) /\ DOMAIN <<>> = {}
OBVIOUS

\* The action is queued; it is younger than all that were asked for.
LEMMA AcceptKeeps ==
  ASSUME Typed, OrderOK, AnswersOK, Accept
  PROVE  Typed' /\ OrderOK' /\ AnswersOK'
<1>q. /\ queue \in Seq(Actions) /\ Len(frameOf) + 1 \in Actions
      /\ queue' = Append(queue, Len(frameOf) + 1)
      /\ frameOf' \in Seq(Frames) /\ Len(frameOf') = Len(frameOf) + 1 /\ Len(frameOf) \in Nat
  <2>1. Len(frameOf) \in Nat /\ Len(frameOf) < MaxActions /\ frameOf \in Seq(Frames)
    BY DEF Accept, Typed, QueueTyped
  <2>2. PICK f \in Frames : frameOf' = Append(frameOf, f)
    BY DEF Accept
  <2> QED  BY <2>1, <2>2 DEF Accept, Typed, QueueTyped, Actions
<1>a. /\ Append(queue, Len(frameOf) + 1) \in Seq(Actions)
      /\ DOMAIN queue = 1 .. Len(queue) /\ Len(queue) \in Nat
      /\ DOMAIN queue' = 1 .. Len(queue) + 1
      /\ \A k \in DOMAIN queue : queue'[k] = queue[k]
      /\ queue'[Len(queue) + 1] = Len(frameOf) + 1
  BY <1>q, AppendIs
<1>b. \A k \in DOMAIN queue : queue[k] \in Actions /\ queue[k] \in Nat /\ queue[k] <= Len(frameOf)
  BY <1>q DEF Typed, QueueTyped, Known, Actions
<1>1. PortsTyped'
  BY DEF Accept, Typed, PortsTyped, KeepWidget
<1>2. QueueTyped'
  <2>1. \A k \in DOMAIN queue' : queue'[k] <= Len(frameOf')
    BY <1>q, <1>a, <1>b
  <2>2. Len(frameOf') <= MaxActions /\ queueId' \in Nat
    BY <1>q DEF Accept, Typed, QueueTyped, Actions
  <2> QED  BY <1>q, <1>a, <2>1, <2>2 DEF QueueTyped, Known
<1>3. ScanTyped'
  <2>1. scan' = scan /\ moves' = moves
    BY DEF Accept
  <2>2. Known(scan.kept) => Known(scan.kept)'
    <3> SUFFICES ASSUME Known(scan.kept)
                 PROVE  \A k \in DOMAIN scan.kept : scan.kept[k] <= Len(frameOf')
      BY <2>1 DEF Known
    <3>1. scan.kept \in Seq(Actions)
      BY DEF Typed, ScanTyped, Scan
    <3>2. \A k \in DOMAIN scan.kept : scan.kept[k] \in Nat
      BY <3>1 DEF Actions
    <3> QED  BY <3>2, <1>q DEF Known
  <2> QED  BY <1>q, <2>1, <2>2 DEF Typed, ScanTyped, Scan, Actions
<1>4. DrainTyped'
  BY <1>1, <1>2, DeliveredIs DEF Accept, Typed, DrainTyped
<1>5. WiresTyped'
  BY DEF Accept, Typed, WiresTyped, KeepWires
<1>6. WidgetTyped'
  BY DEF Accept, Typed, WidgetTyped, KeepWidget, NoFault
<1>7. OrderOK'
  <2> SUFFICES ASSUME moves' = 0
               PROVE  /\ \A i, j \in DOMAIN queue' : i < j => queue'[i] < queue'[j]
                      /\ \A k \in DOMAIN queue' : k > 1 => Untouched(queue'[k], handled', down')
                      /\ \A a \in Actions : a > Len(frameOf') => Untouched(a, handled', down')
    BY DEF OrderOK
  <2>1. /\ \A i, j \in DOMAIN queue : i < j => queue[i] < queue[j]
        /\ \A k \in DOMAIN queue : k > 1 => Untouched(queue[k], handled, down)
        /\ \A a \in Actions : a > Len(frameOf) => Untouched(a, handled, down)
        /\ handled' = handled /\ down' = down
    BY DEF OrderOK, Accept, KeepWidget, KeepWires
  <2>2. \A i, j \in DOMAIN queue' : i < j => queue'[i] < queue'[j]
    BY <1>q, <1>a, <1>b, <2>1
  <2>3. Untouched(Len(frameOf) + 1, handled, down)
    BY <1>q, <2>1
  <2>4. \A k \in DOMAIN queue' : k > 1 => Untouched(queue'[k], handled', down')
    BY <1>a, <2>1, <2>3
  <2>5. \A a \in Actions : a > Len(frameOf') => Untouched(a, handled', down')
    BY <1>q, <2>1 DEF Actions
  <2> QED  BY <2>2, <2>4, <2>5
<1>8. AnswersOK'
  <2>1. drain' = drain \/ drain'.pc = "prepare"
    BY <1>1, <1>2, DeliveredIs DEF Accept, Typed, DrainTyped
  <2> QED  BY <2>1, <1>4, <1>5, AnswersKept, LessSame DEF WiresTyped, Accept, KeepWidget, KeepWires
<1> QED  BY <1>1, <1>2, <1>3, <1>4, <1>5, <1>6, <1>7, <1>8 DEF Typed

\* The first of the queue is handed over, or it is dropped.
LEMMA PrepareKeeps ==
  ASSUME Typed, OrderOK, AnswersOK, Prepare
  PROVE  Typed' /\ OrderOK' /\ AnswersOK'
<1>q. /\ queue \in Seq(Actions) /\ queue # <<>> /\ Head(queue) \in Actions /\ drain.pc = "prepare"
      /\ Head(queue) = queue[1] /\ 1 \in DOMAIN queue
      /\ Tail(queue) \in Seq(Actions) /\ DOMAIN queue = 1 .. Len(queue) /\ Len(queue) \in Nat
      /\ \A k \in DOMAIN Tail(queue) : k + 1 \in DOMAIN queue /\ Tail(queue)[k] = queue[k + 1]
  BY TailIs DEF Prepare, DrainCurrent, Typed, QueueTyped
<1>w. /\ [down EXCEPT ![actPort] = Append(@, Head(queue))] \in [ActPorts -> Seq(Actions)]
      /\ \A q \in ActPorts : \A k \in DOMAIN [down EXCEPT ![actPort] = Append(@, Head(queue))][q] :
           \/ \E j \in DOMAIN down[q] :
                [down EXCEPT ![actPort] = Append(@, Head(queue))][q][k] = down[q][j]
           \/ [down EXCEPT ![actPort] = Append(@, Head(queue))][q][k] = Head(queue)
  BY <1>q, SendTyped DEF Typed, WiresTyped
<1>1. PortsTyped'
  BY DEF Prepare, Typed, PortsTyped, KeepWidget
<1>2. QueueTyped'
  BY <1>q DEF Prepare, Typed, QueueTyped, Known, KeepScan
<1>3. ScanTyped'
  BY DEF Prepare, Typed, ScanTyped, Known, KeepScan
<1>4. DrainTyped'
  BY <1>q DEF Prepare, Typed, DrainTyped, DrainIs, Drain
<1>5. WiresTyped'
  BY <1>w DEF Prepare, Typed, WiresTyped, KeepWires
<1>6. WidgetTyped'
  BY DEF Prepare, Typed, WidgetTyped, KeepWidget, NoFault, ActFault
<1>7. OrderOK'
  <2>1. CASE queue' = Tail(queue) /\ KeepWires
    BY <2>1, <1>q, OrderKept, TouchKept, LessSame DEF Prepare, KeepWidget, KeepWires, KeepScan
  <2>2. CASE queue' = queue /\ down' = [down EXCEPT ![actPort] = Append(@, Head(queue))]
    <3> SUFFICES ASSUME moves' = 0
                 PROVE  /\ \A i, j \in DOMAIN queue' : i < j => queue'[i] < queue'[j]
                        /\ \A k \in DOMAIN queue' : k > 1 => Untouched(queue'[k], handled', down')
                        /\ \A a \in Actions : a > Len(frameOf') => Untouched(a, handled', down')
      BY DEF OrderOK
    <3>1. /\ \A i, j \in DOMAIN queue : i < j => queue[i] < queue[j]
          /\ \A k \in DOMAIN queue : k > 1 => Untouched(queue[k], handled, down)
          /\ \A a \in Actions : a > Len(frameOf) => Untouched(a, handled, down)
          /\ handled' = handled /\ frameOf' = frameOf
      BY DEF OrderOK, Prepare, KeepWidget, KeepScan
    <3>2. \A a : a # Head(queue) /\ Untouched(a, handled, down) => Untouched(a, handled', down')
      BY <1>w, <2>2, <3>1 DEF Untouched
    <3>3. \A k \in DOMAIN queue : queue[k] \in Nat /\ queue[k] <= Len(frameOf)
      BY <1>q DEF Typed, QueueTyped, Known, Actions
    <3>4. Len(frameOf) \in Nat
      BY DEF Typed, QueueTyped
    <3>5. \A k \in DOMAIN queue : k > 1 => queue[k] # Head(queue)
      BY <1>q, <3>1, <3>3
    <3>6. \A a \in Actions : a > Len(frameOf) => a # Head(queue)
      BY <1>q, <3>3, <3>4 DEF Actions
    <3> QED  BY <2>2, <3>1, <3>2, <3>5, <3>6
  <2> QED  BY <2>1, <2>2 DEF Prepare
<1>8. AnswersOK'
  <2>1. drain' = drain \/ drain'.pc = "wait"
    BY DEF Prepare, Typed, DrainTyped, DrainIs, Drain
  <2>2. up' = up /\ handled' = handled
    BY DEF Prepare, KeepWidget, KeepWires
  <2> QED  BY <2>1, <2>2, <1>4, <1>5, AnswersKept, LessSame DEF WiresTyped
<1> QED  BY <1>1, <1>2, <1>3, <1>4, <1>5, <1>6, <1>7, <1>8 DEF Typed

LEMMA DrainEndsKeeps ==
  ASSUME Typed, OrderOK, AnswersOK, DrainEnds
  PROVE  Typed' /\ OrderOK' /\ AnswersOK'
<1>1. PortsTyped'
  BY DEF DrainEnds, Typed, PortsTyped, KeepWidget
<1>2. QueueTyped'
  BY DEF DrainEnds, Typed, QueueTyped, Known, KeepScan
<1>3. ScanTyped'
  BY DEF DrainEnds, Typed, ScanTyped, Known, KeepScan
<1>4. DrainTyped'
  BY <1>1, <1>2, DeliveredIs, NoDrainIs DEF DrainEnds, DrainOver, DrainTyped
<1>5. WiresTyped'
  BY DEF DrainEnds, Typed, WiresTyped, KeepWires
<1>6. WidgetTyped'
  BY DEF DrainEnds, Typed, WidgetTyped, KeepWidget, NoFault
<1>7. OrderOK'
  BY OrderKept, TouchKept, LessSame DEF DrainEnds, KeepWidget, KeepScan, KeepWires
<1>8. AnswersOK'
  <2>1. drain' = NoDrain \/ drain'.pc = "prepare"
    BY <1>1, <1>2, DeliveredIs, NoDrainIs DEF DrainEnds, DrainOver
  <2>2. ~ (drain'.pc = "settled" /\ drain'.outcome \in {"consumed", "rejected"})
    BY <2>1 DEF NoDrain
  <2>3. up' = up /\ handled' = handled
    BY DEF DrainEnds, KeepWidget, KeepWires
  <2> QED  BY <2>2, <2>3, <1>4, <1>5, AnswersKept, LessSame DEF WiresTyped
<1> QED  BY <1>1, <1>2, <1>3, <1>4, <1>5, <1>6, <1>7, <1>8 DEF Typed

\* Wires that are kept, or cut, lose messages and gain none.
LEMMA CutWires ==
  ASSUME Typed,
         down' = down \/ down' = Cut(down, actPort), up' = up \/ up' = Cut(up, actPort)
  PROVE  /\ down' \in [ActPorts -> Seq(Actions)] /\ up' \in [ActPorts -> Seq(Ack)]
         /\ Less(down', down) /\ Less(up', up)
<1> PICK d, u, p : d = down /\ u = up /\ p = actPort  OBVIOUS
<1>1. d \in [ActPorts -> Seq(Actions)] /\ u \in [ActPorts -> Seq(Ack)]
  BY DEF Typed, WiresTyped
<1>2. Cut(d, p) \in [ActPorts -> Seq(Actions)] /\ Less(Cut(d, p), d)
  BY <1>1, CutTyped
<1>3. Cut(u, p) \in [ActPorts -> Seq(Ack)] /\ Less(Cut(u, p), u)
  BY <1>1, CutTyped
<1>4. Less(d, d) /\ Less(u, u)
  BY LessSame
<1>5. /\ down' \in [ActPorts -> Seq(Actions)] /\ Less(down', d)
  BY <1>1, <1>2, <1>4
<1>6. /\ up' \in [ActPorts -> Seq(Ack)] /\ Less(up', u)
  BY <1>1, <1>3, <1>4
<1> QED  BY <1>5, <1>6

\* The answer is taken; a refused action ends the surface.
LEMMA SettledKeeps ==
  ASSUME Typed, OrderOK, AnswersOK, Settled
  PROVE  Typed' /\ OrderOK' /\ AnswersOK'
<1>w. /\ down' \in [ActPorts -> Seq(Actions)] /\ up' \in [ActPorts -> Seq(Ack)]
      /\ Less(down', down) /\ Less(up', up)
  <2>1. /\ down' = down \/ down' = Cut(down, actPort)
        /\ up' = up \/ up' = Cut(up, actPort)
    BY DEF Settled
  <2> QED  BY <2>1, CutWires
<1>q. queue' = queue \/ queue' = <<>> \/ (queue # <<>> /\ queue' = Tail(queue))
  BY DEF Settled, IsHead, DrainCurrent
<1>1. PortsTyped'
  BY DEF Settled, Typed, PortsTyped, KeepWidget
<1>2. QueueTyped'
  <2>1. queue \in Seq(Actions) /\ Known(queue) /\ frameOf' = frameOf /\ queueId' = queueId
    BY DEF Typed, QueueTyped, Settled, KeepScan
  <2>2. queue' \in Seq(Actions) /\ \A k \in DOMAIN queue' : \E j \in DOMAIN queue : queue'[k] = queue[j]
    <3>1. CASE queue' = queue
      BY <2>1, <3>1
    <3>2. CASE queue' = <<>>
      BY <3>2, EmptyIs
    <3>3. CASE queue # <<>> /\ queue' = Tail(queue)
      BY <2>1, <3>3, TailIs
    <3> QED  BY <1>q, <3>1, <3>2, <3>3
  <2> QED  BY <2>1, <2>2 DEF Typed, QueueTyped, Known
<1>3. ScanTyped'
  BY DEF Settled, Typed, ScanTyped, Known, KeepScan
<1>4. DrainTyped'
  <2>1. CASE drain' = DrainOver
    BY <2>1, <1>1, <1>2, DeliveredIs, NoDrainIs DEF DrainOver, DrainTyped
  <2>2. CASE drain' = [drain EXCEPT !.pc = "prepare", !.a = 0, !.outcome = "none"]
    BY <2>2 DEF Typed, DrainTyped, DrainIs, Drain, Outcomes
  <2> QED  BY <2>1, <2>2 DEF Settled
<1>5. WiresTyped'
  BY <1>w DEF WiresTyped
<1>6. WidgetTyped'
  BY DEF Settled, Typed, WidgetTyped, KeepWidget, NoFault
<1>7. OrderOK'
  BY <1>w, <1>q, OrderKept, TouchKept DEF Settled, KeepWidget, KeepScan
<1>8. AnswersOK'
  <2>1. drain' = NoDrain \/ drain'.pc = "prepare"
    <3>1. CASE drain' = DrainOver
      BY <3>1, <1>1, <1>2, DeliveredIs, NoDrainIs DEF DrainOver
    <3>2. CASE drain' = [drain EXCEPT !.pc = "prepare", !.a = 0, !.outcome = "none"]
      BY <3>2 DEF Typed, DrainTyped, DrainIs, Drain
    <3> QED  BY <3>1, <3>2 DEF Settled
  <2> QED  BY <2>1, <1>w, <1>4, AnswersKept DEF NoDrain, Settled, KeepWidget
<1> QED  BY <1>1, <1>2, <1>3, <1>4, <1>5, <1>6, <1>7, <1>8 DEF Typed

LEMMA AckTimeoutKeeps ==
  ASSUME Typed, OrderOK, AnswersOK, AckTimeout
  PROVE  Typed' /\ OrderOK' /\ AnswersOK'
<1>w. /\ down' \in [ActPorts -> Seq(Actions)] /\ up' \in [ActPorts -> Seq(Ack)]
      /\ Less(down', down) /\ Less(up', up)
  <2>1. PICK p : down' = Cut(down, p) /\ up' = Cut(up, p)
    BY DEF AckTimeout, LosesPort
  <2> QED  BY <2>1, CutTyped DEF Typed, WiresTyped
<1>d. /\ DrainIs(drain')
      /\ drain' = drain \/ drain'.outcome = "retry"
  BY SettleIs DEF AckTimeout, Typed, DrainTyped, Outcomes
<1>1. PortsTyped'
  BY DEF AckTimeout, Typed, PortsTyped, KeepWidget, LosesPort
<1>2. QueueTyped'
  BY DEF AckTimeout, Typed, QueueTyped, Known, KeepScan
<1>3. ScanTyped'
  BY DEF AckTimeout, Typed, ScanTyped, Known, KeepScan
<1>4. DrainTyped'
  BY <1>d DEF DrainTyped
<1>5. WiresTyped'
  BY <1>w DEF WiresTyped
<1>6. WidgetTyped'
  BY DEF AckTimeout, Typed, WidgetTyped, KeepWidget, NoFault, ActFault
<1>7. OrderOK'
  BY <1>w, OrderKept, TouchKept DEF AckTimeout, KeepWidget, KeepScan
<1>8. AnswersOK'
  BY <1>w, <1>d, <1>4, AnswersKept DEF AckTimeout, KeepWidget
<1> QED  BY <1>1, <1>2, <1>3, <1>4, <1>5, <1>6, <1>7, <1>8 DEF Typed

LEMMA PortLostKeeps ==
  ASSUME Typed, OrderOK, AnswersOK, PortLost
  PROVE  Typed' /\ OrderOK' /\ AnswersOK'
<1>w. /\ down' \in [ActPorts -> Seq(Actions)] /\ up' \in [ActPorts -> Seq(Ack)]
      /\ Less(down', down) /\ Less(up', up)
  <2>1. PICK p : down' = Cut(down, p) /\ up' = Cut(up, p)
    BY DEF PortLost, LosesPort
  <2> QED  BY <2>1, CutTyped DEF Typed, WiresTyped
<1>d. /\ DrainIs(drain')
      /\ drain' = drain \/ drain'.outcome = "retry"
  BY SettleIs DEF PortLost, Typed, DrainTyped, Outcomes
<1>1. PortsTyped'
  BY DEF PortLost, Typed, PortsTyped, KeepWidget, KeepHanding, LosesPort
<1>2. QueueTyped'
  BY DEF PortLost, Typed, QueueTyped, Known, KeepScan, KeepHanding
<1>3. ScanTyped'
  BY DEF PortLost, Typed, ScanTyped, Known, KeepScan
<1>4. DrainTyped'
  BY <1>d DEF DrainTyped
<1>5. WiresTyped'
  BY <1>w DEF WiresTyped
<1>6. WidgetTyped'
  BY DEF PortLost, Typed, WidgetTyped, KeepWidget, NoFault, ActFault
<1>7. OrderOK'
  BY <1>w, OrderKept, TouchKept DEF PortLost, KeepWidget, KeepScan
<1>8. AnswersOK'
  BY <1>w, <1>d, <1>4, AnswersKept DEF PortLost, KeepWidget
<1> QED  BY <1>1, <1>2, <1>3, <1>4, <1>5, <1>6, <1>7, <1>8 DEF Typed

LEMMA SeesPortClosedKeeps ==
  ASSUME Typed, OrderOK, AnswersOK, SeesPortClosed
  PROVE  Typed' /\ OrderOK' /\ AnswersOK'
<1>1. PortsTyped'
  BY DEF SeesPortClosed, Typed, PortsTyped, KeepHanding
<1>2. QueueTyped'
  BY DEF SeesPortClosed, Typed, QueueTyped, Known, KeepScan, KeepHanding
<1>3. ScanTyped'
  BY DEF SeesPortClosed, Typed, ScanTyped, Known, KeepScan
<1>4. DrainTyped'
  BY DEF SeesPortClosed, Typed, DrainTyped, KeepHanding
<1>5. WiresTyped'
  BY DEF SeesPortClosed, Typed, WiresTyped, KeepWires
<1>6. WidgetTyped'
  BY DEF SeesPortClosed, Typed, WidgetTyped, NoFault
<1>7. OrderOK'
  BY OrderKept, TouchKept, LessSame DEF SeesPortClosed, KeepScan, KeepHanding,
     KeepWires
<1>8. AnswersOK'
  BY <1>4, <1>5, AnswersKept, LessSame DEF WiresTyped, SeesPortClosed, KeepWires,
     KeepHanding
<1> QED  BY <1>1, <1>2, <1>3, <1>4, <1>5, <1>6, <1>7, <1>8 DEF Typed

\* The port takes the place of the one before, whose action is settled for a retry.
LEMMA RetainKeeps ==
  ASSUME Typed, OrderOK, AnswersOK, Retain
  PROVE  Typed' /\ OrderOK' /\ AnswersOK'
<1>w. /\ down' \in [ActPorts -> Seq(Actions)] /\ up' \in [ActPorts -> Seq(Ack)]
      /\ Less(down', down) /\ Less(up', up)
  <2>1. /\ down' = down \/ down' = Cut(down, actPort)
        /\ up' = up \/ up' = Cut(up, actPort)
    BY DEF Retain, KeepWires
  <2> QED  BY <2>1, CutWires
<1>1. PortsTyped'
  BY DEF Retain, Typed, PortsTyped, KeepHanding
<1>2. QueueTyped'
  BY DEF Retain, Typed, QueueTyped, Known, KeepScan, KeepHanding
<1>3. ScanTyped'
  BY DEF Retain, Typed, ScanTyped, Known, KeepScan
<1>4. DrainTyped'
  <2>1. DrainIs(drain) /\ DrainIs(Settle(drain, "retry"))
    BY SettleIs DEF Typed, DrainTyped, Outcomes
  <2>2. CASE drain' = Delivered(IF drain.port = actPort THEN Settle(drain, "retry") ELSE drain)
    BY <2>1, <2>2, <1>1, <1>2, DeliveredIs DEF DrainTyped
  <2> QED  BY <2>1, <2>2 DEF Retain, KeepHanding, DrainTyped
<1>5. WiresTyped'
  BY <1>w DEF WiresTyped
<1>6. WidgetTyped'
  BY DEF Retain, Typed, WidgetTyped, NoFault, ActFault
<1>7. OrderOK'
  BY <1>w, OrderKept, TouchKept DEF Retain, KeepHanding, KeepScan
<1>8. AnswersOK'
  <2>1. /\ DrainIs(drain) /\ DrainIs(Settle(drain, "retry"))
        /\ Settle(drain, "retry") = drain \/ Settle(drain, "retry").outcome = "retry"
    BY SettleIs DEF Typed, DrainTyped, Outcomes
  <2>2. drain' = drain \/ drain'.pc = "prepare" \/ drain'.outcome = "retry"
    <3>1. CASE drain' = Delivered(IF drain.port = actPort THEN Settle(drain, "retry") ELSE drain)
      BY <2>1, <3>1, <1>1, <1>2, DeliveredIs
    <3> QED  BY <3>1 DEF Retain, KeepHanding
  <2> QED  BY <2>2, <1>w, <1>4, AnswersKept DEF Retain
<1> QED  BY <1>1, <1>2, <1>3, <1>4, <1>5, <1>6, <1>7, <1>8 DEF Typed

\* What was queued is gone.
LEMMA GoesDormantKeeps ==
  ASSUME Typed, OrderOK, AnswersOK, GoesDormant
  PROVE  Typed' /\ OrderOK' /\ AnswersOK'
<1>w. /\ down' \in [ActPorts -> Seq(Actions)] /\ up' \in [ActPorts -> Seq(Ack)]
      /\ Less(down', down) /\ Less(up', up)
  <2>1. CASE UNCHANGED <<newPort, down, up>>
    BY <2>1, LessSame DEF Typed, WiresTyped
  <2>2. CASE /\ down' = [p \in ActPorts |-> <<>>]
             /\ up' = [p \in ActPorts |-> <<>>]
    BY <2>2, EmptyIs DEF Less
  <2> QED  BY <2>1, <2>2 DEF GoesDormant
<1>d. /\ DrainIs(drain')
      /\ drain' = drain \/ drain'.outcome = "dropped" \/ drain'.pc = "none"
  <2>1. drain' = Settle(drain, "dropped") \/ drain' = NoDrain
    BY DEF GoesDormant
  <2>2. DrainIs(drain) /\ "dropped" \in Outcomes
    BY DEF Typed, DrainTyped, Outcomes
  <2>3. CASE drain' = Settle(drain, "dropped")
    BY <2>2, <2>3, SettleIs
  <2>4. CASE drain' = NoDrain
    BY <2>4, NoDrainIs DEF NoDrain
  <2> QED  BY <2>1, <2>3, <2>4
<1>1. PortsTyped'
  BY DEF GoesDormant, Typed, PortsTyped
<1>2. QueueTyped'
  BY EmptyIs DEF GoesDormant, Typed, QueueTyped, Known, KeepScan
<1>3. ScanTyped'
  BY DEF GoesDormant, Typed, ScanTyped, Known, KeepScan
<1>4. DrainTyped'
  BY <1>d DEF DrainTyped
<1>5. WiresTyped'
  BY <1>w DEF WiresTyped
<1>6. WidgetTyped'
  BY DEF GoesDormant, Typed, WidgetTyped, ActFault
<1>7. OrderOK'
  BY <1>w, OrderKept, TouchKept DEF GoesDormant, KeepScan
<1>8. AnswersOK'
  BY <1>w, <1>d, <1>4, AnswersKept DEF GoesDormant
<1> QED  BY <1>1, <1>2, <1>3, <1>4, <1>5, <1>6, <1>7, <1>8 DEF Typed

\* The widget opens a port that nothing is left of.
LEMMA ConnectKeeps ==
  ASSUME Typed, OrderOK, AnswersOK, Connect
  PROVE  Typed' /\ OrderOK' /\ AnswersOK'
<1>p. widgetPort' \in ActPorts /\ newPort' \in ActPorts /\ acked' \subseteq acked
  <2>1. FreePorts \in SUBSET Nat /\ FreePorts # {} /\ FreePorts \subseteq ActPorts
    BY DEF Connect, FreePorts, ActPorts
  <2>2. \E p \in FreePorts : \A g \in FreePorts : p <= g
    BY <2>1, LeastIs
  <2> QED  BY <2>1, <2>2 DEF Connect
<1>1. PortsTyped'
  BY <1>p DEF Connect, Typed, PortsTyped
<1>2. QueueTyped'
  BY DEF Connect, Typed, QueueTyped, Known, KeepScan
<1>3. ScanTyped'
  BY DEF Connect, Typed, ScanTyped, Known, KeepScan
<1>4. DrainTyped'
  BY DEF Connect, Typed, DrainTyped
<1>5. WiresTyped'
  BY DEF Connect, Typed, WiresTyped, KeepWires
<1>6. WidgetTyped'
  BY <1>p DEF Connect, Typed, WidgetTyped, NoFault
<1>7. OrderOK'
  BY OrderKept, TouchKept, LessSame DEF Connect, KeepScan, KeepWires
<1>8. AnswersOK'
  BY <1>4, <1>5, AnswersKept, LessSame DEF WiresTyped, Connect, KeepWires
<1> QED  BY <1>1, <1>2, <1>3, <1>4, <1>5, <1>6, <1>7, <1>8 DEF Typed

\* An acknowledgement is taken: it is of the action that was handed over.
LEMMA AcknowledgedKeeps ==
  ASSUME Typed, OrderOK, AnswersOK, NEW p \in ActPorts, Acknowledged(p)
  PROVE  Typed' /\ OrderOK' /\ AnswersOK'
<1>w. /\ up' = [up EXCEPT ![p] = Tail(@)] /\ up' \in [ActPorts -> Seq(Ack)] /\ Less(up', up)
      /\ Head(up[p]) \in Ack /\ 1 \in DOMAIN up[p] /\ Head(up[p]) = up[p][1]
  <2>1. up \in [ActPorts -> Seq(Ack)] /\ up[p] # <<>> /\ up' = [up EXCEPT ![p] = Tail(@)]
    BY DEF Acknowledged, Typed, WiresTyped
  <2>2. /\ Taken(up, p) \in [ActPorts -> Seq(Ack)] /\ Less(Taken(up, p), up)
        /\ Head(up[p]) \in Ack /\ 1 \in DOMAIN up[p] /\ Head(up[p]) = up[p][1]
    BY <2>1, TakeTyped
  <2> QED  BY <2>1, <2>2 DEF Taken
<1>d. DrainIs(drain) /\ Head(up[p]).outcome \in Outcomes
  BY <1>w DEF Typed, DrainTyped, Ack, Outcomes
<1>1. PortsTyped'
  BY DEF Acknowledged, Typed, PortsTyped, KeepWidget
<1>2. QueueTyped'
  BY DEF Acknowledged, Typed, QueueTyped, Known, KeepScan
<1>3. ScanTyped'
  BY DEF Acknowledged, Typed, ScanTyped, Known, KeepScan
<1>4. DrainTyped'
  BY <1>d, SettleIs DEF Acknowledged, DrainTyped
<1>5. WiresTyped'
  BY <1>w DEF Acknowledged, Typed, WiresTyped
<1>6. WidgetTyped'
  BY DEF Acknowledged, Typed, WidgetTyped, KeepWidget, NoFault
<1>7. OrderOK'
  BY <1>w, OrderKept, TouchKept, LessSame DEF Acknowledged, KeepWidget, KeepScan
<1>8. AnswersOK'
  <2>1. handled' = handled
    BY DEF Acknowledged, KeepWidget
  <2>2. CASE drain' = drain
    BY <2>1, <2>2, <1>w, <1>4, AnswersKept
  <2>3. CASE AckFits(p, Head(up[p]).a) /\ drain' = Settle(drain, Head(up[p]).outcome)
    <3>1. drain'.a = Head(up[p]).a /\ drain'.outcome = Head(up[p]).outcome
      BY <2>3, <1>d DEF AckFits, Settle, DrainIs, Drain
    <3>2. up[p][1].outcome = handled[up[p][1].a]
      BY <1>w DEF AnswersOK
    <3>3. AnswersFit'
      BY <2>1, <3>1, <3>2, <1>w DEF AnswersFit
    <3>4. \A q \in ActPorts : \A k \in DOMAIN up'[q] : up'[q][k].outcome = handled'[up'[q][k].a]
      BY <2>1, <1>w DEF Less, AnswersOK
    <3> QED  BY <3>3, <3>4 DEF AnswersOK
  <2> QED  BY <2>2, <2>3 DEF Acknowledged
<1> QED  BY <1>1, <1>2, <1>3, <1>4, <1>5, <1>6, <1>7, <1>8 DEF Typed

\* The action reaches the widget, once more or for the first time.
LEMMA ReceiveKeeps ==
  ASSUME Typed, OrderOK, AnswersOK, NEW p \in ActPorts, Receive(p)
  PROVE  Typed' /\ OrderOK' /\ AnswersOK'
<1>w. /\ down' = [down EXCEPT ![p] = Tail(@)] /\ down' \in [ActPorts -> Seq(Actions)]
      /\ Less(down', down)
      /\ Head(down[p]) \in Actions /\ 1 \in DOMAIN down[p] /\ Head(down[p]) = down[p][1]
  <2>1. down \in [ActPorts -> Seq(Actions)] /\ down[p] # <<>> /\ down' = [down EXCEPT ![p] = Tail(@)]
    BY DEF Receive, Typed, WiresTyped
  <2>2. /\ Taken(down, p) \in [ActPorts -> Seq(Actions)] /\ Less(Taken(down, p), down)
        /\ Head(down[p]) \in Actions /\ 1 \in DOMAIN down[p] /\ Head(down[p]) = down[p][1]
    BY <2>1, TakeTyped
  <2> QED  BY <2>1, <2>2 DEF Taken
<1>h. /\ handled' \in [Actions -> {"none", "running", "consumed", "rejected"}]
      /\ \A a \in Actions : handled[a] \in {"consumed", "rejected"} => handled'[a] = handled[a]
      /\ \A a \in Actions : a # Head(down[p]) => handled'[a] = handled[a]
  BY <1>w DEF Receive, Typed, WidgetTyped
<1>1. PortsTyped'
  BY DEF Receive, Typed, PortsTyped, KeepHanding
<1>2. QueueTyped'
  BY DEF Receive, Typed, QueueTyped, Known, KeepScan, KeepHanding
<1>3. ScanTyped'
  BY DEF Receive, Typed, ScanTyped, Known, KeepScan
<1>4. DrainTyped'
  BY DEF Receive, Typed, DrainTyped, KeepHanding
<1>5. WiresTyped'
  BY <1>w DEF Receive, Typed, WiresTyped
<1>6. WidgetTyped'
  BY <1>w, <1>h DEF Receive, Typed, WidgetTyped, PortsTyped, NoFault
<1>7. OrderOK'
  <2>1. \A a \in Actions : Untouched(a, handled, down) => Untouched(a, handled', down')
    BY <1>w, <1>h DEF Untouched, Less
  <2> QED  BY <2>1, OrderKept DEF Receive, KeepScan, KeepHanding
<1>8. AnswersOK'
  BY <1>h, <1>4, <1>5, AnswersKept, LessSame DEF WiresTyped, Receive, KeepHanding
<1> QED  BY <1>1, <1>2, <1>3, <1>4, <1>5, <1>6, <1>7, <1>8 DEF Typed

\* The widget is done with the action.
LEMMA CarryOutKeeps ==
  ASSUME Typed, OrderOK, AnswersOK, NEW a \in Actions, CarryOut(a)
  PROVE  Typed' /\ OrderOK' /\ AnswersOK'
<1>h. /\ handled' \in [Actions -> {"none", "running", "consumed", "rejected"}]
      /\ \A b \in Actions : handled[b] \in {"none", "consumed", "rejected"} => handled'[b] = handled[b]
  BY DEF CarryOut, Typed, WidgetTyped
<1>1. PortsTyped'
  BY DEF CarryOut, Typed, PortsTyped, KeepHanding
<1>2. QueueTyped'
  BY DEF CarryOut, Typed, QueueTyped, Known, KeepScan, KeepHanding
<1>3. ScanTyped'
  BY DEF CarryOut, Typed, ScanTyped, Known, KeepScan
<1>4. DrainTyped'
  BY DEF CarryOut, Typed, DrainTyped, KeepHanding
<1>5. WiresTyped'
  BY DEF CarryOut, Typed, WiresTyped, KeepWires
<1>6. WidgetTyped'
  BY <1>h DEF CarryOut, Typed, WidgetTyped, NoFault, ActFault
<1>7. OrderOK'
  <2>1. \A b \in Actions : Untouched(b, handled, down) => Untouched(b, handled', down')
    BY <1>h DEF Untouched, CarryOut, KeepWires
  <2> QED  BY <2>1, OrderKept DEF CarryOut, KeepScan, KeepHanding
<1>8. AnswersOK'
  BY <1>h, <1>4, <1>5, AnswersKept, LessSame DEF WiresTyped, CarryOut, KeepHanding,
     KeepWires
<1> QED  BY <1>1, <1>2, <1>3, <1>4, <1>5, <1>6, <1>7, <1>8 DEF Typed

\* The widget says what it made of the action.
LEMMA AcknowledgeKeeps ==
  ASSUME Typed, OrderOK, AnswersOK, NEW a \in Actions, NEW p \in ActPorts, Acknowledge(a, p)
  PROVE  Typed' /\ OrderOK' /\ AnswersOK'
<1> DEFINE ack == [a |-> a, outcome |-> handled[a]]
<1>w. /\ up' = up \/ up' = [up EXCEPT ![p] = Append(@, ack)]
      /\ ack \in Ack /\ ack.a = a /\ ack.outcome = handled[a]
  BY DEF Acknowledge, Ack
<1>u. /\ up' \in [ActPorts -> Seq(Ack)]
      /\ \A q \in ActPorts : \A k \in DOMAIN up'[q] :
           (\E j \in DOMAIN up[q] : up'[q][k] = up[q][j]) \/ up'[q][k] = ack
  <2>1. up \in [ActPorts -> Seq(Ack)]
    BY DEF Typed, WiresTyped
  <2> HIDE DEF ack
  <2>2. CASE up' = up
    BY <2>1, <2>2
  <2>3. CASE up' = [up EXCEPT ![p] = Append(@, ack)]
    BY <1>w, <2>1, <2>3, SendTyped
  <2> QED  BY <1>w, <2>2, <2>3
<1> HIDE DEF ack
<1>1. PortsTyped'
  BY DEF Acknowledge, Typed, PortsTyped, KeepHanding
<1>2. QueueTyped'
  BY DEF Acknowledge, Typed, QueueTyped, Known, KeepScan, KeepHanding
<1>3. ScanTyped'
  BY DEF Acknowledge, Typed, ScanTyped, Known, KeepScan
<1>4. DrainTyped'
  BY DEF Acknowledge, Typed, DrainTyped, KeepHanding
<1>5. WiresTyped'
  BY <1>u DEF Acknowledge, Typed, WiresTyped
<1>6. WidgetTyped'
  BY DEF Acknowledge, Typed, WidgetTyped, NoFault
<1>7. OrderOK'
  BY OrderKept, TouchKept, LessSame DEF Acknowledge, KeepScan, KeepHanding
<1>8. AnswersOK'
  <2>1. handled' = handled /\ drain' = drain
    BY DEF Acknowledge, KeepHanding
  <2>2. \A q \in ActPorts : \A k \in DOMAIN up'[q] : up'[q][k].outcome = handled'[up'[q][k].a]
    BY <2>1, <1>w, <1>u DEF AnswersOK
  <2>3. AnswersFit'
    BY <2>1 DEF AnswersOK, AnswersFit
  <2> QED  BY <2>2, <2>3 DEF AnswersOK
<1> QED  BY <1>1, <1>2, <1>3, <1>4, <1>5, <1>6, <1>7, <1>8 DEF Typed

\* A navigation looks through the queue, up to the next marker it asks for.
LEMMA LooksKeeps ==
  ASSUME Typed, NEW k \in Nat \ {0}, NEW frame \in Frames \cup {0}, NEW kept \in Seq(Actions), NEW id \in Nat,
         \A i \in DOMAIN kept : kept[i] <= Len(frameOf),
         Looks(k, frame, kept, id), frameOf' = frameOf, moves' \in 1 .. MaxMoves
  PROVE  /\ QueueTyped' /\ ScanTyped' /\ DrainTyped'
         /\ drain' = drain \/ drain'.outcome = "dropped"
<1> DEFINE array == IF queueId = id THEN queue ELSE <<>>
           others == {n \in k .. Len(array) : frameOf[array[n]] # frame}
           n == CHOOSE m \in others : \A o \in others : m <= o
           keptSet == {kept[m] : m \in DOMAIN kept}
<1>1. /\ queue \in Seq(Actions) /\ queueId \in Nat
      /\ \A i \in DOMAIN queue : queue[i] <= Len(frameOf)
      /\ frameOf \in Seq(Frames) /\ Len(frameOf) <= MaxActions
  BY DEF Typed, QueueTyped, Known
<1>2. array \in Seq(Actions) /\ \A i \in DOMAIN array : array[i] <= Len(frameOf)
  BY <1>1, EmptyIs
<1>3. DrainIs(drain) /\ "dropped" \in Outcomes
  BY DEF Typed, DrainTyped, Outcomes
<1>4. CASE others # {}
  <2>1. /\ scan' = [pc |-> "asked", id |-> id, frame |-> frame, at |-> n, a |-> array[n],
                    kept |-> kept]
        /\ UNCHANGED <<queue, queueId, drain>>
    BY <1>4 DEF Looks
  <2>2. n \in others /\ n \in Nat /\ n <= Len(array) /\ n \in DOMAIN array
    <3>1. Len(array) \in Nat /\ DOMAIN array = 1 .. Len(array)
      BY <1>2
    <3>2. others \in SUBSET Nat
      BY <3>1
    <3>3. \E m \in others : \A o \in others : m <= o
      <4> HIDE DEF others
      <4> QED  BY <1>4, <3>2, LeastIs
    <3>4. n \in others
      BY <3>3
    <3> QED  BY <3>1, <3>2, <3>4
  <2>3. PICK a \in Actions : a = array[n] /\ a <= Len(frameOf)
    <3> HIDE DEF n, others, array
    <3> QED  BY <1>2, <2>2
  <2> HIDE DEF n, others, array
  <2>4. ScanTyped'
    BY <2>1, <2>2, <2>3 DEF ScanTyped, Scan, Known
  <2>5. QueueTyped'
    BY <1>1, <2>1 DEF QueueTyped, Known
  <2> QED  BY <2>1, <2>4, <2>5, <1>3 DEF DrainTyped
<1>5. CASE others = {}
  <2>1. /\ scan' = NoScan
        /\ \/ UNCHANGED <<queue, queueId, drain>>
           \/ /\ queue' = kept /\ queueId' = queueId + 1
              /\ drain' = IF drain.a \in keptSet THEN drain ELSE Settle(drain, "dropped")
    BY <1>5 DEF Looks
  <2> HIDE DEF keptSet, others, array
  <2>2. ScanTyped'
    BY <2>1, EmptyIs DEF ScanTyped, Scan, NoScan, Known
  <2>3. QueueTyped'
    BY <1>1, <2>1 DEF QueueTyped, Known
  <2>4. DrainTyped' /\ (drain' = drain \/ drain'.outcome = "dropped")
    BY <2>1, <1>3, SettleIs DEF DrainTyped
  <2> QED  BY <2>2, <2>3, <2>4
<1> QED  BY <1>4, <1>5

LEMMA FrameMovesKeeps ==
  ASSUME Typed, OrderOK, AnswersOK, NEW f \in Frames, FrameMoves(f)
  PROVE  Typed' /\ OrderOK' /\ AnswersOK'
<1>l. /\ QueueTyped' /\ ScanTyped' /\ DrainTyped'
      /\ drain' = drain \/ drain'.outcome = "dropped"
      /\ moves' \in 1 .. MaxMoves
  <2>1. queueId \in Nat /\ moves' \in 1 .. MaxMoves /\ frameOf' = frameOf
    BY DEF FrameMoves, Typed, QueueTyped, ScanTyped
  <2>2. PICK id \in Nat : id = queueId
    BY <2>1
  <2>3. Looks(1, f, <<>>, id)
    BY <2>2 DEF FrameMoves
  <2>4. PICK kept \in Seq(Actions) : kept = <<>>
    BY EmptyIs
  <2>5. Looks(1, f, kept, id) /\ \A i \in DOMAIN kept : kept[i] <= Len(frameOf)
    BY <2>3, <2>4
  <2>6. 1 \in Nat \ {0} /\ f \in Frames \cup {0}
    OBVIOUS
  <2> QED  BY <2>1, <2>5, <2>6, LooksKeeps
<1>1. PortsTyped'
  BY DEF FrameMoves, Typed, PortsTyped, KeepWidget
<1>2. QueueTyped'
  BY <1>l
<1>3. ScanTyped'
  BY <1>l
<1>4. DrainTyped'
  BY <1>l
<1>5. WiresTyped'
  BY DEF FrameMoves, Typed, WiresTyped, KeepWires
<1>6. WidgetTyped'
  BY DEF FrameMoves, Typed, WidgetTyped, KeepWidget, NoFault
<1>7. OrderOK'
  BY <1>l DEF OrderOK
<1>8. AnswersOK'
  BY <1>l, <1>4, <1>5, AnswersKept, LessSame DEF WiresTyped, FrameMoves, KeepWidget,
     KeepWires
<1> QED  BY <1>1, <1>2, <1>3, <1>4, <1>5, <1>6, <1>7, <1>8 DEF Typed

\* The marker is shown or it is not; the navigation looks further.
LEMMA AskedKeeps ==
  ASSUME Typed, OrderOK, AnswersOK, Asked
  PROVE  Typed' /\ OrderOK' /\ AnswersOK'
<1>l. /\ QueueTyped' /\ ScanTyped' /\ DrainTyped'
      /\ drain' = drain \/ drain'.outcome = "dropped"
      /\ moves' \in 1 .. MaxMoves
  <2>1. /\ scan.at \in Nat /\ scan.frame \in Frames \cup {0} /\ scan.id \in Nat
        /\ scan.kept \in Seq(Actions) /\ Known(scan.kept)
        /\ scan.a \in Actions /\ scan.a <= Len(frameOf)
        /\ moves' \in 1 .. MaxMoves /\ frameOf' = frameOf
    BY DEF Asked, Typed, ScanTyped, Scan
  <2>2. PICK k \in Nat \ {0} : k = scan.at + 1
    BY <2>1
  <2>3. PICK frame \in Frames \cup {0} : frame = scan.frame
    BY <2>1
  <2>4. PICK id \in Nat : id = scan.id
    BY <2>1
  <2>5. /\ Append(scan.kept, scan.a) \in Seq(Actions)
        /\ \A i \in DOMAIN Append(scan.kept, scan.a) : Append(scan.kept, scan.a)[i] <= Len(frameOf)
    BY <2>1, AppendIs DEF Known
  <2>6. CASE Looks(k, frame, scan.kept, id)
    <3>1. PICK kept \in Seq(Actions) : kept = scan.kept
      BY <2>1
    <3>2. Looks(k, frame, kept, id) /\ \A i \in DOMAIN kept : kept[i] <= Len(frameOf)
      BY <2>1, <2>6, <3>1 DEF Known
    <3> QED  BY <2>1, <3>2, LooksKeeps
  <2>7. CASE Looks(k, frame, Append(scan.kept, scan.a), id)
    <3>1. PICK kept \in Seq(Actions) : kept = Append(scan.kept, scan.a)
      BY <2>5
    <3>2. Looks(k, frame, kept, id) /\ \A i \in DOMAIN kept : kept[i] <= Len(frameOf)
      BY <2>5, <2>7, <3>1
    <3> QED  BY <2>1, <3>2, LooksKeeps
  <2> QED  BY <2>2, <2>3, <2>4, <2>6, <2>7 DEF Asked
<1>1. PortsTyped'
  BY DEF Asked, Typed, PortsTyped, KeepWidget
<1>2. QueueTyped'
  BY <1>l
<1>3. ScanTyped'
  BY <1>l
<1>4. DrainTyped'
  BY <1>l
<1>5. WiresTyped'
  BY DEF Asked, Typed, WiresTyped, KeepWires
<1>6. WidgetTyped'
  BY DEF Asked, Typed, WidgetTyped, KeepWidget, NoFault, ActFault
<1>7. OrderOK'
  BY <1>l DEF OrderOK
<1>8. AnswersOK'
  BY <1>l, <1>4, <1>5, AnswersKept, LessSame DEF WiresTyped, Asked, KeepWidget,
     KeepWires
<1> QED  BY <1>1, <1>2, <1>3, <1>4, <1>5, <1>6, <1>7, <1>8 DEF Typed

-----------------------------------------------------------------------------
(* The theorems.                                                           *)

LEMMA InitInv == ActionInit => IInv
<1> SUFFICES ASSUME ActionInit  PROVE IInv
  OBVIOUS
<1>1. PortsTyped /\ QueueTyped
  BY EmptyIs DEF ActionInit, PortsTyped, QueueTyped, Known
<1>2. ScanTyped /\ DrainTyped
  BY EmptyIs, NoDrainIs DEF ActionInit, ScanTyped, Scan, NoScan, Known, DrainTyped
<1>3. WiresTyped /\ WidgetTyped
  BY EmptyIs DEF ActionInit, WiresTyped, WidgetTyped
<1>4. OrderOK
  BY EmptyIs DEF ActionInit, OrderOK, Untouched
<1>5. AnswersOK
  BY EmptyIs DEF ActionInit, AnswersOK, AnswersFit, NoDrain
<1> QED  BY <1>1, <1>2, <1>3, <1>4, <1>5 DEF IInv, Typed

LEMMA StepInv == IInv /\ [ActionNext]_actionVars => IInv'
<1> SUFFICES ASSUME Typed, OrderOK, AnswersOK, [ActionNext]_actionVars
             PROVE  Typed' /\ OrderOK' /\ AnswersOK'
  BY DEF IInv
<1>1. CASE Accept
  BY <1>1, AcceptKeeps
<1>2. CASE Prepare
  BY <1>2, PrepareKeeps
<1>3. CASE DrainEnds
  BY <1>3, DrainEndsKeeps
<1>4. CASE Settled
  BY <1>4, SettledKeeps
<1>5. CASE AckTimeout
  BY <1>5, AckTimeoutKeeps
<1>6. CASE Connect
  BY <1>6, ConnectKeeps
<1>7. CASE Retain
  BY <1>7, RetainKeeps
<1>8. CASE PortLost
  BY <1>8, PortLostKeeps
<1>9. CASE SeesPortClosed
  BY <1>9, SeesPortClosedKeeps
<1>10. CASE GoesDormant
  BY <1>10, GoesDormantKeeps
<1>11. CASE Asked
  BY <1>11, AskedKeeps
<1>12. CASE \E p \in ActPorts : Acknowledged(p) \/ Receive(p)
  BY <1>12, AcknowledgedKeeps, ReceiveKeeps
<1>13. CASE \E a \in Actions : CarryOut(a) \/ \E p \in ActPorts : Acknowledge(a, p)
  BY <1>13, CarryOutKeeps, AcknowledgeKeeps
<1>14. CASE \E f \in Frames : FrameMoves(f)
  BY <1>14, FrameMovesKeeps
<1>15. CASE UNCHANGED actionVars
  <2>1. Typed'
    BY <1>15 DEF actionVars, Typed, PortsTyped, QueueTyped, ScanTyped, DrainTyped, WiresTyped,
       WidgetTyped, Known
  <2>2. OrderOK' /\ AnswersOK'
    BY <1>15 DEF actionVars, OrderOK, AnswersOK, AnswersFit
  <2> QED  BY <2>1, <2>2
<1> QED  BY <1>1, <1>2, <1>3, <1>4, <1>5, <1>6, <1>7, <1>8, <1>9, <1>10, <1>11, <1>12,
     <1>13, <1>14, <1>15 DEF ActionNext

(* Whatever the order of markers, ports, late answers, navigations and     *)
(* lost connections: the queue, the task that hands actions over, the      *)
(* wires and what the widget remembers stay in the inductive invariant.    *)
THEOREM ActionsInvariant == ActionSpec => []IInv
<1>1. IInv /\ [ActionNext]_actionVars => IInv'
  BY StepInv
<1> QED  BY InitInv, <1>1, PTL DEF ActionSpec

(* The model's variables keep their types.                                 *)
THEOREM ActionsTyped == ActionSpec => []ActionTypeOK
<1>1. IInv => ActionTypeOK
  <2> SUFFICES ASSUME IInv  PROVE ActionTypeOK
    OBVIOUS
  <2>1. \A k \in DOMAIN queue : queue[k] \in DOMAIN frameOf
    BY DEF IInv, Typed, QueueTyped, Known, Actions
  <2>2. \A a \in DOMAIN frameOf : frameOf[a] \in Frames
    BY DEF IInv, Typed, QueueTyped
  <2>3. /\ drain.pc \in {"none", "prepare", "wait", "settled"} /\ drain.outcome \in Outcomes
        /\ drain.a \in Actions \cup {0} /\ drain.port \in ActPorts \cup {0}
    BY DEF IInv, Typed, DrainTyped, DrainIs, Drain
  <2>4. scan.pc \in {"none", "look", "asked"} /\ moves \in 0 .. MaxMoves
    BY DEF IInv, Typed, ScanTyped, Scan
  <2> QED  BY <2>1, <2>2, <2>3, <2>4 DEF IInv, Typed, PortsTyped, QueueTyped, WidgetTyped, ActionTypeOK
<1> QED  BY <1>1, ActionsInvariant, PTL

(* The worker takes for the answer to an action (consumed, rejected) only  *)
(* what the widget made of that action, however late, often or on whatever *)
(* port the answer comes; and as long as no frame navigates, the widget    *)
(* carries nothing out before an older action that is still queued.        *)
THEOREM ActionsSafe == ActionSpec => []ActionsAreSafe
<1>1. IInv => ActionsAreSafe
  <2> SUFFICES ASSUME IInv  PROVE AnswersFit /\ NoOvertaking
    BY DEF ActionsAreSafe
  <2>1. AnswersFit
    BY DEF IInv, AnswersOK
  <2>2. queue \in Seq(Actions)
    BY DEF IInv, Typed, QueueTyped
  <2>3. \A j \in DOMAIN queue : moves = 0 /\ j > 1 => handled[queue[j]] = "none"
    BY DEF IInv, OrderOK, Untouched
  <2>4. DOMAIN queue = 1 .. Len(queue)
    BY <2>2
  <2>5. NoOvertaking
    BY <2>3, <2>4 DEF NoOvertaking
  <2> QED  BY <2>1, <2>5
<1> QED  BY <1>1, ActionsInvariant, PTL

=============================================================================
