------------------------- MODULE ClearPagesProofs -------------------------
(***************************************************************************)
(* Proofs about the durable clear and the pages: a document that           *)
(* acknowledged a clear, and every later one of its origin in its frame,   *)
(* shows no marker from before it; a clear that is reported to have        *)
(* succeeded was real; no clear is left without an alarm; and barriers     *)
(* hold, in any order of messages, navigations, retries and deaths of the  *)
(* worker.                                                                 *)
(***************************************************************************)
EXTENDS DurableClearProofs

-----------------------------------------------------------------------------
(* The inductive invariant, on top of IInv.  Each part says of the subjects,*)
(* epochs and authorities that are written down somewhere what is true of  *)
(* them for good.                                                          *)

\* Subjects that are known to someone; none is of a document yet to come.
Seen(s) ==
  \/ \E m \in net : s = m.sub
  \/ s \in navs
  \/ \E t \in tasks : s = t.sub
  \/ \E op \in DOMAIN journal : s \in DOMAIN journal[op].targets
  \/ \E r \in Requests : req[r].pc = "found" /\ s \in req[r].subs
Past(s) == s.doc <= live[s.frame].doc
KnownOK ==
  /\ \A f \in Frames : live[f].frame = f
  /\ \A s \in Subject : Seen(s) => Past(s)

\* The fence of a document lets no marker through but those of its epoch.
FenceOK ==
  /\ fence = [f \in Frames |-> fence[f]]
  /\ \A f \in Frames :
       /\ fence[f].gen \in Nat /\ fence[f].gen <= gens
       /\ (fence[f] # NoFence /\ fence[f].path = live[f].path) =>
            marks[f] \in {0, fence[f].after}

\* An origin that is to be cleared has not been given another epoch meanwhile.
EpochOK ==
  /\ \A o \in Origins : epoch[o] <= made[o]
  /\ \A op \in DOMAIN canon : \A o \in Entries(op, "pending") :
       canon[op].entry[o].after = made[o]

\* Where an epoch is written down that an origin has after a clear; from the clear
\* on the origin has no session, or that one, or a later one.
Promised(o, a) ==
  \/ \E m \in net : m.kind \in {"tomb", "ack"} /\ o = m.sub.origin /\ a = m.after
  \/ \E op \in DOMAIN journal : o \in DOMAIN journal[op].after /\ a = journal[op].after[o]
  \/ \E op \in DOMAIN canon : o \in Entries(op, "committed") /\ a = canon[op].entry[o].after
  \/ \E r \in Requests : /\ req[r].pc \in {"await", "final"}
                         /\ o \in DOMAIN req[r].after /\ a = req[r].after[o]
Cleared(o, a) ==
  /\ o \in Origins /\ a \in Nat
  /\ a <= made[o] /\ (epoch[o] = 0 \/ a <= epoch[o])
PromisesOK == \A o, a : Promised(o, a) => Cleared(o, a)

\* The authorities that clear an origin now; no page has heard of a later one.
Authority(o, g) ==
  \/ \E op \in DOMAIN canon : o \in DOMAIN canon[op].entry /\ g = canon[op].gen
  \/ \E op \in DOMAIN journal : o \in DOMAIN journal[op].after /\ g = journal[op].gen
Latest(o, g) ==
  /\ \A m \in net : (m.kind \in {"tomb", "ack"} /\ m.sub.origin = o) => m.ref.gen <= g
  /\ \A f \in Frames : live[f].origin = o => fence[f].gen <= g
AuthorityOK ==
  /\ \A m \in net : m.kind \in {"tomb", "ack"} => m.ref.gen <= gens /\ m.ref.sub = m.sub
  /\ \A o, g : Authority(o, g) => Latest(o, g)

\* Acknowledgements, under way and in the journal; the document is fenced by that
\* clear or by a later one, and no later document of its origin in its frame shows,
\* or is about to be shown, a marker from before the clear.
Acked(op, g, v, s, a) ==
  \/ \E m \in net : /\ m.kind = "ack" /\ s = m.sub /\ a = m.after
                    /\ op = m.ref.op /\ g = m.ref.gen /\ v = m.ref.rev
  \/ /\ op \in DOMAIN journal /\ s \in DOMAIN journal[op].targets
     /\ journal[op].targets[s].state = "acknowledged"
     /\ g = journal[op].gen /\ v = journal[op].targets[s].rev
     /\ a = journal[op].after[s.origin]
FenceFor(op, g, v, s, a) == [op |-> op, gen |-> g, rev |-> v, path |-> s.path, after |-> a]
Fresh(s, a) ==
  /\ \A m \in net : (/\ m.kind \in {"state", "restore"} /\ m.sub.frame = s.frame
                     /\ m.sub.origin = s.origin /\ s.doc < m.sub.doc) =>
                       m.epoch = 0 \/ a <= m.epoch
  /\ (live[s.frame].origin = s.origin /\ s.doc < live[s.frame].doc) =>
       marks[s.frame] = 0 \/ a <= marks[s.frame]
Told(op, g, v, s, a) ==
  /\ g \in Nat /\ s \in Subject /\ Cleared(s.origin, a)
  /\ Fresh(s, a)
  /\ live[s.frame].doc = s.doc =>
       fence[s.frame] = FenceFor(op, g, v, s, a) \/ g < fence[s.frame].gen
AcksOK ==
  /\ \A op \in DOMAIN journal : \A s \in DOMAIN journal[op].targets :
       journal[op].targets[s].state = "acknowledged" => journal[op].gen # Unbound
  /\ \A op, g, v, s, a : Acked(op, g, v, s, a) => Told(op, g, v, s, a)

PageInv == KnownOK /\ FenceOK /\ EpochOK /\ PromisesOK /\ AuthorityOK /\ AcksOK

-----------------------------------------------------------------------------
(* What it says of the two properties.                                     *)

LEMMA AcksAreClean ==
  ASSUME IInv, PageInv
  PROVE  AckMeansClean
<1> SUFFICES ASSUME NEW op \in DOMAIN journal, NEW s \in DOMAIN journal[op].targets,
                    journal[op].targets[s].state = "acknowledged",
                    \/ live[s.frame] = s
                    \/ live[s.frame].origin = s.origin /\ live[s.frame].doc > s.doc
             PROVE  marks[s.frame] = 0 \/ marks[s.frame] >= journal[op].after[s.origin]
  BY DEF AckMeansClean
<1> PICK g, v, a, f : /\ g = journal[op].gen /\ v = journal[op].targets[s].rev
                      /\ a = journal[op].after[s.origin] /\ f = s.frame
  OBVIOUS
<1>1. JournalOK /\ PageTyped
  BY DEF IInv, Typed
<1>2. s \in Subject /\ f \in Frames /\ live[f] \in Subject /\ g \in Nat
  BY <1>1, TargetTyped DEF Subject, PageTyped
<1>3. Told(op, g, v, s, a) /\ g # Unbound
  BY DEF PageInv, AcksOK, Acked
<1>4. a \in Nat /\ marks[f] \in Nat
  BY <1>1, <1>2, <1>3 DEF Told, Cleared, PageTyped
<1>5. live[f].doc \in Nat /\ s.doc \in Nat
  BY <1>2, ConstantsOK DEF Subject
<1>6. CASE live[f] = s
  <2>1. s.origin \in DOMAIN journal[op].after
    BY <1>1, <1>3, ReadableIs DEF Readable, JournalOK
  <2>2. Latest(s.origin, g)
    BY <2>1 DEF PageInv, AuthorityOK, Authority
  <2>3. fence[f].gen \in Nat /\ fence[f].gen <= g
    BY <1>2, <1>6, <2>2 DEF Latest, PageInv, FenceOK
  <2>4. fence[f] = FenceFor(op, g, v, s, a)
    BY <1>2, <1>3, <1>6, <2>3 DEF Told
  <2>5. fence[f].gen = g /\ fence[f].path = live[f].path /\ fence[f].after = a
    BY <1>6, <2>4 DEF FenceFor
  <2>6. fence[f] # NoFence
    BY <1>3, <2>5 DEF NoFence, Unbound
  <2>7. marks[f] \in {0, a}
    BY <1>2, <2>5, <2>6 DEF PageInv, FenceOK
  <2> QED  BY <1>4, <2>7
<1>7. CASE live[f].origin = s.origin /\ live[f].doc > s.doc
  <2>1. s.doc < live[f].doc
    BY <1>5, <1>7
  <2>2. marks[f] = 0 \/ a <= marks[f]
    BY <1>3, <1>7, <2>1 DEF Told, Fresh
  <2> QED  BY <1>4, <2>2
<1> QED  BY <1>6, <1>7

-----------------------------------------------------------------------------
(* Which steps move what.                                                  *)

\* Nothing that the invariant is about, but for the requests.
Idle == UNCHANGED <<journal, storeVars, pageVars, net, navs, tasks>>
Moving ==
  \/ \E f \in Frames : Capture(f)
  \/ \E f \in Frames : CloseFrame(f)
  \/ \E f \in Frames, p \in Paths : ChangeRoute(f, p)
  \/ \E f \in Frames, p \in Paths, o \in Origins : Navigate(f, o, p)
  \/ ClearAll
  \/ \E m \in net : ShowMarkers(m)
  \/ \E m \in net : TakeDown(m)
  \/ \E r \in Requests : StartClear(r)
  \/ \E r \in Requests : Withdraw(r)
  \/ \E r \in Requests : ClearSessions(r)
  \/ \E r \in Requests : Bind(r)
  \/ \E r \in Requests : GiveUp(r)
  \/ \E ref \in Due : Deliver(ref)
  \/ \E m \in net : Acknowledged(m)
  \/ \E m \in net : Disbelieved(m)
  \/ \E s \in navs : HandleNavigation(s)
  \/ \E m \in net : HandleRestore(m)
  \/ \E t \in tasks : TaskEnd(t)
  \/ \E t \in tasks : \E op \in t.todo : TaskStep(t, op)
  \/ ReconRemove \/ ReconClear \/ ReconGiveUp \/ ReconBind
  \/ \E op \in Ops : Finalize(op)
  \/ \E op \in Ops : Forget(op)
  \/ WorkerDies
  \/ \E m \in net : LoseMessage(m)

LEMMA StepMoves == Step => Idle \/ Moving
<1>1. (\E r \in Requests : Resume(r) \/ Refuse(r) \/ Discover(r) \/ Delivered(r)) => Idle
  BY DEF Resume, Refuse, Discover, Delivered, Idle
<1>2. (\E r \in Requests : Reply(r) \/ Settle(r) \/ Ask(r)
                        \/ RequestError(r) \/ BarrierError(r)) => Idle
  BY DEF Reply, Settle, BarrierError, Ask, RequestError, Idle
<1>3. /\ (\E r \in Requests, op \in Ops : Look(r, op)) => Idle
      /\ (\E ref \in sends : Timeout(ref)) => Idle
      /\ LoadBarriers \/ PassError \/ AlarmFires => Idle
  BY DEF Look, Timeout, LoadBarriers, PassError, AlarmFires, Idle
<1>4. ReconStart \/ ReconLeave \/ ReconFinalize \/ ReconDrain \/ ReconEnd => Idle
  BY DEF ReconStart, ReconLeave, ReconFinalize, ReconDrain, ReconEnd, Rest, Idle
<1>5. /\ (\E op \in recon.todo : ReconTake(op)) => Idle
      /\ DrainStart \/ DrainEnd \/ Reschedule => Idle
  BY DEF ReconTake, DrainStart, DrainEnd, Reschedule, Rest, Idle
<1> QED  BY <1>1, <1>2, <1>3, <1>4, <1>5 DEF Step, Moving

LEMMA PageMovers ==
  ASSUME Idle \/ Moving
  PROVE  \/ UNCHANGED <<live, marks, fence>>
         \/ \E f \in Frames : CloseFrame(f)
         \/ \E f \in Frames, p \in Paths : ChangeRoute(f, p)
         \/ \E f \in Frames, p \in Paths, o \in Origins : Navigate(f, o, p)
         \/ \E m \in net : ShowMarkers(m)
         \/ \E m \in net : TakeDown(m)
<1>1. Idle => UNCHANGED <<live, marks, fence>>
  BY DEF Idle, pageVars
<1>2. ((\E f \in Frames : Capture(f)) \/ ClearAll) => UNCHANGED <<live, marks, fence>>
  BY DEF Capture, ClearAll, pageVars
<1>3. (\E r \in Requests : StartClear(r) \/ Withdraw(r) \/ ClearSessions(r) \/ Bind(r) \/ GiveUp(r))
        => UNCHANGED <<live, marks, fence>>
  BY DEF StartClear, Withdraw, ClearSessions, Bind, GiveUp, pageVars
<1>4. /\ (\E ref \in Due : Deliver(ref)) => UNCHANGED <<live, marks, fence>>
      /\ (\E m \in net : Acknowledged(m) \/ Disbelieved(m) \/ HandleRestore(m) \/ LoseMessage(m))
           => UNCHANGED <<live, marks, fence>>
      /\ (\E s \in navs : HandleNavigation(s)) => UNCHANGED <<live, marks, fence>>
  BY DEF Deliver, Acknowledged, Disbelieved, HandleRestore, LoseMessage, HandleNavigation,
         pageVars
<1>5. /\ (\E t \in tasks : TaskEnd(t)) => UNCHANGED <<live, marks, fence>>
      /\ (\E t \in tasks : \E op \in t.todo : TaskStep(t, op)) => UNCHANGED <<live, marks, fence>>
      /\ WorkerDies => UNCHANGED <<live, marks, fence>>
      /\ (\E op \in Ops : Finalize(op) \/ Forget(op)) => UNCHANGED <<live, marks, fence>>
  BY DEF TaskEnd, TaskStep, WorkerDies, Finalize, Forget, pageVars
<1>6. ReconRemove \/ ReconClear \/ ReconGiveUp \/ ReconBind => UNCHANGED <<live, marks, fence>>
  BY DEF ReconRemove, ReconClear, ReconGiveUp, ReconBind, Rest, pageVars
<1> QED  BY <1>1, <1>2, <1>3, <1>4, <1>5, <1>6 DEF Moving

LEMMA StoreMovers ==
  ASSUME Idle \/ Moving
  PROVE  \/ UNCHANGED <<epoch, made, canon, gens>>
         \/ \E f \in Frames : Capture(f)
         \/ ClearAll
         \/ \E r \in Requests : ClearSessions(r)
         \/ \E r \in Requests : GiveUp(r)
         \/ ReconClear \/ ReconGiveUp
         \/ \E op \in Ops : Finalize(op)
<1>1. Idle => UNCHANGED <<epoch, made, canon, gens>>
  BY DEF Idle, storeVars
<1>2. /\ (\E f \in Frames : CloseFrame(f)) => UNCHANGED <<epoch, made, canon, gens>>
      /\ (\E f \in Frames, p \in Paths : ChangeRoute(f, p)) => UNCHANGED <<epoch, made, canon, gens>>
      /\ (\E f \in Frames, p \in Paths, o \in Origins : Navigate(f, o, p))
           => UNCHANGED <<epoch, made, canon, gens>>
      /\ (\E m \in net : ShowMarkers(m) \/ TakeDown(m)) => UNCHANGED <<epoch, made, canon, gens>>
  BY DEF CloseFrame, ChangeRoute, Navigate, ShowMarkers, TakeDown, storeVars
<1>3. (\E r \in Requests : StartClear(r) \/ Withdraw(r) \/ Bind(r))
        => UNCHANGED <<epoch, made, canon, gens>>
  BY DEF StartClear, Withdraw, Bind, storeVars
<1>4. /\ (\E ref \in Due : Deliver(ref)) => UNCHANGED <<epoch, made, canon, gens>>
      /\ (\E m \in net : Acknowledged(m) \/ Disbelieved(m) \/ HandleRestore(m) \/ LoseMessage(m))
           => UNCHANGED <<epoch, made, canon, gens>>
      /\ (\E s \in navs : HandleNavigation(s)) => UNCHANGED <<epoch, made, canon, gens>>
  BY DEF Deliver, Acknowledged, Disbelieved, HandleRestore, LoseMessage, HandleNavigation,
         storeVars
<1>5. /\ (\E t \in tasks : TaskEnd(t)) => UNCHANGED <<epoch, made, canon, gens>>
      /\ (\E t \in tasks : \E op \in t.todo : TaskStep(t, op)) => UNCHANGED <<epoch, made, canon, gens>>
      /\ WorkerDies => UNCHANGED <<epoch, made, canon, gens>>
      /\ (\E op \in Ops : Forget(op)) => UNCHANGED <<epoch, made, canon, gens>>
      /\ ReconRemove \/ ReconBind => UNCHANGED <<epoch, made, canon, gens>>
  BY DEF TaskEnd, TaskStep, WorkerDies, Forget, ReconRemove, ReconBind, storeVars
<1> QED  BY <1>1, <1>2, <1>3, <1>4, <1>5 DEF Moving

LEMMA NetMovers ==
  ASSUME Idle \/ Moving
  PROVE  \/ net' \subseteq net
         \/ \E f \in Frames : Capture(f)
         \/ ClearAll
         \/ \E f \in Frames, p \in Paths : ChangeRoute(f, p)
         \/ \E f \in Frames, p \in Paths, o \in Origins : Navigate(f, o, p)
         \/ \E m \in net : TakeDown(m)
         \/ \E ref \in Due : Deliver(ref)
         \/ \E t \in tasks : TaskEnd(t)
<1>1. Idle => net' \subseteq net
  BY DEF Idle
<1>2. (\E f \in Frames : CloseFrame(f)) => net' \subseteq net
  BY DEF CloseFrame, NetWithout
<1>3. (\E m \in net : ShowMarkers(m) \/ Acknowledged(m) \/ Disbelieved(m) \/ HandleRestore(m)
                      \/ LoseMessage(m)) => net' \subseteq net
  BY DEF ShowMarkers, Acknowledged, Disbelieved, HandleRestore, LoseMessage
<1>4. (\E r \in Requests : StartClear(r) \/ Withdraw(r) \/ ClearSessions(r) \/ Bind(r) \/ GiveUp(r))
        => net' \subseteq net
  BY DEF StartClear, Withdraw, ClearSessions, Bind, GiveUp
<1>5. /\ (\E s \in navs : HandleNavigation(s)) => net' \subseteq net
      /\ (\E t \in tasks : \E op \in t.todo : TaskStep(t, op)) => net' \subseteq net
      /\ WorkerDies => net' \subseteq net
      /\ (\E op \in Ops : Finalize(op) \/ Forget(op)) => net' \subseteq net
  BY DEF HandleNavigation, TaskStep, WorkerDies, Finalize, Forget
<1>6. ReconRemove \/ ReconClear \/ ReconGiveUp \/ ReconBind => net' \subseteq net
  BY DEF ReconRemove, ReconClear, ReconGiveUp, ReconBind, Rest
<1> QED  BY <1>1, <1>2, <1>3, <1>4, <1>5, <1>6 DEF Moving

LEMMA JournalMovers ==
  ASSUME Idle \/ Moving
  PROVE  \/ UNCHANGED journal
         \/ \E r \in Requests : StartClear(r)
         \/ \E r \in Requests : Withdraw(r)
         \/ \E r \in Requests : Bind(r)
         \/ \E r \in Requests : GiveUp(r)
         \/ \E ref \in Due : Deliver(ref)
         \/ \E m \in net : Acknowledged(m)
         \/ \E t \in tasks : \E op \in t.todo : TaskStep(t, op)
         \/ ReconRemove \/ ReconBind
         \/ \E op \in Ops : Forget(op)
<1>1. Idle => UNCHANGED journal
  BY DEF Idle
<1>2. /\ (\E f \in Frames : Capture(f) \/ CloseFrame(f)) => UNCHANGED journal
      /\ (\E f \in Frames, p \in Paths : ChangeRoute(f, p)) => UNCHANGED journal
      /\ (\E f \in Frames, p \in Paths, o \in Origins : Navigate(f, o, p)) => UNCHANGED journal
      /\ ClearAll => UNCHANGED journal
  BY DEF Capture, CloseFrame, ChangeRoute, Navigate, ClearAll
<1>3. /\ (\E m \in net : ShowMarkers(m) \/ TakeDown(m) \/ Disbelieved(m) \/ HandleRestore(m)
                         \/ LoseMessage(m)) => UNCHANGED journal
      /\ (\E r \in Requests : ClearSessions(r)) => UNCHANGED journal
      /\ (\E s \in navs : HandleNavigation(s)) => UNCHANGED journal
  BY DEF ShowMarkers, TakeDown, Disbelieved, HandleRestore, LoseMessage, ClearSessions,
         HandleNavigation
<1>4. /\ (\E t \in tasks : TaskEnd(t)) => UNCHANGED journal
      /\ WorkerDies => UNCHANGED journal
      /\ (\E op \in Ops : Finalize(op)) => UNCHANGED journal
      /\ ReconClear \/ ReconGiveUp => UNCHANGED journal
  BY DEF TaskEnd, WorkerDies, Finalize, ReconClear, ReconGiveUp
<1> QED  BY <1>1, <1>2, <1>3, <1>4 DEF Moving

\* What is waiting to be handled comes from the pages as they are, or from what was
\* waiting already.
LEMMA HearsayMoves ==
  ASSUME Typed, KnownOK, Idle \/ Moving
  PROVE  /\ \A s \in navs' : s \in navs \/ s = live'[s.frame]
         /\ \A t \in tasks' : \/ \E u \in tasks : t.sub = u.sub
                              \/ t.sub \in navs
                              \/ \E m \in net : t.sub = m.sub
<1>1. CASE UNCHANGED <<navs, tasks>>
  BY <1>1
<1>2. CASE \E f \in Frames, p \in Paths : ChangeRoute(f, p)
  <2> PICK f \in Frames, p \in Paths : ChangeRoute(f, p)
    BY <1>2
  <2> PICK s : s = [live[f] EXCEPT !.path = p]
    OBVIOUS
  <2>1. navs' = navs \cup {s} /\ live' = [live EXCEPT ![f] = s] /\ tasks' = tasks
    BY DEF ChangeRoute
  <2>2. live \in [Frames -> Subject] /\ live[f].frame = f
    BY DEF Typed, PageTyped, KnownOK
  <2>3. s.frame = f
    BY <2>2 DEF Subject
  <2>4. live'[f] = s
    BY <2>1, <2>2
  <2>5. s = live'[s.frame]
    BY <2>3, <2>4
  <2> QED  BY <2>1, <2>5
<1>3. CASE \E f \in Frames, p \in Paths, o \in Origins : Navigate(f, o, p)
  <2> PICK f \in Frames, p \in Paths, o \in Origins : Navigate(f, o, p)
    BY <1>3
  <2> PICK s : s = [frame |-> f, doc |-> live[f].doc + 1, origin |-> o, path |-> p]
    OBVIOUS
  <2>1. navs' = navs \cup {s} /\ live' = [live EXCEPT ![f] = s] /\ tasks' = tasks
    BY DEF Navigate
  <2>2. live \in [Frames -> Subject]
    BY DEF Typed, PageTyped
  <2>3. s.frame = f /\ live'[f] = s
    BY <2>1, <2>2
  <2>4. s = live'[s.frame]
    BY <2>3
  <2> QED  BY <2>1, <2>4
<1>4. CASE \E s \in navs : HandleNavigation(s)
  <2> PICK s \in navs : HandleNavigation(s)
    BY <1>4
  <2>1. navs' \subseteq navs /\ tasks' = tasks \cup {Task("navigation", s)}
    BY DEF HandleNavigation
  <2>2. Task("navigation", s).sub = s
    BY DEF Task
  <2> QED  BY <2>1, <2>2
<1>5. CASE \E m \in net : HandleRestore(m)
  <2> PICK m \in net : HandleRestore(m)
    BY <1>5
  <2>1. navs' = navs /\ tasks' = tasks \cup {Task("restore", m.sub)}
    BY DEF HandleRestore
  <2>2. Task("restore", m.sub).sub = m.sub
    BY DEF Task
  <2> QED  BY <2>1, <2>2
<1>6. CASE \E t \in tasks : TaskEnd(t)
  BY <1>6 DEF TaskEnd
<1>7. CASE \E t \in tasks : \E op \in t.todo : TaskStep(t, op)
  <2> PICK t \in tasks : \E op \in t.todo : TaskStep(t, op)
    BY <1>7
  <2> PICK op \in t.todo : TaskStep(t, op)
    OBVIOUS
  <2> PICK u : u = [t EXCEPT !.todo = @ \ {op}]
    OBVIOUS
  <2>1. u.sub = t.sub
    OBVIOUS
  <2>2. navs' = navs /\ (tasks' = tasks \/ tasks' = (tasks \ {t}) \cup {u})
    BY DEF TaskStep
  <2> QED  BY <2>1, <2>2
<1>8. CASE WorkerDies
  BY <1>8 DEF WorkerDies
<1>9. Idle => UNCHANGED <<navs, tasks>>
  BY DEF Idle
<1>10. (\E f \in Frames : Capture(f) \/ CloseFrame(f)) \/ ClearAll => UNCHANGED <<navs, tasks>>
  BY DEF Capture, CloseFrame, ClearAll
<1>11. /\ (\E m \in net : ShowMarkers(m) \/ TakeDown(m) \/ Acknowledged(m) \/ Disbelieved(m)
                          \/ LoseMessage(m)) => UNCHANGED <<navs, tasks>>
       /\ (\E ref \in Due : Deliver(ref)) => UNCHANGED <<navs, tasks>>
  BY DEF ShowMarkers, TakeDown, Acknowledged, Disbelieved, LoseMessage, Deliver
<1>12. (\E r \in Requests : StartClear(r) \/ Withdraw(r) \/ ClearSessions(r) \/ Bind(r) \/ GiveUp(r))
         => UNCHANGED <<navs, tasks>>
  BY DEF StartClear, Withdraw, ClearSessions, Bind, GiveUp
<1>13. /\ ReconRemove \/ ReconClear \/ ReconGiveUp \/ ReconBind => UNCHANGED <<navs, tasks>>
       /\ (\E op \in Ops : Finalize(op) \/ Forget(op)) => UNCHANGED <<navs, tasks>>
  BY DEF ReconRemove, ReconClear, ReconGiveUp, ReconBind, Finalize, Forget, Rest
<1> QED  BY <1>1, <1>2, <1>3, <1>4, <1>5, <1>6, <1>7, <1>8, <1>9, <1>10, <1>11, <1>12, <1>13
         DEF Moving

-----------------------------------------------------------------------------
(* New messages.                                                           *)

\* Markers for a document that is known, of no session or of the one there is.
IsMarkers(m) ==
  /\ m.kind \in {"state", "restore"}
  /\ m.sub = live[m.sub.frame] \/ Seen(m.sub)
  /\ m.epoch = 0 \/ m.epoch = epoch'[m.sub.origin]
IsAsk(m) == m.kind = "ask" /\ m.sub = live'[m.sub.frame]
IsTomb(m) ==
  \E ref \in Due :
    /\ IsLive(ref.sub) /\ MarkDelivered(ref.op, ref.gen, ref.sub, ref.rev)
    /\ UNCHANGED <<live, marks, fence, epoch, made, canon, gens>>
    /\ m = [kind |-> "tomb", sub |-> ref.sub, ref |-> ref,
            after |-> journal[ref.op].after[ref.sub.origin]]
FenceOf(x) == FenceFor(x.ref.op, x.ref.gen, x.ref.rev, x.sub, x.after)
IsAck(m) ==
  \E x \in net :
    /\ TakeDown(x) /\ x.kind = "tomb" /\ IsLive(x.sub)
    /\ TombstoneCounts(x.sub.frame, FenceOf(x))
    /\ m = [x EXCEPT !.kind = "ack"]

LEMMA NetMoves ==
  ASSUME IInv, KnownOK, Idle \/ Moving, NEW m \in net', m \notin net
  PROVE  IsMarkers(m) \/ IsAsk(m) \/ IsTomb(m) \/ IsAck(m)
<1>0. Typed /\ PageTyped /\ StoreTyped
  BY DEF IInv, Typed
<1>1. CASE \E f \in Frames : Capture(f)
  <2> PICK f \in Frames : Capture(f)
    BY <1>1
  <2> PICK o : o = live[f].origin
    OBVIOUS
  <2> PICK e : e = IF epoch[o] = 0 THEN made[o] + 1 ELSE epoch[o]
    OBVIOUS
  <2>1. m = State(f, e) /\ epoch' = [epoch EXCEPT ![o] = e]
    BY DEF Capture
  <2>2. o \in Origins /\ epoch \in [Origins -> Nat] /\ live[f].frame = f
    BY <1>0, LiveIs DEF StoreTyped, KnownOK
  <2>3. /\ m.kind = "state" /\ m.sub = live[f] /\ m.epoch = e
        /\ epoch'[o] = e
    BY <2>1, <2>2 DEF State
  <2> QED  BY <2>2, <2>3 DEF IsMarkers
<1>2. CASE ClearAll
  <2> PICK f \in Frames : m = State(f, 0)
    BY <1>2 DEF ClearAll
  <2>1. m.kind = "state" /\ m.sub = live[f] /\ m.epoch = 0 /\ live[f].frame = f
    BY DEF State, KnownOK
  <2> QED  BY <2>1 DEF IsMarkers
<1>3. CASE \E f \in Frames, p \in Paths : ChangeRoute(f, p)
  <2> PICK f \in Frames, p \in Paths : ChangeRoute(f, p)
    BY <1>3
  <2> PICK s : s = [live[f] EXCEPT !.path = p]
    OBVIOUS
  <2>1. m = [kind |-> "ask", sub |-> s] /\ live' = [live EXCEPT ![f] = s]
    BY DEF ChangeRoute
  <2>2. live \in [Frames -> Subject] /\ live[f].frame = f
    BY <1>0 DEF PageTyped, KnownOK
  <2>3. s.frame = f /\ live'[f] = s
    BY <2>1, <2>2 DEF Subject
  <2>4. m.kind = "ask" /\ m.sub = s
    BY <2>1
  <2> QED  BY <2>3, <2>4 DEF IsAsk
<1>4. CASE \E f \in Frames, p \in Paths, o \in Origins : Navigate(f, o, p)
  <2> PICK f \in Frames, p \in Paths, o \in Origins : Navigate(f, o, p)
    BY <1>4
  <2> PICK s : s = [frame |-> f, doc |-> live[f].doc + 1, origin |-> o, path |-> p]
    OBVIOUS
  <2>1. m = [kind |-> "ask", sub |-> s] /\ live' = [live EXCEPT ![f] = s]
    BY DEF Navigate, NetWithout
  <2>2. s.frame = f /\ live'[f] = s
    BY <1>0, <2>1 DEF PageTyped
  <2>3. m.kind = "ask" /\ m.sub = s
    BY <2>1
  <2> QED  BY <2>2, <2>3 DEF IsAsk
<1>5. CASE \E x \in net : TakeDown(x)
  <2> PICK x \in net : TakeDown(x)
    BY <1>5
  <2>1. /\ x.kind = "tomb" /\ IsLive(x.sub)
        /\ TombstoneCounts(x.sub.frame, FenceOf(x))
        /\ m = [x EXCEPT !.kind = "ack"]
    BY DEF TakeDown, FenceOf, FenceFor
  <2> QED  BY <2>1 DEF IsAck
<1>6. CASE \E ref \in Due : Deliver(ref)
  <2> PICK ref \in Due : Deliver(ref)
    BY <1>6
  <2>1. /\ MarkDelivered(ref.op, ref.gen, ref.sub, ref.rev) /\ IsLive(ref.sub)
        /\ m = [kind |-> "tomb", sub |-> ref.sub, ref |-> ref,
                after |-> journal[ref.op].after[ref.sub.origin]]
    BY DEF Deliver
  <2>2. UNCHANGED <<live, marks, fence, epoch, made, canon, gens>>
    BY DEF Deliver, pageVars, storeVars
  <2> QED  BY <2>1, <2>2 DEF IsTomb
<1>7. CASE \E t \in tasks : TaskEnd(t)
  <2> PICK t \in tasks : TaskEnd(t)
    BY <1>7
  <2>1. /\ m = [kind |-> "restore", sub |-> t.sub, epoch |-> epoch[t.sub.origin]]
        /\ epoch' = epoch
    BY DEF TaskEnd, storeVars
  <2>2. m.kind = "restore" /\ m.sub = t.sub /\ m.epoch = epoch'[m.sub.origin]
    BY <2>1
  <2>3. Seen(m.sub)
    BY <2>2 DEF Seen
  <2> QED  BY <2>2, <2>3 DEF IsMarkers
<1> QED  BY <1>1, <1>2, <1>3, <1>4, <1>5, <1>6, <1>7, NetMovers

-----------------------------------------------------------------------------
(* No document but one that was: KnownOK.                                  *)

LEMMA LiveMoves ==
  ASSUME IInv, IInv', KnownOK, Idle \/ Moving, NEW f \in Frames
  PROVE  /\ live'[f].frame = f /\ live[f].frame = f
         /\ live[f].doc \in Nat /\ live'[f].doc \in Nat /\ live[f].doc <= live'[f].doc
<1>0. PageTyped /\ PageTyped' /\ live[f].frame = f
  BY DEF IInv, Typed, KnownOK
<1>1. live[f].doc \in Nat /\ live'[f].doc \in Nat /\ live \in [Frames -> Subject]
  <2>1. live[f] \in Subject /\ live'[f] \in Subject /\ live \in [Frames -> Subject]
    BY <1>0 DEF PageTyped
  <2>2. Documents \subseteq Nat
    BY ConstantsOK
  <2>3. \A s \in Subject : s.doc \in Documents
    BY DEF Subject
  <2> QED  BY <2>1, <2>2, <2>3
<1>2. live'[f] = live[f] \/ (live'[f].frame = f /\ live[f].doc <= live'[f].doc)
  <2>1. CASE UNCHANGED <<live, marks, fence>>
    BY <2>1
  <2>2. CASE \E g \in Frames : CloseFrame(g)
    BY <2>2 DEF CloseFrame
  <2>3. CASE \E g \in Frames, p \in Paths : ChangeRoute(g, p)
    <3> PICK g \in Frames, p \in Paths : ChangeRoute(g, p)
      BY <2>3
    <3>1. live' = [live EXCEPT ![g] = [live[g] EXCEPT !.path = p]]
      BY DEF ChangeRoute
    <3>2. live'[f] = IF f = g THEN [live[f] EXCEPT !.path = p] ELSE live[f]
      BY <1>1, <3>1
    <3> QED  BY <1>0, <1>1, <3>2 DEF Subject
  <2>4. CASE \E g \in Frames, p \in Paths, o \in Origins : Navigate(g, o, p)
    <3> PICK g \in Frames, p \in Paths, o \in Origins : Navigate(g, o, p)
      BY <2>4
    <3> PICK s : s = [frame |-> g, doc |-> live[g].doc + 1, origin |-> o, path |-> p]
      OBVIOUS
    <3>1. live' = [live EXCEPT ![g] = s]
      BY DEF Navigate
    <3>2. live'[f] = IF f = g THEN s ELSE live[f]
      BY <1>1, <3>1
    <3>3. f = g => s.frame = f /\ s.doc = live[f].doc + 1
      OBVIOUS
    <3> QED  BY <1>1, <3>2, <3>3
  <2>5. CASE \E m \in net : ShowMarkers(m) \/ TakeDown(m)
    BY <2>5 DEF ShowMarkers, TakeDown
  <2> QED  BY <2>1, <2>2, <2>3, <2>4, <2>5, PageMovers
<1> QED  BY <1>0, <1>1, <1>2

LEMMA PastKeeps ==
  ASSUME IInv, IInv', KnownOK, Idle \/ Moving, NEW s \in Subject, Past(s)
  PROVE  Past(s)'
<1> PICK f : f = s.frame
  OBVIOUS
<1>1. f \in Frames /\ s.doc \in Nat
  BY ConstantsOK DEF Subject
<1>2. s.doc <= live[f].doc
  BY DEF Past
<1>3. s.doc <= live'[f].doc
  BY <1>1, <1>2, LiveMoves
<1> QED  BY <1>3 DEF Past

-----------------------------------------------------------------------------
(* What a step does to the journal, operation by operation and target by   *)
(* target.                                                                 *)

\* Its authority and epochs stay, are none yet, or are those of the store's clear.
OpMoves(x) ==
  \/ /\ x \in DOMAIN journal
     /\ journal'[x].gen = journal[x].gen /\ journal'[x].after = journal[x].after
  \/ x \notin DOMAIN journal /\ journal'[x].gen = Unbound /\ DOMAIN journal'[x].after = {}
  \/ /\ x \in DOMAIN journal /\ journal[x].gen = Unbound /\ InCanon(x)
     /\ journal'[x].gen = canon[x].gen /\ journal'[x].after = Committed(x)
\* A target is one that was there, that was found, or that a frame went on to.
SubMoves(x, s) ==
  \/ x \in DOMAIN journal /\ s \in DOMAIN journal[x].targets
  \/ \E r \in Requests : req[r].pc = "found" /\ s \in req[r].subs
  \/ \E t \in tasks : s = t.sub
\* It has acknowledged if it had, or if a valid acknowledgement has come in.
AckMoves(x, s) ==
  journal'[x].targets[s].state = "acknowledged" =>
    /\ x \in DOMAIN journal /\ s \in DOMAIN journal[x].targets
    /\ journal'[x].targets[s].rev = journal[x].targets[s].rev
    /\ \/ journal[x].targets[s].state = "acknowledged"
       \/ \E m \in net : m.kind = "ack" /\ x = m.ref.op /\ s = m.sub /\ Valid(m)
JournalMoves ==
  \A x \in DOMAIN journal' :
    OpMoves(x) /\ \A s \in DOMAIN journal'[x].targets : SubMoves(x, s) /\ AckMoves(x, s)

LEMMA SameMoves == UNCHANGED journal => JournalMoves
BY DEF JournalMoves, OpMoves, SubMoves, AckMoves

LEMMA RemoveMoves ==
  ASSUME JournalOK, NEW op \in Ops, NEW gen, RemoveOperation(op, gen)
  PROVE  JournalMoves
<1>1. /\ DOMAIN journal' = DOMAIN journal \ {op}
      /\ \A x \in DOMAIN journal' : journal'[x] = journal[x]
  BY RemoveOperationKeeps
<1> QED  BY <1>1 DEF JournalMoves, OpMoves, SubMoves, AckMoves

LEMMA SetTargetMoves ==
  ASSUME JournalOK, NEW op \in DOMAIN journal, NEW s \in DOMAIN journal[op].targets,
         NEW t \in Target, SetTarget(op, s, t), t.rev = journal[op].targets[s].rev,
         t.state = "acknowledged" =>
           \E m \in net : m.kind = "ack" /\ op = m.ref.op /\ s = m.sub /\ Valid(m)
  PROVE  JournalMoves
<1>1. /\ Retargets
      /\ DOMAIN journal'[op].targets = DOMAIN journal[op].targets
      /\ \A x \in DOMAIN journal[op].targets :
           journal'[op].targets[x] = IF x = s THEN t ELSE journal[op].targets[x]
      /\ \A y \in DOMAIN journal \ {op} : journal'[y] = journal[y]
  BY SetTargetKeeps
<1> SUFFICES ASSUME NEW x \in DOMAIN journal'
             PROVE  /\ OpMoves(x)
                    /\ \A z \in DOMAIN journal'[x].targets : SubMoves(x, z) /\ AckMoves(x, z)
  BY DEF JournalMoves
<1>2. OpMoves(x)
  BY <1>1 DEF Retargets, OpMoves
<1>3. CASE x = op
  <2> SUFFICES ASSUME NEW z \in DOMAIN journal'[op].targets
               PROVE  SubMoves(op, z) /\ AckMoves(op, z)
    BY <1>2, <1>3
  <2>1. SubMoves(op, z)
    BY <1>1 DEF SubMoves
  <2>2. CASE z = s
    <3>1. journal'[op].targets[s] = t
      BY <1>1
    <3> QED  BY <2>1, <2>2, <3>1 DEF AckMoves
  <2>3. CASE z # s
    <3>1. z \in DOMAIN journal[op].targets /\ journal'[op].targets[z] = journal[op].targets[z]
      BY <1>1, <2>3
    <3> QED  BY <2>1, <3>1 DEF AckMoves
  <2> QED  BY <2>1, <2>2, <2>3
<1>4. CASE x # op
  <2>1. journal'[x] = journal[x] /\ x \in DOMAIN journal
    BY <1>1, <1>4 DEF Retargets
  <2> QED  BY <1>2, <2>1 DEF SubMoves, AckMoves
<1> QED  BY <1>3, <1>4

LEMMA ReplaceMoves ==
  ASSUME JournalOK, NEW op \in Ops, NEW gen, NEW s, NEW rev, NEW next \in Subject,
         ReplaceTarget(op, gen, s, rev, next), \E t \in tasks : next = t.sub
  PROVE  JournalMoves
<1>1. /\ op \in DOMAIN journal /\ next \notin DOMAIN journal[op].targets
  BY DEF ReplaceTarget, Exact, Present
<1> PICK T : T = [x \in (DOMAIN journal[op].targets \ {s}) \cup {next} |->
                    IF x = next THEN [rev |-> rev + 1, state |-> "pending"]
                    ELSE journal[op].targets[x]]
  OBVIOUS
<1> PICK n : n = [journal[op] EXCEPT !.targets = T]
  OBVIOUS
<1>2. journal' = [journal EXCEPT ![op] = n]
  BY DEF ReplaceTarget
<1>3. Operation(journal[op]) /\ journal = [x \in DOMAIN journal |-> journal[x]]
  BY <1>1 DEF JournalOK, JournalTypeOK
<1>4. n.gen = journal[op].gen /\ n.after = journal[op].after /\ n.targets = T
  BY <1>3 DEF Operation
<1>5. /\ DOMAIN journal' = DOMAIN journal /\ journal'[op] = n
      /\ \A y \in DOMAIN journal \ {op} : journal'[y] = journal[y]
  BY <1>1, <1>2, <1>3
<1>6. /\ DOMAIN T = (DOMAIN journal[op].targets \ {s}) \cup {next}
      /\ T[next].state = "pending"
      /\ \A x \in DOMAIN T : x = next \/ (x \in DOMAIN journal[op].targets
                                          /\ T[x] = journal[op].targets[x])
  OBVIOUS
<1> SUFFICES ASSUME NEW x \in DOMAIN journal'
             PROVE  /\ OpMoves(x)
                    /\ \A z \in DOMAIN journal'[x].targets : SubMoves(x, z) /\ AckMoves(x, z)
  BY DEF JournalMoves
<1>7. CASE x = op
  <2>1. OpMoves(op)
    BY <1>1, <1>4, <1>5 DEF OpMoves
  <2> SUFFICES ASSUME NEW z \in DOMAIN T
               PROVE  SubMoves(op, z) /\ AckMoves(op, z)
    BY <1>4, <1>5, <1>7, <2>1
  <2>2. journal'[op].targets[z] = T[z]
    BY <1>4, <1>5
  <2>3. CASE z = next
    <3>1. AckMoves(op, z)
      BY <1>6, <2>2, <2>3 DEF AckMoves
    <3>2. SubMoves(op, z)
      BY <2>3 DEF SubMoves
    <3> QED  BY <3>1, <3>2
  <2>4. CASE z # next
    <3>1. z \in DOMAIN journal[op].targets /\ T[z] = journal[op].targets[z]
      BY <1>6, <2>4
    <3> QED  BY <1>1, <2>2, <3>1 DEF SubMoves, AckMoves
  <2> QED  BY <2>3, <2>4
<1>8. CASE x # op
  <2>1. journal'[x] = journal[x] /\ x \in DOMAIN journal
    BY <1>5, <1>8
  <2> QED  BY <2>1 DEF OpMoves, SubMoves, AckMoves
<1> QED  BY <1>7, <1>8

LEMMA CommitMoves ==
  ASSUME JournalOK, NEW op \in Ops, InCanon(op),
         CommitOrigins(op, canon[op].gen, Committed(op))
  PROVE  JournalMoves
<1> PICK g, af : g = canon[op].gen /\ af = Committed(op)
  OBVIOUS
<1> PICK T : T = [s \in {x \in DOMAIN journal[op].targets : x.origin \in DOMAIN af} |->
                    journal[op].targets[s]]
  OBVIOUS
<1>1. op \in DOMAIN journal /\ journal[op].gen = Unbound
  BY DEF CommitOrigins, Present
<1>2. Operation(journal[op]) /\ journal = [x \in DOMAIN journal |-> journal[x]]
  BY <1>1 DEF JournalOK, JournalTypeOK
<1> PICK n : n = [gen |-> g, endpoint |-> journal[op].endpoint,
                  before |-> journal[op].before, after |-> af, targets |-> T]
  OBVIOUS
<1>3. journal' = [journal EXCEPT ![op] = n]
  <2> PICK a : a = [gen |-> g, endpoint |-> journal[op].endpoint,
                    before |-> journal[op].before, after |-> journal[op].after,
                    targets |-> journal[op].targets]
    OBVIOUS
  <2> PICK b : b = [gen |-> g, endpoint |-> journal[op].endpoint,
                    before |-> journal[op].before, after |-> af,
                    targets |-> journal[op].targets]
    OBVIOUS
  <2>1. a = [journal[op] EXCEPT !.gen = g]
    BY <1>2 DEF Operation
  <2>2. b = [a EXCEPT !.after = af]
    OBVIOUS
  <2>3. n = [b EXCEPT !.targets = T]
    OBVIOUS
  <2>4. n = [journal[op] EXCEPT !.gen = g, !.after = af, !.targets = T]
    BY <2>1, <2>2, <2>3
  <2> QED  BY <1>1, <2>4 DEF CommitOrigins
<1>4. n.gen = g /\ n.after = af /\ n.targets = T
  OBVIOUS
<1>5. /\ DOMAIN journal' = DOMAIN journal /\ journal'[op] = n
      /\ \A y \in DOMAIN journal \ {op} : journal'[y] = journal[y]
  BY <1>1, <1>2, <1>3
<1>6. \A x \in DOMAIN T : x \in DOMAIN journal[op].targets /\ T[x] = journal[op].targets[x]
  OBVIOUS
<1> SUFFICES ASSUME NEW x \in DOMAIN journal'
             PROVE  /\ OpMoves(x)
                    /\ \A z \in DOMAIN journal'[x].targets : SubMoves(x, z) /\ AckMoves(x, z)
  BY DEF JournalMoves
<1>7. CASE x = op
  <2>1. OpMoves(op)
    BY <1>1, <1>4, <1>5 DEF OpMoves
  <2>2. \A z \in DOMAIN T : SubMoves(op, z) /\ AckMoves(op, z)
    BY <1>1, <1>4, <1>5, <1>6 DEF SubMoves, AckMoves
  <2> QED  BY <1>4, <1>5, <1>7, <2>1, <2>2
<1>8. CASE x # op
  <2>1. journal'[x] = journal[x] /\ x \in DOMAIN journal
    BY <1>5, <1>8
  <2> QED  BY <2>1 DEF OpMoves, SubMoves, AckMoves
<1> QED  BY <1>7, <1>8

LEMMA PrepareMoves ==
  ASSUME NEW op, NEW endpoint, NEW before, NEW r \in Requests, req[r].pc = "found",
         Prepare(op, endpoint, before, req[r].subs)
  PROVE  JournalMoves
<1> PICK T : T = [s \in req[r].subs |-> [rev |-> 1, state |-> "pending"]]
  OBVIOUS
<1> PICK n : n = [gen |-> Unbound, endpoint |-> endpoint, before |-> before,
                  after |-> [o \in {} |-> 0], targets |-> T]
  OBVIOUS
<1>1. /\ journal' = [x \in DOMAIN journal \cup {op} |-> IF x = op THEN n ELSE journal[x]]
      /\ op \notin DOMAIN journal
  BY DEF Prepare, Present
<1>2. /\ DOMAIN journal' = DOMAIN journal \cup {op} /\ journal'[op] = n
      /\ \A x \in DOMAIN journal' \ {op} : x \in DOMAIN journal /\ journal'[x] = journal[x]
  BY <1>1
<1>3. /\ n.gen = Unbound /\ DOMAIN n.after = {} /\ n.targets = T /\ DOMAIN T = req[r].subs
      /\ \A s \in DOMAIN T : T[s].state = "pending"
  OBVIOUS
<1> SUFFICES ASSUME NEW x \in DOMAIN journal'
             PROVE  /\ OpMoves(x)
                    /\ \A z \in DOMAIN journal'[x].targets : SubMoves(x, z) /\ AckMoves(x, z)
  BY DEF JournalMoves
<1>4. CASE x = op
  <2>1. OpMoves(op)
    BY <1>1, <1>2, <1>3 DEF OpMoves
  <2>2. \A z \in DOMAIN T : SubMoves(op, z) /\ AckMoves(op, z)
    BY <1>2, <1>3 DEF SubMoves, AckMoves
  <2> QED  BY <1>2, <1>3, <1>4, <2>1, <2>2
<1>5. CASE x # op
  <2>1. journal'[x] = journal[x] /\ x \in DOMAIN journal
    BY <1>2, <1>5
  <2> QED  BY <2>1 DEF OpMoves, SubMoves, AckMoves
<1> QED  BY <1>4, <1>5

LEMMA JournalStep ==
  ASSUME IInv, Idle \/ Moving
  PROVE  JournalMoves
<1>0. JournalOK /\ RequestTyped /\ WorkerTyped
  BY DEF IInv, Typed
<1>1. CASE UNCHANGED journal
  BY <1>1, SameMoves
<1>2. CASE \E r \in Requests : StartClear(r)
  <2> PICK r \in Requests : StartClear(r)
    BY <1>2
  <2>1. req[r].pc = "found"
        /\ (UNCHANGED journal \/ Prepare(req[r].op, Top, req[r].before, req[r].subs))
    BY DEF StartClear
  <2> PICK op, e, b : op = req[r].op /\ e = Top /\ b = req[r].before
    OBVIOUS
  <2>2. UNCHANGED journal \/ Prepare(op, e, b, req[r].subs)
    BY <2>1
  <2> QED  BY <2>1, <2>2, SameMoves, PrepareMoves
<1>3. CASE \/ \E r \in Requests : Withdraw(r) \/ GiveUp(r)
           \/ \E op \in Ops : Forget(op)
           \/ ReconRemove
  <2>1. UNCHANGED journal \/ \E op, g : RemoveOperation(op, g)
    BY <1>3 DEF Withdraw, GiveUp, Forget, ReconRemove
  <2>2. ASSUME NEW op, NEW g, RemoveOperation(op, g)  PROVE JournalMoves
    <3>1. op \in Ops
      BY <1>0, <2>2 DEF RemoveOperation, Present, JournalOK, JournalTypeOK
    <3> QED  BY <1>0, <2>2, <3>1, RemoveMoves
  <2> QED  BY <2>1, <2>2, SameMoves
<1>4. CASE (\E r \in Requests : Bind(r)) \/ ReconBind
  <2>1. \E op : InCanon(op) /\ CommitOrigins(op, canon[op].gen, Committed(op))
    <3>1. CASE \E r \in Requests : Bind(r)
      <4> PICK r \in Requests : Bind(r)
        BY <3>1
      <4>1. req[r].pc = "cleared"
            /\ CommitOrigins(req[r].op, canon[req[r].op].gen, Committed(req[r].op))
        BY DEF Bind
      <4>2. InCanon(req[r].op)
        BY <4>1 DEF IInv, RestOK, HolderOK, Settled
      <4> QED  BY <4>1, <4>2
    <3>2. CASE ReconBind
      BY <3>2 DEF ReconBind, Settled
    <3> QED  BY <1>4, <3>1, <3>2
  <2> PICK op : InCanon(op) /\ CommitOrigins(op, canon[op].gen, Committed(op))
    BY <2>1
  <2>2. op \in Ops
    BY CanonIs
  <2> QED  BY <1>0, <2>2, CommitMoves
<1>5. CASE \E ref \in Due : Deliver(ref)
  <2> PICK ref \in Due : Deliver(ref)
    BY <1>5
  <2> PICK op, g, s, v : op = ref.op /\ g = ref.gen /\ s = ref.sub /\ v = ref.rev
    OBVIOUS
  <2>1. UNCHANGED journal \/ MarkDelivered(op, g, s, v)
    BY DEF Deliver
  <2>2. CASE MarkDelivered(op, g, s, v)
    <3> PICK t : t = [rev |-> v, state |-> "delivered"]
      OBVIOUS
    <3>1. SetTarget(op, s, t) /\ Exact(op, g, s, v)
      BY <2>2 DEF MarkDelivered
    <3>2. /\ op \in DOMAIN journal /\ s \in DOMAIN journal[op].targets
          /\ v = journal[op].targets[s].rev
      BY <3>1 DEF Exact, Present
    <3>3. t \in Target /\ t.state = "delivered" /\ t.rev = v
      BY <1>0, <3>1, ExactTyped DEF Target
    <3> QED  BY <1>0, <3>1, <3>2, <3>3, SetTargetMoves
  <2> QED  BY <2>1, <2>2, SameMoves
<1>6. CASE \E m \in net : Acknowledged(m)
  <2> PICK m \in net : Acknowledged(m)
    BY <1>6
  <2> PICK op, g, s, v : op = m.ref.op /\ g = m.ref.gen /\ s = m.sub /\ v = m.ref.rev
    OBVIOUS
  <2>1. /\ UNCHANGED journal \/ Acknowledge(op, g, s, v)
        /\ m.kind = "ack" /\ Valid(m)
    BY DEF Acknowledged
  <2>2. CASE Acknowledge(op, g, s, v)
    <3> PICK t : t = [rev |-> v, state |-> "acknowledged"]
      OBVIOUS
    <3>1. SetTarget(op, s, t) /\ Exact(op, g, s, v)
      BY <2>2 DEF Acknowledge
    <3>2. /\ op \in DOMAIN journal /\ s \in DOMAIN journal[op].targets
          /\ v = journal[op].targets[s].rev
      BY <3>1 DEF Exact, Present
    <3>3. t \in Target /\ t.rev = v
      BY <1>0, <3>1, ExactTyped DEF Target
    <3> QED  BY <1>0, <2>1, <3>1, <3>2, <3>3, SetTargetMoves
  <2> QED  BY <2>1, <2>2, SameMoves
<1>7. CASE \E t \in tasks : \E op \in t.todo : TaskStep(t, op)
  <2> PICK t \in tasks : \E op \in t.todo : TaskStep(t, op)
    BY <1>7
  <2> PICK op \in t.todo : TaskStep(t, op)
    OBVIOUS
  <2> PICK next : next = t.sub
    OBVIOUS
  <2>1. next \in Subject /\ \E u \in tasks : next = u.sub
    BY <1>0 DEF WorkerTyped
  <2>2. \/ UNCHANGED journal
        \/ \E x, g, v : ReplaceTarget(op, g, x, v, next) \/ Supersede(op, g, x, v)
    BY DEF TaskStep
  <2>3. ASSUME NEW x, NEW g, NEW v, ReplaceTarget(op, g, x, v, next)  PROVE JournalMoves
    <3>1. op \in Ops
      BY <1>0, <2>3, ExactTyped DEF ReplaceTarget
    <3> QED  BY <1>0, <2>1, <2>3, <3>1, ReplaceMoves
  <2>4. ASSUME NEW x, NEW g, NEW v, Supersede(op, g, x, v)  PROVE JournalMoves
    <3> PICK n : n = [rev |-> v, state |-> "superseded"]
      OBVIOUS
    <3>1. SetTarget(op, x, n) /\ Exact(op, g, x, v)
      BY <2>4 DEF Supersede
    <3>2. /\ op \in DOMAIN journal /\ x \in DOMAIN journal[op].targets
          /\ v = journal[op].targets[x].rev
      BY <3>1 DEF Exact, Present
    <3>3. n \in Target /\ n.rev = v /\ n.state = "superseded"
      BY <1>0, <3>1, ExactTyped DEF Target
    <3> QED  BY <1>0, <3>1, <3>2, <3>3, SetTargetMoves
  <2> QED  BY <2>2, <2>3, <2>4, SameMoves
<1> QED  BY <1>1, <1>2, <1>3, <1>4, <1>5, <1>6, <1>7, JournalMovers

-----------------------------------------------------------------------------
(* What a step does to a request.                                          *)

Alike(n, q) ==
  /\ n.pc = q.pc /\ n.op = q.op /\ n.gen = q.gen
  /\ n.subs = q.subs /\ n.after = q.after /\ n.reply = q.reply
ReqMove(n, q) ==
  \/ Alike(n, q)
  \/ n.pc \notin {"found", "await", "final"} /\ n.reply \in {q.reply, "failed"}
  \/ q.pc = "await" /\ n.pc = "final" /\ n.after = q.after /\ n.reply = q.reply
  \/ n.pc = "found" /\ n.reply = q.reply /\ \A s \in n.subs : \E f \in Frames : s = live[f]
  \/ /\ n.pc = "await" /\ n.reply = q.reply
     /\ \/ \E op \in DOMAIN journal : n.after = journal[op].after
        \/ \E op \in DOMAIN canon : n.after = Committed(op)
  \/ /\ q.pc = "final" /\ n.pc = "settle" /\ n.reply = "ok"
     /\ q.resumed \/ DOMAIN q.before = DOMAIN q.after
ReqMoves == \A r \in Requests : ReqMove(req'[r], req[r])

LEMMA ReqSame == UNCHANGED req => ReqMoves
BY DEF ReqMoves, ReqMove, Alike

LEMMA OneMoves ==
  ASSUME RequestTyped, NEW r \in Requests, NEW n, ReqMove(n, req[r]),
         req' = [req EXCEPT ![r] = n]
  PROVE  ReqMoves
<1>1. req'[r] = n /\ \A q \in Requests \ {r} : req'[q] = req[q]
  BY DEF RequestTyped
<1>2. ASSUME NEW q \in Requests \ {r}  PROVE ReqMove(req'[q], req[q])
  BY <1>1 DEF ReqMove, Alike
<1> QED  BY <1>1, <1>2 DEF ReqMoves

\* The handler goes on to a place where it holds nothing.
LEMMA PcMoves ==
  ASSUME RequestTyped, NEW r \in Requests, NEW p,
         p \notin {"found", "await", "final"} \/ (p = "final" /\ req[r].pc = "await"),
         req' = [req EXCEPT ![r].pc = p]
  PROVE  ReqMoves
<1> PICK q : q = req[r]  OBVIOUS
<1> PICK n : n = [q EXCEPT !.pc = p]  OBVIOUS
<1>1. Shaped(q)
  BY RequestShape DEF RequestTyped
<1>2. n.pc = p /\ n.after = q.after /\ n.reply = q.reply
  BY <1>1 DEF Shaped
<1>3. ReqMove(n, q)
  BY <1>2 DEF ReqMove
<1>4. req' = [req EXCEPT ![r] = n]
  OBVIOUS
<1> QED  BY <1>3, <1>4, OneMoves

LEMMA SettleMoves ==
  ASSUME RequestTyped, NEW r \in Requests, NEW x,
         \/ x = "failed"
         \/ x = "ok" /\ req[r].pc = "final"
                     /\ (req[r].resumed \/ DOMAIN req[r].before = DOMAIN req[r].after),
         req' = [req EXCEPT ![r].pc = "settle", ![r].reply = x]
  PROVE  ReqMoves
<1> PICK q : q = req[r]  OBVIOUS
<1> PICK m : m = [q EXCEPT !.pc = "settle"]  OBVIOUS
<1> PICK n : n = [m EXCEPT !.reply = x]  OBVIOUS
<1>1. Shaped(q)
  BY RequestShape DEF RequestTyped
<1>2. Shaped(m) /\ m.pc = "settle"
  BY <1>1 DEF Shaped
<1>3. n.pc = "settle" /\ n.reply = x
  BY <1>2 DEF Shaped
<1>4. ReqMove(n, q)
  BY <1>3 DEF ReqMove
<1>5. req' = [req EXCEPT ![r] = n]
  BY DEF RequestTyped
<1> QED  BY <1>4, <1>5, OneMoves

LEMMA FailMoves ==
  ASSUME RequestTyped, NEW r \in Requests, NEW d, Fail(r, d)
  PROVE  ReqMoves
BY SettleMoves DEF Fail

LEMMA LessAlike ==
  ASSUME NEW q, Request(q)
  PROVE  /\ \A ref : Alike([q EXCEPT !.unsent = @ \ {ref}], q)
         /\ \A ref, ok : Alike([q EXCEPT !.waiting = @ \ {ref}, !.unsent = @ \ {ref},
                                        !.failed = @ \/ ~ok], q)
         /\ \A ref : Alike([q EXCEPT !.waiting = @ \ {ref}, !.failed = TRUE,
                                    !.unsent = @ \ {ref}], q)
         /\ Alike([q EXCEPT !.fresh = FALSE], q)
<1>0. Shaped(q)
  BY RequestShape
<1>1. ASSUME NEW ref, NEW n, n = [q EXCEPT !.unsent = @ \ {ref}]
      PROVE  Alike(n, q)
  BY <1>0, <1>1 DEF Alike, Shaped
<1>2. ASSUME NEW ref, NEW ok, NEW n,
             n = [q EXCEPT !.waiting = @ \ {ref}, !.unsent = @ \ {ref}, !.failed = @ \/ ~ok]
      PROVE  Alike(n, q)
  BY <1>0, <1>2 DEF Alike, Shaped
<1>3. ASSUME NEW ref, NEW n,
             n = [q EXCEPT !.waiting = @ \ {ref}, !.failed = TRUE, !.unsent = @ \ {ref}]
      PROVE  Alike(n, q)
  BY <1>0, <1>3 DEF Alike, Shaped
<1>4. ASSUME NEW n, n = [q EXCEPT !.fresh = FALSE]
      PROVE  Alike(n, q)
  BY <1>0, <1>4 DEF Alike, Shaped
<1> QED  BY <1>1, <1>2, <1>3, <1>4

AllAlike == \A r \in Requests : Alike(req'[r], req[r])

LEMMA AlikeMoves == AllAlike => ReqMoves
BY DEF AllAlike, ReqMoves, ReqMove

\* The handlers stay where they are.
OtherSteps ==
  \/ \E f \in Frames : Capture(f)
  \/ \E f \in Frames : CloseFrame(f)
  \/ \E f \in Frames, p \in Paths : ChangeRoute(f, p)
  \/ \E f \in Frames, p \in Paths, o \in Origins : Navigate(f, o, p)
  \/ ClearAll
  \/ \E m \in net : ShowMarkers(m)
  \/ \E m \in net : TakeDown(m)
  \/ \E m \in net : HandleRestore(m)
  \/ \E t \in tasks : TaskEnd(t)
  \/ ReconStart \/ ReconRemove \/ ReconLeave \/ ReconClear \/ ReconGiveUp
  \/ ReconBind \/ ReconFinalize \/ ReconDrain \/ ReconEnd
  \/ \E op \in recon.todo : ReconTake(op)
  \/ DrainStart \/ DrainEnd \/ Reschedule \/ AlarmFires \/ LoadBarriers
  \/ \E op \in Ops : Finalize(op)
  \/ \E op \in Ops : Forget(op)
  \/ \E m \in net : LoseMessage(m)
  \/ \E ref \in Due : Deliver(ref)
  \/ \E ref \in sends : Timeout(ref)
  \/ \E m \in net : Acknowledged(m)
  \/ \E m \in net : Disbelieved(m)
  \/ PassError
  \/ \E s \in navs : HandleNavigation(s)
  \/ \E t \in tasks : \E op \in t.todo : TaskStep(t, op)

LEMMA OthersAlike ==
  ASSUME RequestTyped, OtherSteps
  PROVE  AllAlike
<1>0. \A r \in Requests : Request(req[r])
  BY DEF RequestTyped
<1>s. UNCHANGED req => AllAlike
  BY DEF AllAlike, Alike
<1>1. CASE \/ \E f \in Frames : Capture(f)
           \/ \E f \in Frames : CloseFrame(f)
           \/ \E f \in Frames, p \in Paths : ChangeRoute(f, p)
           \/ \E f \in Frames, p \in Paths, o \in Origins : Navigate(f, o, p)
           \/ ClearAll
  BY <1>1, <1>s DEF Capture, CloseFrame, ChangeRoute, Navigate, ClearAll
<1>2. CASE \/ \E m \in net : ShowMarkers(m)
           \/ \E m \in net : TakeDown(m)
           \/ \E m \in net : HandleRestore(m)
           \/ \E t \in tasks : TaskEnd(t)
           \/ ReconStart
  BY <1>2, <1>s DEF ShowMarkers, TakeDown, HandleRestore, TaskEnd, ReconStart, Rest
<1>3. CASE \/ ReconRemove
           \/ ReconLeave
           \/ ReconClear
           \/ ReconGiveUp
           \/ ReconBind
  BY <1>3, <1>s DEF ReconRemove, ReconLeave, ReconClear, ReconGiveUp, ReconBind, Rest
<1>4. CASE \/ ReconFinalize
           \/ ReconDrain
           \/ ReconEnd
           \/ \E op \in recon.todo : ReconTake(op)
           \/ DrainStart
  BY <1>4, <1>s DEF ReconFinalize, ReconDrain, ReconEnd, ReconTake, DrainStart, Rest
<1>5. CASE \/ DrainEnd
           \/ Reschedule
           \/ AlarmFires
           \/ LoadBarriers
           \/ \E op \in Ops : Finalize(op)
  BY <1>5, <1>s DEF DrainEnd, Reschedule, AlarmFires, LoadBarriers, Finalize, Rest
<1>6. CASE \/ \E op \in Ops : Forget(op)
           \/ \E m \in net : LoseMessage(m)
  BY <1>6, <1>s DEF Forget, LoseMessage
<1>7. CASE \/ \E ref \in Due : Deliver(ref)
           \/ \E ref \in sends : Timeout(ref)
           \/ \E m \in net : Acknowledged(m)
           \/ \E m \in net : Disbelieved(m)
           \/ PassError
  <2>1. \/ \E ref, ok : Answered(ref, ok)
        \/ \E ref : req' = [r \in Requests |-> [req[r] EXCEPT !.unsent = @ \ {ref}]]
        \/ UNCHANGED req
    BY <1>7 DEF Deliver, Timeout, Acknowledged, Disbelieved, PassError
  <2>2. ASSUME NEW ref, req' = [r \in Requests |-> [req[r] EXCEPT !.unsent = @ \ {ref}]]
        PROVE  AllAlike
    BY <1>0, <2>2, LessAlike DEF AllAlike
  <2>3. ASSUME NEW ref, NEW ok, Answered(ref, ok)
        PROVE  AllAlike
    <3> SUFFICES ASSUME NEW r \in Requests  PROVE Alike(req'[r], req[r])
      BY DEF AllAlike
    <3> PICK q : q = req[r]  OBVIOUS
    <3>1. \/ req'[r] = q
          \/ req'[r] = [q EXCEPT !.waiting = @ \ {ref}, !.unsent = @ \ {ref},
                                 !.failed = @ \/ ~ok]
      BY <2>3 DEF Answered
    <3>2. Alike(q, q)
      BY DEF Alike
    <3>3. Alike([q EXCEPT !.waiting = @ \ {ref}, !.unsent = @ \ {ref},
                            !.failed = @ \/ ~ok], q)
      BY <1>0, LessAlike
    <3> QED  BY <3>1, <3>2, <3>3
  <2> QED  BY <2>1, <2>2, <2>3, <1>s
<1>8. CASE \E s \in navs : HandleNavigation(s)
  <2>1. req' = [r \in Requests |-> [req[r] EXCEPT !.fresh = FALSE]]
    BY <1>8 DEF HandleNavigation
  <2> QED  BY <1>0, <2>1, LessAlike DEF AllAlike
<1>9. CASE \E t \in tasks : \E op \in t.todo : TaskStep(t, op)
  <2>1. \/ UNCHANGED req
        \/ \E ref : req' = [r \in Requests |->
                              IF ref \notin req[r].waiting THEN req[r]
                              ELSE [req[r] EXCEPT !.waiting = @ \ {ref}, !.failed = TRUE,
                                                  !.unsent = @ \ {ref}]]
    BY <1>9, TaskStepWaits DEF LetGo
  <2>2. ASSUME NEW ref,
               req' = [r \in Requests |->
                         IF ref \notin req[r].waiting THEN req[r]
                         ELSE [req[r] EXCEPT !.waiting = @ \ {ref}, !.failed = TRUE,
                                             !.unsent = @ \ {ref}]]
        PROVE  AllAlike
    <3> SUFFICES ASSUME NEW r \in Requests  PROVE Alike(req'[r], req[r])
      BY DEF AllAlike
    <3> PICK q : q = req[r]  OBVIOUS
    <3>1. \/ req'[r] = q
          \/ req'[r] = [q EXCEPT !.waiting = @ \ {ref}, !.failed = TRUE,
                                 !.unsent = @ \ {ref}]
      BY <2>2
    <3>2. Alike(q, q)
      BY DEF Alike
    <3>3. Alike([q EXCEPT !.waiting = @ \ {ref}, !.failed = TRUE, !.unsent = @ \ {ref}], q)
      BY <1>0, LessAlike
    <3> QED  BY <3>1, <3>2, <3>3
  <2> QED  BY <2>1, <2>2, <1>s
<1> QED  BY <1>1, <1>2, <1>3, <1>4, <1>5, <1>6, <1>7, <1>8, <1>9 DEF OtherSteps

LEMMA RequestMoves ==
  ASSUME IInv, Step
  PROVE  ReqMoves
<1>0. RequestTyped /\ \A r \in Requests : Request(req[r])
  BY DEF IInv, Typed, RequestTyped
<1>1. CASE OtherSteps
  BY <1>0, <1>1, OthersAlike, AlikeMoves
<1>2. CASE \E r \in Requests : Resume(r)
  <2> PICK r \in Requests : Resume(r)
    BY <1>2
  <2> PICK op, q : op = req[r].op /\ q = req[r]  OBVIOUS
  <2>1. Shaped(q) /\ op \in DOMAIN journal
    BY <1>0, RequestShape DEF Resume, MayResume, Present
  <2> PICK g, af, su, rf, b, p :
        /\ g = journal[op].gen /\ af = journal[op].after /\ su = DOMAIN journal[op].targets
        /\ rf = OpenRefs(op) /\ b = journal[op].before
        /\ p = IF Settled(op) THEN "cleared" ELSE "prepared"
    OBVIOUS
  <2> PICK n, m :
        /\ n = [q EXCEPT !.pc = "await", !.resumed = TRUE, !.gen = g, !.after = af,
                         !.subs = su, !.unsent = rf, !.waiting = rf]
        /\ m = [q EXCEPT !.resumed = TRUE, !.before = b, !.pc = p]
    OBVIOUS
  <2>2. req' = [req EXCEPT ![r] = IF Bound(op) THEN n ELSE m]
    BY DEF Resume
  <2>3. n.pc = "await" /\ n.after = af /\ n.reply = q.reply
    BY <2>1 DEF Shaped
  <2>4. m.pc = p /\ m.reply = q.reply
    BY <2>1 DEF Shaped
  <2>5. ReqMove(n, q)
    BY <2>1, <2>3 DEF ReqMove
  <2>6. ReqMove(m, q)
    BY <2>4 DEF ReqMove
  <2> QED  BY <1>0, <2>2, <2>5, <2>6, OneMoves
<1>3. CASE (\E r \in Requests : Refuse(r)) \/ (\E r \in Requests : Withdraw(r))
  <2>1. \E r \in Requests, d \in BOOLEAN : Fail(r, d)
    BY <1>3 DEF Refuse, Withdraw
  <2> QED  BY <1>0, <2>1, FailMoves
<1>4. CASE \E r \in Requests : Discover(r)
  <2> PICK r \in Requests : Discover(r)
    BY <1>4
  <2> PICK q : q = req[r]  OBVIOUS
  <2>1. Shaped(q)
    BY <1>0, RequestShape
  <2> PICK sh : sh = {live[f] : f \in {g \in Frames \ closed : PlaceOf(live[g]) \in saved}}
    OBVIOUS
  <2> PICK os : os = {q.origin} \cup {s.origin : s \in sh}
    OBVIOUS
  <2> PICK b : b = [o \in os |-> IF o = q.origin THEN q.epoch ELSE epoch[o]]
    OBVIOUS
  <2> PICK n : n = [q EXCEPT !.pc = "found", !.fresh = TRUE, !.subs = sh, !.before = b]
    OBVIOUS
  <2>2. n.pc = "found" /\ n.subs = sh /\ n.reply = q.reply
    BY <2>1 DEF Shaped
  <2>3. \A s \in sh : \E f \in Frames : s = live[f]
    OBVIOUS
  <2>4. ReqMove(n, q)
    BY <2>2, <2>3 DEF ReqMove
  <2>5. req' = [req EXCEPT ![r] = n] \/ Fail(r, FALSE)
    BY DEF Discover
  <2> QED  BY <1>0, <2>4, <2>5, OneMoves, FailMoves
<1>5. CASE \E r \in Requests : StartClear(r) \/ ClearSessions(r) \/ GiveUp(r) \/ Ask(r)
                                 \/ Delivered(r)
  <2>0. PICK r \in Requests : StartClear(r) \/ ClearSessions(r) \/ GiveUp(r) \/ Ask(r)
                                 \/ Delivered(r)
    BY <1>5
  <2>1. \/ \E d : Fail(r, d)
        \/ \E p \in {"prepared", "cleared", "drop", "asked"} : req' = [req EXCEPT ![r].pc = p]
        \/ req[r].pc = "await" /\ req' = [req EXCEPT ![r].pc = "final"]
        \/ UNCHANGED req
    <3>1. CASE StartClear(r)
      BY <3>1 DEF StartClear
    <3>2. CASE ClearSessions(r)
      <4>1. req[r].pc = "prepared"
        BY <3>2 DEF ClearSessions
      <4>2. ASSUME NEW o, IF CutShort(req[r].op, o) THEN Fail(r, TRUE)
                          ELSE req' = [req EXCEPT ![r].pc = IF Entries(req[r].op, "pending") = {o}
                                                            THEN "cleared" ELSE @]
            PROVE  \/ Fail(r, TRUE)
                   \/ \E p \in {"prepared", "cleared"} : req' = [req EXCEPT ![r].pc = p]
        BY <4>1, <4>2
      <4>3. \/ UNCHANGED req \/ Fail(r, TRUE)
            \/ \E o : IF CutShort(req[r].op, o) THEN Fail(r, TRUE)
                      ELSE req' = [req EXCEPT ![r].pc = IF Entries(req[r].op, "pending") = {o}
                                                        THEN "cleared" ELSE @]
        BY <3>2 DEF ClearSessions
      <4> QED  BY <4>1, <4>2, <4>3
    <3>3. CASE GiveUp(r)
      BY <3>3 DEF GiveUp
    <3>4. CASE Delivered(r)
      BY <3>4 DEF Delivered
    <3>5. CASE Ask(r)
      BY <3>5 DEF Ask
    <3> QED  BY <2>0, <3>1, <3>2, <3>3, <3>4, <3>5
  <2>2. ASSUME NEW p \in {"prepared", "cleared", "drop", "asked"},
               req' = [req EXCEPT ![r].pc = p]
        PROVE  ReqMoves
    BY <1>0, <2>2, PcMoves
  <2>3. ASSUME req[r].pc = "await", req' = [req EXCEPT ![r].pc = "final"]
        PROVE  ReqMoves
    BY <1>0, <2>3, PcMoves
  <2> QED  BY <1>0, <2>1, <2>2, <2>3, FailMoves, ReqSame
<1>6. CASE \E r \in Requests : Reply(r)
  <2> PICK r \in Requests : Reply(r)
    BY <1>6
  <2>1. \/ \E d : Fail(r, d)
        \/ /\ req' = [req EXCEPT ![r].pc = "settle", ![r].reply = "ok"]
           /\ req[r].pc = "final"
           /\ req[r].resumed \/ DOMAIN req[r].before = DOMAIN req[r].after
    BY DEF Reply
  <2> QED  BY <1>0, <2>1, FailMoves, SettleMoves
<1>7. CASE \E r \in Requests : Bind(r)
  <2> PICK r \in Requests : Bind(r)
    BY <1>7
  <2> PICK op, q : op = req[r].op /\ q = req[r]  OBVIOUS
  <2>1. Shaped(q) /\ q.pc = "cleared"
    BY <1>0, RequestShape DEF Bind
  <2>2. op \in DOMAIN canon
    BY <2>1 DEF IInv, RestOK, HolderOK, Settled, InCanon
  <2> PICK rf : rf = {[op |-> req[r].op, gen |-> canon[req[r].op].gen, sub |-> s,
                       rev |-> journal[req[r].op].targets[s].rev] :
                        s \in {x \in OpenSubjects(req[r].op) :
                                x.origin \in DOMAIN Committed(req[r].op)}}
    OBVIOUS
  <2> PICK g, af, su : /\ g = canon[op].gen /\ af = Committed(op)
                       /\ su = DOMAIN journal'[op].targets
    OBVIOUS
  <2> PICK n : n = [q EXCEPT !.pc = "await", !.gen = g, !.after = af, !.subs = su,
                             !.unsent = rf, !.waiting = rf]
    OBVIOUS
  <2>3. req' = [req EXCEPT ![r] = n]
    BY DEF Bind
  <2>4. n.pc = "await" /\ n.after = af /\ n.reply = q.reply
    BY <2>1 DEF Shaped
  <2>5. ReqMove(n, q)
    BY <2>2, <2>4 DEF ReqMove
  <2> QED  BY <1>0, <2>3, <2>5, OneMoves
<1>8. CASE (\E r \in Requests : Settle(r) \/ BarrierError(r)) \/ WorkerDies
  <2>1. ASSUME NEW r \in Requests, NEW x
        PROVE  Done(r, x).pc = "done" /\ Done(r, x).reply = x
    BY DEF Done, NewReq
  <2>2. ASSUME NEW r \in Requests, NEW x \in {req[r].reply, "failed"}
        PROVE  ReqMove(Done(r, x), req[r])
    BY <2>1, <2>2 DEF ReqMove
  <2>3. CASE \E r \in Requests : Settle(r) \/ BarrierError(r)
    <3> PICK r \in Requests : Settle(r) \/ BarrierError(r)
      BY <2>3
    <3>1. CASE \E x \in {req[r].reply, "failed"} : req' = [req EXCEPT ![r] = Done(r, x)]
      <4> PICK x \in {req[r].reply, "failed"} : req' = [req EXCEPT ![r] = Done(r, x)]
        BY <3>1
      <4> PICK n : n = Done(r, x)  OBVIOUS
      <4>1. req' = [req EXCEPT ![r] = n] /\ ReqMove(n, req[r])
        BY <2>2
      <4> QED  BY <1>0, <4>1, OneMoves
    <3>2. CASE req' = [req EXCEPT ![r].pc = "gone"]
      BY <1>0, <3>2, PcMoves
    <3> QED  BY <3>1, <3>2 DEF Settle, BarrierError
  <2>4. CASE WorkerDies
    <3>1. req' = [r \in Requests |-> IF req[r].pc \in Still THEN req[r] ELSE Done(r, "failed")]
      BY <2>4 DEF WorkerDies
    <3>2. ASSUME NEW r \in Requests  PROVE ReqMove(req'[r], req[r])
      <4>1. req'[r] = req[r] \/ req'[r] = Done(r, "failed")
        BY <3>1
      <4>2. ReqMove(req[r], req[r])
        BY DEF ReqMove, Alike
      <4> QED  BY <2>2, <4>1, <4>2
    <3> QED  BY <3>2 DEF ReqMoves
  <2> QED  BY <1>8, <2>3, <2>4
<1>9. CASE \E r \in Requests, op \in Ops : Look(r, op)
  <2> PICK r \in Requests, op \in Ops : Look(r, op)
    BY <1>9
  <2> PICK q, o : q = req[r] /\ o = Top.origin  OBVIOUS
  <2> PICK n : n = [q EXCEPT !.pc = "looked", !.op = op, !.origin = o, !.epoch = epoch[o]]
    OBVIOUS
  <2>1. Shaped(q)
    BY <1>0, RequestShape
  <2>2. n.pc = "looked" /\ n.reply = q.reply
    BY <2>1 DEF Shaped
  <2>3. ReqMove(n, q)
    BY <2>2 DEF ReqMove
  <2>4. req' = [req EXCEPT ![r] = n]
    BY DEF Look
  <2> QED  BY <1>0, <2>3, <2>4, OneMoves
<1>10. CASE \E r \in Requests : RequestError(r)
  <2> PICK r \in Requests : RequestError(r)
    BY <1>10
  <2> PICK q : q = req[r]  OBVIOUS
  <2> PICK n : n = [q EXCEPT !.pc = "settle", !.reply = "failed", !.unsent = {},
                             !.waiting = {}]
    OBVIOUS
  <2>1. Shaped(q)
    BY <1>0, RequestShape
  <2>2. n.pc = "settle" /\ n.reply = "failed"
    BY <2>1 DEF Shaped
  <2>3. ReqMove(n, q)
    BY <2>2 DEF ReqMove
  <2>4. req' = [req EXCEPT ![r] = n]
    BY DEF RequestError
  <2> QED  BY <1>0, <2>3, <2>4, OneMoves
<1> QED  BY <1>1, <1>2, <1>3, <1>4, <1>5, <1>6, <1>7, <1>8, <1>9, <1>10
         DEF Step, OtherSteps

-----------------------------------------------------------------------------
(* No one knows of a document yet to come: KnownOK.                        *)

LEMMA AckIs ==
  ASSUME PageTyped, NEW x \in net, x.kind = "tomb", NEW m, m = [x EXCEPT !.kind = "ack"]
  PROVE  m.kind = "ack" /\ m.sub = x.sub /\ m.ref = x.ref /\ m.after = x.after
<1>1. x \in [kind : {"tomb", "ack"}, sub : Subject, ref : Ref, after : Nat]
  BY DEF PageTyped, Message
<1>2. x = [kind |-> x.kind, sub |-> x.sub, ref |-> x.ref, after |-> x.after]
  BY <1>1
<1> QED  BY <1>2

LEMMA SeenMoves ==
  ASSUME IInv, IInv', KnownOK, Step, NEW s, Seen(s)'
  PROVE  Seen(s) \/ (\E f \in Frames : s = live[f]) \/ s = live'[s.frame]
<1>0. (Idle \/ Moving) /\ PageTyped /\ PageTyped' /\ Typed
  BY StepMoves DEF IInv, Typed
<1>1. CASE \E m \in net' : s = m.sub
  <2> PICK m \in net' : s = m.sub
    BY <1>1
  <2>1. CASE m \in net
    BY <2>1 DEF Seen
  <2>2. CASE m \notin net
    <3>1. CASE IsMarkers(m)
      <4>1. Seen(s) \/ s = live[s.frame]
        BY <3>1 DEF IsMarkers
      <4>2. s.frame \in Frames
        BY <1>0 DEF PageTyped, Message, Subject
      <4> QED  BY <4>1, <4>2
    <3>2. CASE IsAsk(m)
      BY <3>2 DEF IsAsk
    <3>3. CASE IsTomb(m)
      <4> PICK ref \in Due : IsLive(ref.sub) /\ m = [kind |-> "tomb", sub |-> ref.sub,
                   ref |-> ref, after |-> journal[ref.op].after[ref.sub.origin]]
        BY <3>3 DEF IsTomb
      <4>1. s = ref.sub /\ live[s.frame] = s
        BY DEF IsLive
      <4>2. s.frame \in Frames
        BY <1>0, <4>1, DueIs DEF Ref, Subject
      <4> QED  BY <4>1, <4>2
    <3>4. CASE IsAck(m)
      <4> PICK x \in net : x.kind = "tomb" /\ m = [x EXCEPT !.kind = "ack"]
        BY <3>4 DEF IsAck
      <4>1. m.sub = x.sub
        BY <1>0, AckIs
      <4> QED  BY <4>1 DEF Seen
    <3> QED  BY <1>0, <2>2, <3>1, <3>2, <3>3, <3>4, NetMoves
  <2> QED  BY <2>1, <2>2
<1>2. CASE s \in navs'
  <2>1. s \in navs \/ s = live'[s.frame]
    BY <1>0, <1>2, HearsayMoves
  <2> QED  BY <2>1 DEF Seen
<1>3. CASE \E t \in tasks' : s = t.sub
  <2> PICK t \in tasks' : s = t.sub
    BY <1>3
  <2>1. (\E u \in tasks : s = u.sub) \/ s \in navs \/ \E m \in net : s = m.sub
    BY <1>0, HearsayMoves
  <2> QED  BY <2>1 DEF Seen
<1>4. CASE \E op \in DOMAIN journal' : s \in DOMAIN journal'[op].targets
  <2> PICK op \in DOMAIN journal' : s \in DOMAIN journal'[op].targets
    BY <1>4
  <2>1. SubMoves(op, s)
    BY <1>0, JournalStep DEF JournalMoves
  <2> QED  BY <2>1 DEF SubMoves, Seen
<1>5. CASE \E r \in Requests : req'[r].pc = "found" /\ s \in req'[r].subs
  <2> PICK r \in Requests : req'[r].pc = "found" /\ s \in req'[r].subs
    BY <1>5
  <2>1. ReqMove(req'[r], req[r])
    BY RequestMoves DEF ReqMoves
  <2>2. \/ req[r].pc = "found" /\ s \in req[r].subs
        \/ \E f \in Frames : s = live[f]
    BY <2>1 DEF ReqMove, Alike
  <2> QED  BY <2>2 DEF Seen
<1> QED  BY <1>1, <1>2, <1>3, <1>4, <1>5 DEF Seen

LEMMA KnownStep ==
  ASSUME IInv, IInv', KnownOK, Step
  PROVE  KnownOK'
<1>0. (Idle \/ Moving) /\ PageTyped
  BY StepMoves DEF IInv, Typed
<1>1. \A f \in Frames : live'[f].frame = f
  BY <1>0, LiveMoves
<1>2. ASSUME NEW s \in Subject, Seen(s)'  PROVE Past(s)'
  <2>1. CASE Seen(s)
    BY <1>0, <2>1, PastKeeps DEF KnownOK
  <2>2. CASE \E f \in Frames : s = live[f]
    <3> PICK f \in Frames : s = live[f]
      BY <2>2
    <3>1. s.frame = f
      BY DEF KnownOK
    <3>2. Past(s)
      <4>1. s.doc \in Nat
        BY ConstantsOK DEF Subject
      <4> QED  BY <3>1, <4>1 DEF Past
    <3> QED  BY <1>0, <3>2, PastKeeps
  <2>3. CASE s = live'[s.frame]
    <3>1. s.doc \in Nat
      BY ConstantsOK DEF Subject
    <3> QED  BY <2>3, <3>1 DEF Past
  <2> QED  BY <1>2, <2>1, <2>2, <2>3, SeenMoves
<1> QED  BY <1>1, <1>2 DEF KnownOK

-----------------------------------------------------------------------------
(* What a step does to the store.                                          *)

LEMMA StoreKinds ==
  ASSUME IInv, Idle \/ Moving
  PROVE  \/ UNCHANGED <<epoch, made, canon, gens>>
         \/ \E f \in Frames : Capture(f)
         \/ ClearAll
         \/ \E op \in Ops : \E before : /\ BeginClear(op, before) /\ UNCHANGED journal
                                        /\ Partial(before, Origins, Nat)
                                        /\ Present(op) /\ before = journal[op].before
         \/ \E op \in Ops : \E o : ClearOrigin(op, o) /\ UNCHANGED journal
         \/ \E op \in Ops : FinalizeClear(op) /\ UNCHANGED <<epoch, made, gens, journal>>
<1>1. CASE \E r \in Requests : ClearSessions(r)
  <2> PICK r \in Requests : ClearSessions(r)
    BY <1>1
  <2> PICK op, before : op = req[r].op /\ before = req[r].before
    OBVIOUS
  <2>1. req[r].pc = "prepared" /\ UNCHANGED journal
        /\ (BeginClear(op, before) \/ UNCHANGED storeVars \/ \E o : ClearOrigin(op, o))
    BY DEF ClearSessions
  <2>2. op \in Ops /\ Partial(before, Origins, Nat) /\ Present(op) /\ before = journal[op].before
    BY <2>1, RequestIs DEF Holding, IInv, RestOK, HolderOK
  <2> QED  BY <2>1, <2>2 DEF storeVars
<1>2. CASE ReconClear
  <2>1. \E o : ClearOrigin(recon.held, o)
    BY <1>2 DEF ReconClear
  <2>2. UNCHANGED journal
    BY <1>2 DEF ReconClear
  <2>3. recon.held \in Ops
    BY <2>1, CanonIs DEF ClearOrigin
  <2> QED  BY <2>1, <2>2, <2>3
<1>3. CASE ReconGiveUp
  <2>1. FinalizeClear(recon.held) /\ InCanon(recon.held)
    BY <1>3 DEF ReconGiveUp, Settled
  <2>2. UNCHANGED <<epoch, made, gens, journal>>
    BY <1>3 DEF ReconGiveUp
  <2> QED  BY <2>1, <2>2, CanonIs
<1>4. CASE \E op \in Ops : Finalize(op)
  <2> PICK op \in Ops : Finalize(op)
    BY <1>4
  <2>1. (FinalizeClear(op) \/ UNCHANGED canon) /\ UNCHANGED <<epoch, made, gens, journal>>
    BY DEF Finalize
  <2> QED  BY <2>1
<1>5. CASE \E r \in Requests : GiveUp(r)
  <2> PICK r \in Requests : GiveUp(r)
    BY <1>5
  <2>1. /\ UNCHANGED <<epoch, made, gens>>
        /\ UNCHANGED canon \/ (FinalizeClear(req[r].op) /\ UNCHANGED journal
                               /\ req[r].pc = "cleared")
    BY DEF GiveUp
  <2>2. req[r].pc = "cleared" => req[r].op \in Ops
    BY RequestIs DEF IInv
  <2> QED  BY <2>1, <2>2
<1> QED  BY <1>1, <1>2, <1>3, <1>4, <1>5, StoreMovers

\* An origin's epoch stays, goes, or becomes one that is not older than any before.
EpochMoves(o) ==
  /\ made[o] \in Nat /\ made'[o] \in Nat /\ made[o] <= made'[o] /\ epoch'[o] <= made'[o]
  /\ epoch[o] \in Nat /\ epoch'[o] \in Nat
  /\ epoch'[o] = 0 \/ epoch'[o] = epoch[o] \/ made[o] <= epoch'[o]

\* A canonical clear was there, and at most one more of its origins is cleared now,
\* or it is new, under the next authority and with the next epochs.
EntryMoves(x, p) ==
  /\ canon'[x].entry[p].after = canon[x].entry[p].after
  /\ \/ canon'[x].entry[p].state = canon[x].entry[p].state
     \/ /\ canon[x].entry[p].state = "pending" /\ canon'[x].entry[p].state # "pending"
        /\ canon'[x].entry[p].state = "committed" => epoch'[p] = canon[x].entry[p].after
CanonMoves(x) ==
  \/ /\ x \in DOMAIN canon /\ canon'[x].gen = canon[x].gen
     /\ DOMAIN canon'[x].entry = DOMAIN canon[x].entry
     /\ \A p \in DOMAIN canon[x].entry : EntryMoves(x, p)
  \/ /\ canon'[x].gen = gens + 1 /\ gens' = gens + 1 /\ UNCHANGED <<journal, live, fence>>
     /\ net' \subseteq net
     /\ \A p \in DOMAIN canon'[x].entry : canon'[x].entry[p].state = "pending"

LEMMA ClearOriginEntry ==
  ASSUME IInv, NEW op, NEW o, ClearOrigin(op, o)
  PROVE  /\ o \in DOMAIN canon[op].entry /\ o \in Origins /\ op \in DOMAIN canon
         /\ canon[op].entry[o].state = "pending" /\ canon[op].entry[o].after \in Nat
         /\ EntryMoves(op, o) /\ UNCHANGED made
         /\ epoch' = epoch \/ epoch' = [epoch EXCEPT ![o] = canon[op].entry[o].after]
<1>1. /\ InCanon(op) /\ o \in Entries(op, "pending") /\ UNCHANGED made
      /\ epoch' = epoch \/ epoch' = [epoch EXCEPT ![o] = canon[op].entry[o].after]
  BY DEF ClearOrigin
<1>2. o \in DOMAIN canon[op].entry /\ canon[op].entry[o].state = "pending"
  BY <1>1 DEF Entries
<1>3. /\ canon[op] = [gen |-> canon[op].gen, entry |-> canon[op].entry]
      /\ Partial(canon[op].entry, Origins, Entry)
  BY <1>1 DEF IInv, Typed, StoreTyped, Canonical, InCanon
<1> PICK e : e = canon[op].entry  OBVIOUS
<1> PICK st : st = IF Clearable(op, o) THEN "committed" ELSE "conflict"  OBVIOUS
<1>4. e = [x \in DOMAIN e |-> e[x]] /\ e[o] \in Entry /\ o \in Origins
  BY <1>2, <1>3, PartialIs
<1> PICK en : en = [e[o] EXCEPT !.state = st]  OBVIOUS
<1>5. en.state = st /\ en.after = e[o].after /\ e[o].after \in Nat
  BY <1>4 DEF Entry
<1> PICK f : f = [e EXCEPT ![o] = en]  OBVIOUS
<1>6. f[o] = en
  BY <1>2, <1>4
<1> PICK c : c = [canon[op] EXCEPT !.entry = f]  OBVIOUS
<1>7. c.entry = f
  BY <1>3
<1>8. canon' = [canon EXCEPT ![op] = c]
  BY DEF ClearOrigin
<1>9. canon'[op].entry[o] = en
  BY <1>1, <1>6, <1>7, <1>8 DEF IInv, Typed, StoreTyped, InCanon
<1>10. st = "committed" => epoch' = [epoch EXCEPT ![o] = e[o].after]
  BY DEF ClearOrigin
<1>11. st = "committed" => epoch'[o] = e[o].after
  BY <1>4, <1>10 DEF IInv, Typed, StoreTyped
<1>12. EntryMoves(op, o)
  BY <1>2, <1>5, <1>9, <1>11 DEF EntryMoves
<1> QED  BY <1>1, <1>2, <1>4, <1>5, <1>12 DEF InCanon

\* A new authority is the store's own affair.
LEMMA GensMovers ==
  ASSUME IInv, Idle \/ Moving, gens' # gens
  PROVE  UNCHANGED <<journal, live, fence, marks, tasks, navs>> /\ net' \subseteq net
<1>1. ~ \E f \in Frames : Capture(f)
  BY DEF Capture
<1>2. ~ ClearAll
  BY DEF ClearAll
<1>3. ~ (\E op \in Ops : Finalize(op)) /\ ~ReconGiveUp /\ ~ \E r \in Requests : GiveUp(r)
  BY DEF Finalize, ReconGiveUp, GiveUp
<1>4. (\E r \in Requests : ClearSessions(r)) \/ ReconClear
  BY <1>1, <1>2, <1>3, StoreMovers
<1> QED  BY <1>4 DEF ClearSessions, ReconClear, Rest, pageVars

LEMMA EpochStep ==
  ASSUME IInv, EpochOK, Idle \/ Moving, NEW o \in Origins
  PROVE  EpochMoves(o)
<1>0. /\ StoreTyped /\ epoch[o] \in Nat /\ made[o] \in Nat /\ epoch[o] <= made[o]
  BY DEF IInv, Typed, StoreTyped, EpochOK
<1>1. CASE UNCHANGED <<epoch, made, canon, gens>>
  BY <1>0, <1>1 DEF EpochMoves
<1>2. CASE \E f \in Frames : Capture(f)
  <2> PICK f \in Frames : Capture(f)
    BY <1>2
  <2> PICK p : p = live[f].origin  OBVIOUS
  <2> PICK e : e = IF epoch[p] = 0 THEN made[p] + 1 ELSE epoch[p]  OBVIOUS
  <2> PICK d : d = IF epoch[p] = 0 THEN e ELSE made[p]  OBVIOUS
  <2>1. epoch' = [epoch EXCEPT ![p] = e] /\ made' = [made EXCEPT ![p] = d]
    BY DEF Capture
  <2>2. CASE p = o
    <3>1. epoch'[o] = e /\ made'[o] = d
      BY <1>0, <2>1, <2>2 DEF StoreTyped
    <3>2. /\ e = IF epoch[o] = 0 THEN made[o] + 1 ELSE epoch[o]
          /\ d = IF epoch[o] = 0 THEN e ELSE made[o]
      BY <2>2
    <3>3. CASE epoch[o] = 0
      BY <1>0, <3>1, <3>2, <3>3 DEF EpochMoves
    <3>4. CASE epoch[o] # 0
      BY <1>0, <3>1, <3>2, <3>4 DEF EpochMoves
    <3> QED  BY <3>3, <3>4
  <2>3. CASE p # o
    <3>1. epoch'[o] = epoch[o] /\ made'[o] = made[o]
      BY <1>0, <2>1, <2>3 DEF StoreTyped
    <3> QED  BY <1>0, <3>1 DEF EpochMoves
  <2> QED  BY <2>2, <2>3
<1>3. CASE ClearAll
  BY <1>0, <1>3 DEF ClearAll, EpochMoves
<1>4. CASE \E op \in Ops : \E before : BeginClear(op, before)
  <2> PICK op \in Ops : \E before : BeginClear(op, before)
    BY <1>4
  <2> PICK before : BeginClear(op, before)
    OBVIOUS
  <2>1. /\ made' = [p \in Origins |-> made[p] + IF p \in DOMAIN before THEN 1 ELSE 0]
        /\ epoch' = epoch
    BY DEF BeginClear
  <2>2. made'[o] = made[o] \/ made'[o] = made[o] + 1
    BY <1>0, <2>1
  <2> QED  BY <1>0, <2>1, <2>2 DEF EpochMoves
<1>5. CASE \E op \in Ops : \E p : ClearOrigin(op, p)
  <2> PICK op \in Ops : \E p : ClearOrigin(op, p)
    BY <1>5
  <2> PICK p : ClearOrigin(op, p)
    OBVIOUS
  <2> PICK a : a = canon[op].entry[p].after  OBVIOUS
  <2>1. /\ p \in DOMAIN canon[op].entry /\ op \in DOMAIN canon /\ a \in Nat
        /\ canon[op].entry[p].state = "pending"
        /\ UNCHANGED made /\ (epoch' = epoch \/ epoch' = [epoch EXCEPT ![p] = a])
    BY ClearOriginEntry
  <2>2. a = made[p]
    BY <2>1 DEF EpochOK, Entries
  <2>3. epoch'[o] = epoch[o] \/ epoch'[o] = made[o]
    BY <1>0, <2>1, <2>2 DEF StoreTyped
  <2> QED  BY <1>0, <2>1, <2>3 DEF EpochMoves
<1>6. CASE \E op \in Ops : FinalizeClear(op) /\ UNCHANGED <<epoch, made, gens, journal>>
  BY <1>0, <1>6 DEF EpochMoves
<1> QED  BY <1>1, <1>2, <1>3, <1>4, <1>5, <1>6, StoreKinds

LEMMA ClearedKeeps ==
  ASSUME IInv, EpochOK, Idle \/ Moving, NEW o, NEW a, Cleared(o, a)
  PROVE  Cleared(o, a)'
<1>1. o \in Origins /\ a \in Nat /\ a <= made[o] /\ (epoch[o] = 0 \/ a <= epoch[o])
  BY DEF Cleared
<1>2. EpochMoves(o)
  BY <1>1, EpochStep
<1> QED  BY <1>1, <1>2 DEF EpochMoves, Cleared

LEMMA CanonStep ==
  ASSUME IInv, Idle \/ Moving, NEW x \in DOMAIN canon'
  PROVE  CanonMoves(x)
<1>1. CASE canon' = canon
  BY <1>1 DEF CanonMoves, EntryMoves
<1>2. CASE \E op \in Ops : \E before : BeginClear(op, before)
  <2> PICK op \in Ops : \E before : BeginClear(op, before)
    BY <1>2
  <2> PICK before : BeginClear(op, before)
    OBVIOUS
  <2> PICK en : en = [o \in DOMAIN before |->
                        [before |-> before[o], after |-> made[o] + 1, state |-> "pending"]]
    OBVIOUS
  <2> PICK c : c = [gen |-> gens + 1, entry |-> en]
    OBVIOUS
  <2>1. /\ canon' = [y \in DOMAIN canon \cup {op} |-> IF y # op THEN canon[y] ELSE c]
        /\ gens' = gens + 1
    BY DEF BeginClear
  <2>2. c.gen = gens + 1 /\ \A p \in DOMAIN c.entry : c.entry[p].state = "pending"
    OBVIOUS
  <2>3. CASE x = op
    <3>1. canon'[x] = c
      BY <2>1, <2>3
    <3>2. UNCHANGED <<journal, live, fence>> /\ net' \subseteq net
      <4>1. gens' # gens
        BY <2>1 DEF IInv, Typed, StoreTyped
      <4> QED  BY <4>1, GensMovers
    <3> QED  BY <2>1, <2>2, <3>1, <3>2 DEF CanonMoves
  <2>4. CASE x # op
    <3>1. x \in DOMAIN canon /\ canon'[x] = canon[x]
      BY <2>1, <2>4
    <3> QED  BY <3>1 DEF CanonMoves, EntryMoves
  <2> QED  BY <2>3, <2>4
<1>3. CASE \E op \in Ops : \E p : ClearOrigin(op, p)
  <2> PICK op \in Ops : \E p : ClearOrigin(op, p)
    BY <1>3
  <2> PICK p : ClearOrigin(op, p)
    OBVIOUS
  <2>1. /\ DOMAIN canon' = DOMAIN canon
        /\ \A y \in DOMAIN canon \ {op} : canon'[y] = canon[y]
        /\ canon'[op].gen = canon[op].gen
        /\ DOMAIN canon'[op].entry = DOMAIN canon[op].entry
        /\ \A o \in DOMAIN canon[op].entry \ {p} : canon'[op].entry[o] = canon[op].entry[o]
    BY ClearOriginSets
  <2>2. EntryMoves(op, p)
    BY ClearOriginEntry
  <2>3. CASE x = op
    <3>1. \A o \in DOMAIN canon[op].entry : EntryMoves(op, o)
      BY <2>1, <2>2 DEF EntryMoves
    <3> QED  BY <2>1, <2>3, <3>1 DEF CanonMoves
  <2>4. CASE x # op
    <3>1. x \in DOMAIN canon /\ canon'[x] = canon[x]
      BY <2>1, <2>4
    <3> QED  BY <3>1 DEF CanonMoves, EntryMoves
  <2> QED  BY <2>3, <2>4
<1>4. CASE \E op \in Ops : FinalizeClear(op)
  <2>1. x \in DOMAIN canon /\ canon'[x] = canon[x]
    BY <1>4 DEF FinalizeClear
  <2> QED  BY <2>1 DEF CanonMoves, EntryMoves
<1>5. (\E f \in Frames : Capture(f)) \/ ClearAll => UNCHANGED canon
  BY DEF Capture, ClearAll
<1> QED  BY <1>1, <1>2, <1>3, <1>4, <1>5, StoreKinds

LEMMA EntryTyped ==
  ASSUME IInv, NEW op \in DOMAIN canon, NEW o \in DOMAIN canon[op].entry
  PROVE  o \in Origins /\ canon[op].entry[o] \in Entry
BY PartialIs DEF IInv, Typed, StoreTyped, Canonical

-----------------------------------------------------------------------------
(* What an origin is promised holds from the clear on: EpochOK, PromisesOK. *)

LEMMA EpochKeeps ==
  ASSUME IInv, IInv', EpochOK, Idle \/ Moving
  PROVE  EpochOK'
<1>0. StoreTyped /\ StoreTyped'
  BY DEF IInv, Typed
<1>1. \A o \in Origins : epoch'[o] <= made'[o]
  BY EpochStep DEF EpochMoves
<1>2. ASSUME NEW x \in DOMAIN canon', NEW o \in DOMAIN canon'[x].entry,
             canon'[x].entry[o].state = "pending"
      PROVE  canon'[x].entry[o].after = made'[o]
  <2>0. o \in Origins
    <3> PICK e : e = canon'[x].entry  OBVIOUS
    <3>1. Partial(e, Origins, Entry)
      BY <1>0 DEF StoreTyped, Canonical
    <3> QED  BY <3>1, PartialIs
  <2>1. ASSUME x \in DOMAIN canon, o \in DOMAIN canon[x].entry, made'[o] = made[o],
               canon'[x].entry[o] = canon[x].entry[o] \/ EntryMoves(x, o)
        PROVE  canon'[x].entry[o].after = made'[o]
    <3>1. canon[x].entry[o].state = "pending"
      BY <1>2, <2>1 DEF EntryMoves
    <3>2. canon[x].entry[o].after = made[o]
      BY <2>1, <3>1 DEF EpochOK, Entries
    <3> QED  BY <2>1, <3>2 DEF EntryMoves
  <2>2. CASE UNCHANGED <<made, canon>>
    BY <2>1, <2>2
  <2>3. CASE \E f \in Frames : Capture(f)
    <3> PICK f \in Frames : Capture(f)
      BY <2>3
    <3> PICK p : p = live[f].origin  OBVIOUS
    <3>1. canon' = canon /\ p \notin Entries(x, "pending") /\ \E d : made' = [made EXCEPT ![p] = d]
      BY DEF Capture
    <3>2. o # p
      BY <1>2, <3>1 DEF Entries
    <3>3. made'[o] = made[o]
      BY <1>0, <2>0, <3>1, <3>2 DEF StoreTyped
    <3> QED  BY <2>1, <3>1, <3>3
  <2>4. CASE \E op \in Ops : \E before : BeginClear(op, before)
    <3> PICK op \in Ops : \E before : BeginClear(op, before)
      BY <2>4
    <3> PICK before : BeginClear(op, before)
      OBVIOUS
    <3> PICK en : en = [p \in DOMAIN before |->
                          [before |-> before[p], after |-> made[p] + 1, state |-> "pending"]]
      OBVIOUS
    <3> PICK c : c = [gen |-> gens + 1, entry |-> en]
      OBVIOUS
    <3>1. /\ canon' = [y \in DOMAIN canon \cup {op} |-> IF y # op THEN canon[y] ELSE c]
          /\ made' = [p \in Origins |-> made[p] + IF p \in DOMAIN before THEN 1 ELSE 0]
          /\ \A y \in DOMAIN canon : DOMAIN canon[y].entry \cap DOMAIN before = {}
      BY DEF BeginClear, MayBegin
    <3>2. made[o] \in Nat
      BY <1>0, <2>0 DEF StoreTyped
    <3>3. CASE x = op
      <4>1. canon'[x].entry = en
        BY <3>1, <3>3
      <4>2. o \in DOMAIN before /\ canon'[x].entry[o].after = made[o] + 1
        BY <4>1
      <4> QED  BY <2>0, <3>1, <4>2
    <3>4. CASE x # op
      <4>1. x \in DOMAIN canon /\ canon'[x] = canon[x]
        BY <3>1, <3>4
      <4>2. o \notin DOMAIN before
        BY <3>1, <4>1
      <4>3. made'[o] = made[o]
        BY <2>0, <3>1, <3>2, <4>2
      <4> QED  BY <2>1, <4>1, <4>3
    <3> QED  BY <3>3, <3>4
  <2>5. CASE \E op \in Ops : \E p : ClearOrigin(op, p)
    <3> PICK op \in Ops : \E p : ClearOrigin(op, p)
      BY <2>5
    <3> PICK p : ClearOrigin(op, p)
      OBVIOUS
    <3>1. /\ DOMAIN canon' = DOMAIN canon /\ made' = made
          /\ \A y \in DOMAIN canon \ {op} : canon'[y] = canon[y]
          /\ DOMAIN canon'[op].entry = DOMAIN canon[op].entry
          /\ \A q \in DOMAIN canon[op].entry \ {p} : canon'[op].entry[q] = canon[op].entry[q]
          /\ EntryMoves(op, p)
      BY ClearOriginSets, ClearOriginEntry
    <3>2. x \in DOMAIN canon /\ o \in DOMAIN canon[x].entry
      BY <3>1
    <3>3. canon'[x].entry[o] = canon[x].entry[o] \/ EntryMoves(x, o)
      BY <3>1, <3>2
    <3> QED  BY <2>1, <3>1, <3>2, <3>3
  <2>6. CASE \E op \in Ops : FinalizeClear(op) /\ UNCHANGED <<epoch, made, gens, journal>>
    <3>1. x \in DOMAIN canon /\ canon'[x] = canon[x] /\ made' = made
      BY <2>6 DEF FinalizeClear
    <3> QED  BY <2>1, <3>1
  <2>7. ClearAll => UNCHANGED <<made, canon>>
    BY DEF ClearAll
  <2> QED  BY <2>2, <2>3, <2>4, <2>5, <2>6, <2>7, StoreKinds
<1> QED  BY <1>1, <1>2 DEF EpochOK, Entries

LEMMA PromisesKeep ==
  ASSUME IInv, IInv', KnownOK, EpochOK, PromisesOK, Step
  PROVE  PromisesOK'
<1>0. (Idle \/ Moving) /\ PageTyped /\ JournalOK
  BY StepMoves DEF IInv, Typed
<1> SUFFICES ASSUME NEW o, NEW a, Promised(o, a)'  PROVE Cleared(o, a)'
  BY DEF PromisesOK
<1>1. ASSUME Promised(o, a)  PROVE Cleared(o, a)'
  BY <1>0, <1>1, ClearedKeeps DEF PromisesOK
<1>2. CASE \E m \in net' : m.kind \in {"tomb", "ack"} /\ o = m.sub.origin /\ a = m.after
  <2> PICK m \in net' : m.kind \in {"tomb", "ack"} /\ o = m.sub.origin /\ a = m.after
    BY <1>2
  <2>1. CASE m \in net
    BY <1>1, <2>1 DEF Promised
  <2>2. CASE IsTomb(m)
    <3> PICK ref \in Due :
          /\ MarkDelivered(ref.op, ref.gen, ref.sub, ref.rev)
          /\ m = [kind |-> "tomb", sub |-> ref.sub, ref |-> ref,
                  after |-> journal[ref.op].after[ref.sub.origin]]
      BY <2>2 DEF IsTomb
    <3> PICK op, s : op = ref.op /\ s = ref.sub
      OBVIOUS
    <3>1. m.sub = s /\ m.after = journal[op].after[s.origin]
      OBVIOUS
    <3>2. op \in DOMAIN journal /\ s \in DOMAIN journal[op].targets /\ journal[op].gen # Unbound
      BY DEF MarkDelivered, Exact, Present
    <3>3. s.origin \in DOMAIN journal[op].after
      BY <1>0, <3>2 DEF JournalOK, JournalReadable
    <3> QED  BY <1>1, <3>1, <3>2, <3>3 DEF Promised
  <2>3. CASE IsAck(m)
    <3> PICK x \in net : x.kind = "tomb" /\ m = [x EXCEPT !.kind = "ack"]
      BY <2>3 DEF IsAck
    <3>1. m.sub = x.sub /\ m.after = x.after
      BY <1>0, AckIs
    <3> QED  BY <1>1, <3>1 DEF Promised
  <2>4. ~IsMarkers(m) /\ ~IsAsk(m)
    BY DEF IsMarkers, IsAsk
  <2> QED  BY <1>0, <2>1, <2>2, <2>3, <2>4, NetMoves
<1>3. CASE \E op \in DOMAIN journal' : o \in DOMAIN journal'[op].after /\ a = journal'[op].after[o]
  <2> PICK op \in DOMAIN journal' : o \in DOMAIN journal'[op].after /\ a = journal'[op].after[o]
    BY <1>3
  <2>1. OpMoves(op)
    BY <1>0, JournalStep DEF JournalMoves
  <2>2. CASE op \in DOMAIN journal /\ journal'[op].after = journal[op].after
    BY <1>1, <2>2 DEF Promised
  <2>3. CASE InCanon(op) /\ journal'[op].after = Committed(op)
    <3>1. o \in Entries(op, "committed") /\ a = canon[op].entry[o].after
      BY <2>3 DEF Committed
    <3> QED  BY <1>1, <2>3, <3>1 DEF Promised, InCanon
  <2> QED  BY <2>1, <2>2, <2>3 DEF OpMoves
<1>4. CASE \E op \in DOMAIN canon' : /\ o \in Entries(op, "committed")'
                                     /\ a = canon'[op].entry[o].after
  <2> PICK op \in DOMAIN canon' : o \in Entries(op, "committed")' /\ a = canon'[op].entry[o].after
    BY <1>4
  <2>1. o \in DOMAIN canon'[op].entry /\ canon'[op].entry[o].state = "committed"
    BY DEF Entries
  <2>2. /\ op \in DOMAIN canon /\ o \in DOMAIN canon[op].entry /\ EntryMoves(op, o)
    BY <1>0, <2>1, CanonStep DEF CanonMoves
  <2>3. CASE canon[op].entry[o].state = "committed"
    BY <1>1, <2>2, <2>3 DEF Promised, Entries, EntryMoves
  <2>4. CASE canon[op].entry[o].state # "committed"
    <3>1. epoch'[o] = a
      BY <2>1, <2>2, <2>4 DEF EntryMoves
    <3>2. o \in Origins
      BY <2>2, EntryTyped
    <3>3. EpochMoves(o)
      BY <1>0, <3>2, EpochStep
    <3> QED  BY <3>1, <3>2, <3>3 DEF Cleared, EpochMoves
  <2> QED  BY <2>3, <2>4
<1>5. CASE \E r \in Requests : /\ req'[r].pc \in {"await", "final"}
                               /\ o \in DOMAIN req'[r].after /\ a = req'[r].after[o]
  <2> PICK r \in Requests : /\ req'[r].pc \in {"await", "final"}
                            /\ o \in DOMAIN req'[r].after /\ a = req'[r].after[o]
    BY <1>5
  <2>1. ReqMove(req'[r], req[r])
    BY RequestMoves DEF ReqMoves
  <2>2. \/ req[r].pc \in {"await", "final"} /\ req'[r].after = req[r].after
        \/ \E op \in DOMAIN journal : req'[r].after = journal[op].after
        \/ \E op \in DOMAIN canon : req'[r].after = Committed(op)
    BY <2>1 DEF ReqMove, Alike
  <2>3. CASE req[r].pc \in {"await", "final"} /\ req'[r].after = req[r].after
    BY <1>1, <2>3 DEF Promised
  <2>4. CASE \E op \in DOMAIN journal : req'[r].after = journal[op].after
    BY <1>1, <2>4 DEF Promised
  <2>5. CASE \E op \in DOMAIN canon : req'[r].after = Committed(op)
    <3> PICK op \in DOMAIN canon : req'[r].after = Committed(op)
      BY <2>5
    <3>1. o \in Entries(op, "committed") /\ a = canon[op].entry[o].after
      BY DEF Committed
    <3> QED  BY <1>1, <3>1 DEF Promised
  <2> QED  BY <2>2, <2>3, <2>4, <2>5
<1> QED  BY <1>2, <1>3, <1>4, <1>5 DEF Promised

-----------------------------------------------------------------------------
(* What a step does to a frame: FenceOK.                                   *)

FrameMoves(f) ==
  \/ /\ live'[f] = live[f] /\ fence'[f] = fence[f]
     /\ marks'[f] = 0 \/ marks'[f] = marks[f]
  \/ /\ live'[f].doc = live[f].doc /\ live'[f].origin = live[f].origin
     /\ fence'[f] = fence[f] /\ marks'[f] = 0
  \/ live[f].doc < live'[f].doc /\ fence'[f] = NoFence /\ marks'[f] = 0
  \/ /\ live'[f] = live[f] /\ fence'[f] = fence[f]
     /\ \E m \in net : /\ m.kind \in {"state", "restore"} /\ m.sub = live[f]
                       /\ marks'[f] = IF Fenced(f, m) THEN 0 ELSE m.epoch
  \/ /\ live'[f] = live[f] /\ marks'[f] = 0
     /\ \E m \in net : /\ m.kind = "tomb" /\ m.sub = live[f]
                       /\ TombstoneCounts(f, FenceOf(m)) /\ fence'[f] = FenceOf(m)

LEMMA BlankIs ==
  ASSUME PageTyped, NEW F, marks' = Blank(F), NEW f \in Frames
  PROVE  /\ marks'[f] = 0 \/ marks'[f] = marks[f]
         /\ f \in F => marks'[f] = 0
BY DEF Blank, PageTyped

LEMMA FrameStep ==
  ASSUME IInv, KnownOK, FenceOK, Idle \/ Moving, NEW f \in Frames
  PROVE  FrameMoves(f)
<1>0. /\ PageTyped /\ live[f].frame = f /\ live[f] \in Subject /\ live[f].doc \in Nat
      /\ fence = [g \in Frames |-> fence[g]]
  BY LiveIs, ConstantsOK DEF IInv, Typed, KnownOK, FenceOK, Subject
<1>1. CASE UNCHANGED <<live, marks, fence>>
  BY <1>1 DEF FrameMoves
<1>2. CASE \E g \in Frames : CloseFrame(g)
  <2> PICK g \in Frames : CloseFrame(g)
    BY <1>2
  <2> PICK F : F = {g} \cup Embedded(g)
    OBVIOUS
  <2>1. marks' = Blank(F) /\ live' = live /\ fence' = fence
    BY DEF CloseFrame
  <2> QED  BY <1>0, <2>1, BlankIs DEF FrameMoves
<1>3. CASE \E g \in Frames, p \in Paths : ChangeRoute(g, p)
  <2> PICK g \in Frames, p \in Paths : ChangeRoute(g, p)
    BY <1>3
  <2> PICK F, s : F = {g} /\ s = [live[g] EXCEPT !.path = p]
    OBVIOUS
  <2>1. marks' = Blank(F) /\ live' = [live EXCEPT ![g] = s] /\ fence' = fence
    BY DEF ChangeRoute
  <2>2. marks'[f] = 0 \/ marks'[f] = marks[f]
    BY <1>0, <2>1, BlankIs
  <2>3. f = g => marks'[f] = 0
    BY <1>0, <2>1, BlankIs
  <2>4. CASE f = g
    <3>1. live'[f] = s
      BY <1>0, <2>1, <2>4 DEF PageTyped
    <3>2. s.doc = live[f].doc /\ s.origin = live[f].origin
      BY <1>0, <2>4 DEF Subject
    <3> QED  BY <2>1, <2>3, <2>4, <3>1, <3>2 DEF FrameMoves
  <2>5. CASE f # g
    <3>1. live'[f] = live[f]
      BY <1>0, <2>1, <2>5 DEF PageTyped
    <3> QED  BY <2>1, <2>2, <3>1 DEF FrameMoves
  <2> QED  BY <2>4, <2>5
<1>4. CASE \E g \in Frames, p \in Paths, o \in Origins : Navigate(g, o, p)
  <2> PICK g \in Frames, p \in Paths, o \in Origins : Navigate(g, o, p)
    BY <1>4
  <2> PICK F, s : /\ F = {g} \cup Embedded(g)
                  /\ s = [frame |-> g, doc |-> live[g].doc + 1, origin |-> o, path |-> p]
    OBVIOUS
  <2>1. marks' = Blank(F) /\ live' = [live EXCEPT ![g] = s]
        /\ fence' = [fence EXCEPT ![g] = NoFence]
    BY DEF Navigate
  <2>2. marks'[f] = 0 \/ marks'[f] = marks[f]
    BY <1>0, <2>1, BlankIs
  <2>3. f = g => marks'[f] = 0
    <3>1. f = g => f \in F
      OBVIOUS
    <3> QED  BY <1>0, <2>1, <3>1, BlankIs
  <2>4. CASE f = g
    <3>1. live'[f] = s /\ fence'[f] = NoFence
      BY <1>0, <2>1, <2>4 DEF PageTyped
    <3>2. live[f].doc < s.doc
      BY <1>0, <2>4
    <3> QED  BY <2>3, <2>4, <3>1, <3>2 DEF FrameMoves
  <2>5. CASE f # g
    <3>1. live'[f] = live[f] /\ fence'[f] = fence[f]
      BY <1>0, <2>1, <2>5 DEF PageTyped
    <3> QED  BY <2>2, <3>1 DEF FrameMoves
  <2> QED  BY <2>4, <2>5
<1>5. CASE \E m \in net : ShowMarkers(m)
  <2> PICK m \in net : ShowMarkers(m)
    BY <1>5
  <2> PICK g : g = m.sub.frame  OBVIOUS
  <2> PICK e : e = IF Fenced(g, m) THEN 0 ELSE m.epoch  OBVIOUS
  <2>1. live' = live /\ fence' = fence /\ m.kind \in {"state", "restore"}
    BY DEF ShowMarkers
  <2>2. marks' = IF ~IsLive(m.sub) THEN marks ELSE [marks EXCEPT ![g] = e]
    BY DEF ShowMarkers
  <2>3. CASE IsLive(m.sub) /\ f = g
    <3>1. marks'[f] = e /\ m.sub = live[f]
      BY <1>0, <2>2, <2>3 DEF PageTyped, IsLive
    <3> QED  BY <2>1, <2>3, <3>1 DEF FrameMoves
  <2>4. CASE ~(IsLive(m.sub) /\ f = g)
    <3>1. marks'[f] = marks[f]
      BY <1>0, <2>2, <2>4 DEF PageTyped
    <3> QED  BY <2>1, <3>1 DEF FrameMoves
  <2> QED  BY <2>3, <2>4
<1>6. CASE \E m \in net : TakeDown(m)
  <2> PICK m \in net : TakeDown(m)
    BY <1>6
  <2> PICK g, n : g = m.sub.frame /\ n = FenceOf(m)  OBVIOUS
  <2> PICK F : F = {g}  OBVIOUS
  <2>1. /\ live' = live /\ m.kind = "tomb"
        /\ IF IsLive(m.sub) /\ TombstoneCounts(g, n)
           THEN marks' = Blank(F) /\ fence' = [fence EXCEPT ![g] = n]
           ELSE UNCHANGED <<marks, fence>>
    BY DEF TakeDown, FenceOf, FenceFor
  <2>2. CASE IsLive(m.sub) /\ TombstoneCounts(g, n) /\ f = g
    <3>1. marks'[f] = 0
      BY <1>0, <2>1, <2>2, BlankIs
    <3>2. fence'[f] = n /\ m.sub = live[f]
      BY <1>0, <2>1, <2>2 DEF IsLive
    <3> QED  BY <2>1, <2>2, <3>1, <3>2 DEF FrameMoves
  <2>3. CASE IsLive(m.sub) /\ TombstoneCounts(g, n) /\ f # g
    <3>1. marks'[f] = 0 \/ marks'[f] = marks[f]
      BY <1>0, <2>1, <2>3, BlankIs
    <3>2. fence'[f] = fence[f]
      BY <1>0, <2>1, <2>3
    <3> QED  BY <2>1, <3>1, <3>2 DEF FrameMoves
  <2>4. CASE ~(IsLive(m.sub) /\ TombstoneCounts(g, n))
    BY <2>1, <2>4 DEF FrameMoves
  <2> QED  BY <2>2, <2>3, <2>4
<1> QED  BY <1>1, <1>2, <1>3, <1>4, <1>5, <1>6, PageMovers

LEMMA GensStep ==
  ASSUME IInv, Idle \/ Moving
  PROVE  gens \in Nat /\ gens' \in Nat /\ gens <= gens'
<1>0. gens \in Nat
  BY DEF IInv, Typed, StoreTyped
<1>1. (\E f \in Frames : Capture(f)) \/ ClearAll => gens' = gens
  BY DEF Capture, ClearAll
<1>2. (\E op \in Ops : \E before : BeginClear(op, before)) => gens' = gens + 1
  BY DEF BeginClear
<1>3. (\E op \in Ops : \E o : ClearOrigin(op, o)) => gens' = gens
  BY DEF ClearOrigin
<1>4. gens' = gens \/ gens' = gens + 1
  BY <1>1, <1>2, <1>3, StoreKinds
<1> QED  BY <1>0, <1>4

LEMMA FenceStep ==
  ASSUME IInv, KnownOK, FenceOK, AuthorityOK, Idle \/ Moving
  PROVE  FenceOK'
<1>0. PageTyped /\ gens \in Nat /\ gens' \in Nat /\ gens <= gens'
  BY GensStep DEF IInv, Typed
<1>1. fence' = [f \in Frames |-> fence'[f]]
  <2>1. fence = [f \in Frames |-> fence[f]]
    BY DEF FenceOK
  <2>2. fence' = fence \/ \E g, n : fence' = [fence EXCEPT ![g] = n]
    <3>1. (\E f \in Frames : CloseFrame(f)) \/ (\E f \in Frames, p \in Paths : ChangeRoute(f, p))
            => fence' = fence
      BY DEF CloseFrame, ChangeRoute
    <3>2. (\E f \in Frames, p \in Paths, o \in Origins : Navigate(f, o, p))
            => \E g : fence' = [fence EXCEPT ![g] = NoFence]
      BY DEF Navigate
    <3>3. (\E m \in net : ShowMarkers(m)) => fence' = fence
      BY DEF ShowMarkers
    <3>4. (\E m \in net : TakeDown(m)) => fence' = fence \/ \E g, n : fence' = [fence EXCEPT ![g] = n]
      BY DEF TakeDown
    <3> QED  BY <3>1, <3>2, <3>3, <3>4, PageMovers
  <2> QED  BY <2>1, <2>2
<1>2. ASSUME NEW f \in Frames
      PROVE  /\ fence'[f].gen \in Nat /\ fence'[f].gen <= gens'
             /\ (fence'[f] # NoFence /\ fence'[f].path = live'[f].path) =>
                  (marks'[f] = 0 \/ marks'[f] = fence'[f].after)
  <2>1. /\ fence[f].gen \in Nat /\ fence[f].gen <= gens
        /\ (fence[f] # NoFence /\ fence[f].path = live[f].path) =>
             (marks[f] = 0 \/ marks[f] = fence[f].after)
    BY DEF FenceOK
  <2>2. fence[f].gen <= gens'
    BY <1>0, <2>1
  <2>3. FrameMoves(f)
    BY FrameStep
  <2>4. CASE /\ live'[f] = live[f] /\ fence'[f] = fence[f]
             /\ marks'[f] = 0 \/ marks'[f] = marks[f]
    BY <2>1, <2>2, <2>4
  <2>5. CASE fence'[f] = fence[f] /\ marks'[f] = 0
    BY <2>1, <2>2, <2>5
  <2>6. CASE fence'[f] = NoFence
    BY <1>0, <2>6 DEF NoFence
  <2>7. CASE /\ live'[f] = live[f] /\ fence'[f] = fence[f]
             /\ \E m \in net : /\ m.sub = live[f]
                               /\ marks'[f] = IF Fenced(f, m) THEN 0 ELSE m.epoch
    <3> PICK m \in net : m.sub = live[f] /\ marks'[f] = IF Fenced(f, m) THEN 0 ELSE m.epoch
      BY <2>7
    <3>1. (fence[f] # NoFence /\ fence[f].path = live[f].path) =>
            (marks'[f] = 0 \/ marks'[f] = fence[f].after)
      BY DEF Fenced
    <3> QED  BY <2>1, <2>2, <2>7, <3>1
  <2>8. CASE /\ marks'[f] = 0
             /\ \E m \in net : m.kind = "tomb" /\ fence'[f] = FenceOf(m)
    <3> PICK m \in net : m.kind = "tomb" /\ fence'[f] = FenceOf(m)
      BY <2>8
    <3>1. FenceOf(m).gen = m.ref.gen
      BY DEF FenceOf, FenceFor
    <3>2. m.ref.gen \in Nat /\ m.ref.gen <= gens
      <4>1. m.ref \in Ref
        BY <1>0 DEF PageTyped, Message
      <4> QED  BY <4>1 DEF AuthorityOK, Ref
    <3> QED  BY <1>0, <2>8, <3>1, <3>2
  <2> QED  BY <2>3, <2>4, <2>5, <2>6, <2>7, <2>8 DEF FrameMoves
<1> QED  BY <1>1, <1>2 DEF FenceOK

-----------------------------------------------------------------------------
(* No page has heard of a later authority: AuthorityOK.                    *)

LEMMA AuthorityIs ==
  ASSUME IInv, NEW o, NEW g, Authority(o, g)
  PROVE  g \in Nat
BY TargetTyped DEF Authority, IInv, Typed, StoreTyped, Canonical, JournalTypeOK, Operation

\* An origin has one authority at a time.
LEMMA AuthoritySole ==
  ASSUME IInv, NEW op \in DOMAIN journal, NEW o \in DOMAIN journal[op].after,
         NEW g, Authority(o, g)
  PROVE  g = journal[op].gen
<1>1. JournalReadable /\ JournalTypeOK /\ StoreTyped /\ SnapshotConsistent
  BY DEF IInv, JournalOK, RestOK, Typed
<1>2. op \in Ops /\ o \in Owned(op) /\ Bound(op)
  BY <1>1 DEF JournalReadable, JournalTypeOK, Owned, Present, Bound
<1>3. CASE \E x \in DOMAIN canon : o \in DOMAIN canon[x].entry /\ g = canon[x].gen
  <2> PICK x \in DOMAIN canon : o \in DOMAIN canon[x].entry /\ g = canon[x].gen
    BY <1>3
  <2>1. x \in Ops /\ o \in Owned(x)
    BY <1>1 DEF StoreTyped, Owned, InCanon
  <2>2. x = op
    BY <1>1, <1>2, <2>1 DEF SnapshotConsistent
  <2> QED  BY <1>1, <1>2, <2>2 DEF SnapshotConsistent
<1>4. CASE \E x \in DOMAIN journal : o \in DOMAIN journal[x].after /\ g = journal[x].gen
  <2> PICK x \in DOMAIN journal : o \in DOMAIN journal[x].after /\ g = journal[x].gen
    BY <1>4
  <2>1. x \in Ops /\ o \in Owned(x)
    BY <1>1 DEF JournalReadable, JournalTypeOK, Owned, Present
  <2>2. x = op
    BY <1>1, <1>2, <2>1 DEF SnapshotConsistent
  <2> QED  BY <2>2
<1> QED  BY <1>3, <1>4 DEF Authority

LEMMA AuthorityMoves ==
  ASSUME IInv, Idle \/ Moving, NEW o, NEW g, Authority(o, g)'
  PROVE  \/ Authority(o, g)
         \/ g = gens + 1 /\ net' \subseteq net /\ UNCHANGED <<live, fence>>
<1>1. CASE \E x \in DOMAIN canon' : o \in DOMAIN canon'[x].entry /\ g = canon'[x].gen
  <2> PICK x \in DOMAIN canon' : o \in DOMAIN canon'[x].entry /\ g = canon'[x].gen
    BY <1>1
  <2>1. CanonMoves(x)
    BY CanonStep
  <2> QED  BY <2>1 DEF CanonMoves, Authority
<1>2. CASE \E x \in DOMAIN journal' : o \in DOMAIN journal'[x].after /\ g = journal'[x].gen
  <2> PICK x \in DOMAIN journal' : o \in DOMAIN journal'[x].after /\ g = journal'[x].gen
    BY <1>2
  <2>1. OpMoves(x)
    BY JournalStep DEF JournalMoves
  <2>2. CASE InCanon(x) /\ journal'[x].gen = canon[x].gen /\ journal'[x].after = Committed(x)
    <3>1. o \in DOMAIN canon[x].entry
      BY <2>2 DEF Committed, Entries
    <3> QED  BY <2>2, <3>1 DEF Authority, InCanon
  <2> QED  BY <2>1, <2>2 DEF OpMoves, Authority
<1> QED  BY <1>1, <1>2 DEF Authority

LEMMA TombIs ==
  ASSUME IInv, NEW ref \in Due, NEW m,
         MarkDelivered(ref.op, ref.gen, ref.sub, ref.rev),
         m = [kind |-> "tomb", sub |-> ref.sub, ref |-> ref,
              after |-> journal[ref.op].after[ref.sub.origin]]
  PROVE  /\ m.kind = "tomb" /\ m.sub = ref.sub /\ m.ref = ref /\ m.ref.sub = m.sub
         /\ ref.op \in DOMAIN journal /\ m.sub.origin \in DOMAIN journal[ref.op].after
         /\ m.ref.gen = journal[ref.op].gen /\ m.ref.gen <= gens
<1> PICK op, s : op = ref.op /\ s = ref.sub
  OBVIOUS
<1>1. m.kind = "tomb" /\ m.sub = s /\ m.ref = ref
  OBVIOUS
<1>2. /\ op \in DOMAIN journal /\ s \in DOMAIN journal[op].targets /\ journal[op].gen # Unbound
      /\ ref.gen = journal[op].gen
  BY DEF MarkDelivered, Exact, Present
<1>3. s.origin \in DOMAIN journal[op].after
  BY <1>2 DEF IInv, JournalOK, JournalReadable
<1>4. journal[op].gen <= gens
  BY <1>2 DEF IInv, RestOK, CanonOK
<1> QED  BY <1>1, <1>2, <1>3, <1>4

LEMMA AuthorityStep ==
  ASSUME IInv, IInv', KnownOK, FenceOK, AuthorityOK, Idle \/ Moving
  PROVE  AuthorityOK'
<1>0. /\ PageTyped /\ PageTyped' /\ gens \in Nat /\ gens' \in Nat /\ gens <= gens'
  BY GensStep DEF IInv, Typed
<1>1. ASSUME NEW m \in net', m.kind \in {"tomb", "ack"}
      PROVE  \/ \E x \in net : /\ x.kind \in {"tomb", "ack"} /\ m.ref = x.ref /\ m.sub = x.sub
             \/ /\ m.ref.sub = m.sub /\ m.ref.gen <= gens
                /\ \E op \in DOMAIN journal : /\ m.sub.origin \in DOMAIN journal[op].after
                                              /\ m.ref.gen = journal[op].gen
  <2>1. CASE m \in net
    BY <1>1, <2>1
  <2>2. CASE IsTomb(m)
    <3> PICK ref \in Due :
          /\ MarkDelivered(ref.op, ref.gen, ref.sub, ref.rev)
          /\ m = [kind |-> "tomb", sub |-> ref.sub, ref |-> ref,
                  after |-> journal[ref.op].after[ref.sub.origin]]
      BY <2>2 DEF IsTomb
    <3> QED  BY TombIs
  <2>3. CASE IsAck(m)
    <3> PICK x \in net : x.kind = "tomb" /\ m = [x EXCEPT !.kind = "ack"]
      BY <2>3 DEF IsAck
    <3> QED  BY <1>0, AckIs
  <2>4. ~IsMarkers(m) /\ ~IsAsk(m)
    BY <1>1 DEF IsMarkers, IsAsk
  <2> QED  BY <2>1, <2>2, <2>3, <2>4, NetMoves
<1>2. ASSUME NEW m \in net', m.kind \in {"tomb", "ack"}
      PROVE  m.ref.gen \in Nat /\ m.ref.gen <= gens' /\ m.ref.gen <= gens /\ m.ref.sub = m.sub
  <2>1. m.ref.gen \in Nat
    <3>1. m.ref \in Ref
      BY <1>0, <1>2 DEF PageTyped, Message
    <3> QED  BY <3>1 DEF Ref
  <2>2. m.ref.gen <= gens /\ m.ref.sub = m.sub
    BY <1>1, <1>2 DEF AuthorityOK
  <2> QED  BY <1>0, <2>1, <2>2
<1>3. ASSUME NEW o, NEW g, Authority(o, g)'  PROVE Latest(o, g)'
  <2>1. CASE g = gens + 1 /\ net' \subseteq net /\ UNCHANGED <<live, fence>>
    <3>1. \A m \in net' : m.kind \in {"tomb", "ack"} => m.ref.gen <= g
      BY <1>0, <1>2, <2>1
    <3>2. \A f \in Frames : fence'[f].gen <= g
      BY <1>0, <2>1 DEF FenceOK
    <3> QED  BY <3>1, <3>2 DEF Latest
  <2>2. CASE Authority(o, g)
    <3>0. Latest(o, g) /\ g \in Nat
      BY <2>2, AuthorityIs DEF AuthorityOK
    <3>1. ASSUME NEW m \in net', m.kind \in {"tomb", "ack"}, m.sub.origin = o
          PROVE  m.ref.gen <= g
      <4>1. CASE \E x \in net : /\ x.kind \in {"tomb", "ack"}
                                /\ m.ref = x.ref /\ m.sub = x.sub
        BY <3>0, <3>1, <4>1 DEF Latest
      <4>2. CASE \E op \in DOMAIN journal : /\ m.sub.origin \in DOMAIN journal[op].after
                                            /\ m.ref.gen = journal[op].gen
        <5>1. m.ref.gen = g
          BY <2>2, <3>1, <4>2, AuthoritySole
        <5> QED  BY <3>0, <5>1
      <4> QED  BY <1>1, <3>1, <4>1, <4>2
    <3>2. ASSUME NEW f \in Frames, live'[f].origin = o  PROVE fence'[f].gen <= g
      <4>1. FrameMoves(f)
        BY FrameStep
      <4>2. CASE live'[f].origin = live[f].origin /\ fence'[f] = fence[f]
        BY <3>0, <3>2, <4>2 DEF Latest
      <4>3. CASE fence'[f] = NoFence
        BY <3>0, <4>3 DEF NoFence
      <4>4. CASE /\ live'[f] = live[f]
                 /\ \E m \in net : m.kind = "tomb" /\ m.sub = live[f] /\ fence'[f] = FenceOf(m)
        <5> PICK m \in net : m.kind = "tomb" /\ m.sub = live[f] /\ fence'[f] = FenceOf(m)
          BY <4>4
        <5>1. m.ref.gen <= g
          BY <3>0, <3>2, <4>4 DEF Latest
        <5> QED  BY <5>1 DEF FenceOf, FenceFor
      <4> QED  BY <4>1, <4>2, <4>3, <4>4 DEF FrameMoves
    <3> QED  BY <3>1, <3>2 DEF Latest
  <2> QED  BY <1>3, <2>1, <2>2, AuthorityMoves
<1> QED  BY <1>2, <1>3 DEF AuthorityOK

-----------------------------------------------------------------------------
(* Who has acknowledged stays told: AcksOK.                                *)

LEMMA AckedIs ==
  ASSUME IInv, KnownOK, AcksOK, NEW op, NEW g, NEW v, NEW s, NEW a, Acked(op, g, v, s, a)
  PROVE  /\ g \in Nat \ {0} /\ s \in Subject /\ s.frame \in Frames /\ s.doc \in Nat
         /\ Past(s)
<1>0. PageTyped /\ JournalOK
  BY DEF IInv, Typed
<1>1. g \in Nat \ {0} /\ s \in Subject /\ Seen(s)
  <2>1. CASE \E m \in net : m.kind = "ack" /\ s = m.sub /\ g = m.ref.gen
    <3> PICK m \in net : m.kind = "ack" /\ s = m.sub /\ g = m.ref.gen
      BY <2>1
    <3>1. m.ref \in Ref /\ m.sub \in Subject
      BY <1>0 DEF PageTyped, Message
    <3> QED  BY <3>1 DEF Ref, Seen
  <2>2. CASE /\ op \in DOMAIN journal /\ s \in DOMAIN journal[op].targets
             /\ journal[op].targets[s].state = "acknowledged" /\ g = journal[op].gen
    <3>1. s \in Subject /\ g \in Nat
      BY <1>0, <2>2, TargetTyped
    <3>2. g # 0
      BY <2>2 DEF AcksOK, Unbound
    <3> QED  BY <2>2, <3>1, <3>2 DEF Seen
  <2> QED  BY <2>1, <2>2 DEF Acked
<1> QED  BY <1>1, ConstantsOK DEF Subject, KnownOK

\* The pages that the acknowledgement is about, and those after them, show nothing
\* from before the clear, whatever else happens.
LEMMA FreshKeeps ==
  ASSUME IInv, IInv', KnownOK, FenceOK, EpochOK, Step, NEW s \in Subject, NEW a,
         Past(s), Cleared(s.origin, a), Fresh(s, a)
  PROVE  Fresh(s, a)'
<1>0. (Idle \/ Moving) /\ PageTyped
  BY StepMoves DEF IInv, Typed
<1>1. Cleared(s.origin, a)'
  BY <1>0, ClearedKeeps
<1>2. ASSUME NEW m \in net', m.kind \in {"state", "restore"}, m.sub.frame = s.frame,
             m.sub.origin = s.origin, s.doc < m.sub.doc
      PROVE  m.epoch = 0 \/ a <= m.epoch
  <2>1. CASE m \in net
    BY <1>2, <2>1 DEF Fresh
  <2>2. CASE m \notin net
    <3>0. ~IsAsk(m) /\ ~IsTomb(m) /\ ~IsAck(m)
      <4>1. ASSUME IsAck(m)  PROVE m.kind = "ack"
        BY <1>0, <4>1, AckIs DEF IsAck
      <4> QED  BY <1>2, <4>1 DEF IsAsk, IsTomb
    <3>1. m.epoch = 0 \/ m.epoch = epoch'[s.origin]
      BY <1>0, <1>2, <2>2, <3>0, NetMoves DEF IsMarkers
    <3> QED  BY <1>1, <3>1 DEF Cleared
  <2> QED  BY <2>1, <2>2
<1>3. ASSUME live'[s.frame].origin = s.origin, s.doc < live'[s.frame].doc
      PROVE  marks'[s.frame] = 0 \/ a <= marks'[s.frame]
  <2> PICK f : f = s.frame  OBVIOUS
  <2>1. f \in Frames /\ s.doc \in Nat /\ live[f].doc \in Nat /\ live[f].frame = f
    BY <1>0, LiveIs, ConstantsOK DEF Subject, KnownOK
  <2>2. FrameMoves(f)
    BY <1>0, <2>1, FrameStep
  <2>3. (live[f].origin = s.origin /\ s.doc < live[f].doc) => marks[f] = 0 \/ a <= marks[f]
    BY DEF Fresh
  <2>4. CASE marks'[f] = 0
    BY <2>4
  <2>5. CASE live'[f] = live[f] /\ marks'[f] = marks[f]
    BY <1>3, <2>3, <2>5
  <2>6. CASE /\ live'[f] = live[f]
             /\ \E m \in net : /\ m.kind \in {"state", "restore"} /\ m.sub = live[f]
                               /\ marks'[f] = IF Fenced(f, m) THEN 0 ELSE m.epoch
    <3> PICK m \in net : /\ m.kind \in {"state", "restore"} /\ m.sub = live[f]
                         /\ marks'[f] = IF Fenced(f, m) THEN 0 ELSE m.epoch
      BY <2>6
    <3>1. m.epoch = 0 \/ a <= m.epoch
      BY <1>3, <2>1, <2>6 DEF Fresh
    <3> QED  BY <3>1
  <2> QED  BY <2>2, <2>4, <2>5, <2>6 DEF FrameMoves
<1> QED  BY <1>2, <1>3 DEF Fresh

LEMMA ToldKeeps ==
  ASSUME IInv, IInv', KnownOK, FenceOK, EpochOK, AuthorityOK, AcksOK, Step,
         NEW op, NEW g, NEW v, NEW s, NEW a, Acked(op, g, v, s, a)
  PROVE  Told(op, g, v, s, a)'
<1>0. (Idle \/ Moving) /\ PageTyped
  BY StepMoves DEF IInv, Typed
<1>1. /\ g \in Nat \ {0} /\ s \in Subject /\ s.frame \in Frames /\ s.doc \in Nat
      /\ Past(s) /\ Told(op, g, v, s, a)
  BY AckedIs DEF AcksOK
<1>2. Cleared(s.origin, a)'
  BY <1>0, <1>1, ClearedKeeps DEF Told
<1>3. Fresh(s, a)'
  BY <1>1, FreshKeeps DEF Told
<1>4. ASSUME live'[s.frame].doc = s.doc
      PROVE  fence'[s.frame] = FenceFor(op, g, v, s, a) \/ g < fence'[s.frame].gen
  <2> PICK f, n : f = s.frame /\ n = FenceFor(op, g, v, s, a)  OBVIOUS
  <2>1. f \in Frames /\ live[f].doc \in Nat /\ live'[f].doc \in Nat /\ live[f].doc <= live'[f].doc
    BY <1>0, <1>1, LiveMoves
  <2>2. live[f].doc = s.doc
    BY <1>1, <1>4, <2>1 DEF Past
  <2>3. fence[f] = n \/ g < fence[f].gen
    BY <1>1, <2>2 DEF Told
  <2>4. n.gen = g
    BY DEF FenceFor
  <2>5. FrameMoves(f)
    BY <1>0, <2>1, FrameStep
  <2>6. CASE fence'[f] = fence[f]
    BY <2>3, <2>6
  <2>7. CASE live[f].doc < live'[f].doc
    BY <1>4, <2>1, <2>2, <2>7
  <2>8. CASE \E m \in net : /\ m.kind = "tomb"
                            /\ TombstoneCounts(f, FenceOf(m)) /\ fence'[f] = FenceOf(m)
    <3> PICK m \in net : /\ m.kind = "tomb"
                         /\ TombstoneCounts(f, FenceOf(m)) /\ fence'[f] = FenceOf(m)
      BY <2>8
    <3> PICK k : k = FenceOf(m)  OBVIOUS
    <3>1. fence[f] = NoFence \/ fence[f].gen < k.gen \/ fence[f] = k
      BY DEF TombstoneCounts
    <3>2. fence[f].gen \in Nat /\ k.gen \in Nat
      <4>1. m.ref \in Ref
        BY <1>0 DEF PageTyped, Message
      <4> QED  BY <2>1, <4>1 DEF FenceOK, FenceOf, FenceFor, Ref
    <3>3. NoFence.gen = 0
      BY DEF NoFence
    <3>4. CASE fence[f] = n
      <4>1. fence[f].gen = g /\ fence[f] # NoFence
        BY <1>1, <2>4, <3>3, <3>4
      <4> QED  BY <3>1, <3>4, <4>1
    <3>5. CASE g < fence[f].gen
      <4>1. fence[f] # NoFence
        BY <1>1, <3>3, <3>5
      <4>2. fence[f].gen <= k.gen
        BY <3>1, <3>2, <4>1
      <4> QED  BY <1>1, <3>2, <3>5, <4>2
    <3> QED  BY <2>3, <3>4, <3>5
  <2> QED  BY <2>5, <2>6, <2>7, <2>8 DEF FrameMoves
<1> QED  BY <1>1, <1>2, <1>3, <1>4 DEF Told

\* A page that puts its fence up has been told, and so have those after it.
LEMMA AckTells ==
  ASSUME IInv, IInv', KnownOK, KnownOK', FenceOK, EpochOK, PromisesOK, Step,
         NEW x \in net, TakeDown(x), x.kind = "tomb", IsLive(x.sub),
         TombstoneCounts(x.sub.frame, FenceOf(x)), NEW op, NEW g, NEW v, NEW s, NEW a,
         op = x.ref.op, g = x.ref.gen, v = x.ref.rev, s = x.sub, a = x.after
  PROVE  Told(op, g, v, s, a)'
<1>0. (Idle \/ Moving) /\ PageTyped /\ PageTyped'
  BY StepMoves DEF IInv, Typed
<1> PICK f : f = s.frame  OBVIOUS
<1>1. s \in Subject /\ x.ref \in Ref /\ live[f] = s
  BY <1>0 DEF PageTyped, Message, IsLive
<1>2. g \in Nat /\ f \in Frames /\ s.doc \in Nat
  BY <1>1, ConstantsOK DEF Ref, Subject
<1>3. Cleared(s.origin, a)'
  <2>1. Promised(s.origin, a)
    BY DEF Promised
  <2> QED  BY <1>0, <2>1, ClearedKeeps DEF PromisesOK
<1>4. live' = live /\ fence' = [fence EXCEPT ![f] = FenceOf(x)]
  BY DEF TakeDown, FenceOf, FenceFor
<1>5. fence'[f] = FenceFor(op, g, v, s, a)
  BY <1>2, <1>4 DEF FenceOK, FenceOf
<1>6. Fresh(s, a)'
  <2>1. live'[f] = s
    BY <1>1, <1>4
  <2>2. ASSUME NEW m \in net', m.kind \in {"state", "restore"}, m.sub.frame = f,
               s.doc < m.sub.doc
        PROVE  FALSE
    <3> PICK z : z = m.sub  OBVIOUS
    <3>1. z \in Subject
      BY <1>0, <2>2 DEF PageTyped, Message
    <3>2. Seen(z)'
      BY DEF Seen
    <3>3. z.doc <= live'[z.frame].doc
      BY <3>1, <3>2 DEF KnownOK, Past
    <3>4. z.doc \in Nat
      BY <3>1, ConstantsOK DEF Subject
    <3> QED  BY <1>2, <2>1, <2>2, <3>3, <3>4
  <2>3. ~(s.doc < live'[f].doc)
    BY <1>2, <2>1
  <2> QED  BY <2>2, <2>3 DEF Fresh
<1> QED  BY <1>1, <1>2, <1>3, <1>5, <1>6 DEF Told

LEMMA AckedMoves ==
  ASSUME IInv, KnownOK, AcksOK, Idle \/ Moving,
         NEW op, NEW g, NEW v, NEW s, NEW a, Acked(op, g, v, s, a)'
  PROVE  \/ Acked(op, g, v, s, a)
         \/ \E x \in net : /\ TakeDown(x) /\ x.kind = "tomb" /\ IsLive(x.sub)
                           /\ TombstoneCounts(x.sub.frame, FenceOf(x))
                           /\ op = x.ref.op /\ g = x.ref.gen /\ v = x.ref.rev /\ s = x.sub
                           /\ a = x.after
<1>0. PageTyped
  BY DEF IInv, Typed
<1>1. CASE \E m \in net' : /\ m.kind = "ack" /\ s = m.sub /\ a = m.after
                           /\ op = m.ref.op /\ g = m.ref.gen /\ v = m.ref.rev
  <2> PICK m \in net' : /\ m.kind = "ack" /\ s = m.sub /\ a = m.after
                        /\ op = m.ref.op /\ g = m.ref.gen /\ v = m.ref.rev
    BY <1>1
  <2>1. CASE m \in net
    BY <2>1 DEF Acked
  <2>2. CASE IsAck(m)
    <3> PICK x \in net : /\ TakeDown(x) /\ x.kind = "tomb" /\ IsLive(x.sub)
                         /\ TombstoneCounts(x.sub.frame, FenceOf(x))
                         /\ m = [x EXCEPT !.kind = "ack"]
      BY <2>2 DEF IsAck
    <3>1. m.sub = x.sub /\ m.ref = x.ref /\ m.after = x.after
      BY <1>0, AckIs
    <3> QED  BY <3>1
  <2>3. ~IsMarkers(m) /\ ~IsAsk(m) /\ ~IsTomb(m)
    BY DEF IsMarkers, IsAsk, IsTomb
  <2> QED  BY <2>1, <2>2, <2>3, NetMoves
<1>2. CASE /\ op \in DOMAIN journal' /\ s \in DOMAIN journal'[op].targets
           /\ journal'[op].targets[s].state = "acknowledged"
           /\ g = journal'[op].gen /\ v = journal'[op].targets[s].rev
           /\ a = journal'[op].after[s.origin]
  <2>1. OpMoves(op) /\ AckMoves(op, s)
    BY <1>2, JournalStep DEF JournalMoves
  <2>2. /\ op \in DOMAIN journal /\ s \in DOMAIN journal[op].targets
        /\ v = journal[op].targets[s].rev
        /\ \/ journal[op].targets[s].state = "acknowledged"
           \/ \E m \in net : m.kind = "ack" /\ op = m.ref.op /\ s = m.sub /\ Valid(m)
    BY <1>2, <2>1 DEF AckMoves
  <2>3. ASSUME NEW m \in net, m.kind = "ack", op = m.ref.op, s = m.sub, Valid(m)
        PROVE  /\ journal[op].gen = m.ref.gen /\ journal[op].targets[s].rev = m.ref.rev
               /\ journal[op].after[s.origin] = m.after /\ journal[op].gen # Unbound
    <3>1. m.ref \in Ref
      BY <1>0, <2>3 DEF PageTyped, Message
    <3> QED  BY <2>3, <3>1 DEF Valid, Exact, Ref, Unbound
  <2>4. journal[op].gen # Unbound
    BY <2>2, <2>3 DEF AcksOK
  <2>5. g = journal[op].gen /\ a = journal[op].after[s.origin]
    BY <1>2, <2>1, <2>2, <2>4 DEF OpMoves
  <2>6. CASE journal[op].targets[s].state = "acknowledged"
    BY <2>2, <2>5, <2>6 DEF Acked
  <2>7. CASE \E m \in net : m.kind = "ack" /\ op = m.ref.op /\ s = m.sub /\ Valid(m)
    <3> PICK m \in net : m.kind = "ack" /\ op = m.ref.op /\ s = m.sub /\ Valid(m)
      BY <2>7
    <3>1. g = m.ref.gen /\ v = m.ref.rev /\ a = m.after
      BY <2>2, <2>3, <2>5
    <3> QED  BY <3>1 DEF Acked
  <2> QED  BY <2>2, <2>6, <2>7
<1> QED  BY <1>1, <1>2 DEF Acked

LEMMA AcksStep ==
  ASSUME IInv, IInv', PageInv, KnownOK', Step
  PROVE  AcksOK'
<1>0. /\ KnownOK /\ FenceOK /\ EpochOK /\ PromisesOK /\ AuthorityOK /\ AcksOK
      /\ (Idle \/ Moving) /\ PageTyped
  BY StepMoves DEF PageInv, IInv, Typed
<1>1. ASSUME NEW op \in DOMAIN journal', NEW s \in DOMAIN journal'[op].targets,
             journal'[op].targets[s].state = "acknowledged"
      PROVE  journal'[op].gen # Unbound
  <2>1. OpMoves(op) /\ AckMoves(op, s)
    BY <1>0, JournalStep DEF JournalMoves
  <2>2. /\ op \in DOMAIN journal /\ s \in DOMAIN journal[op].targets
        /\ \/ journal[op].targets[s].state = "acknowledged"
           \/ \E m \in net : m.kind = "ack" /\ op = m.ref.op /\ Valid(m)
    BY <1>1, <2>1 DEF AckMoves
  <2>3. ASSUME NEW m \in net, m.kind = "ack", op = m.ref.op, Valid(m)
        PROVE  journal[op].gen # Unbound
    <3>1. m.ref \in Ref
      BY <1>0, <2>3 DEF PageTyped, Message
    <3> QED  BY <2>3, <3>1 DEF Valid, Exact, Ref, Unbound
  <2>4. journal[op].gen # Unbound
    BY <1>0, <2>2, <2>3 DEF AcksOK
  <2> QED  BY <2>1, <2>2, <2>4 DEF OpMoves
<1>2. ASSUME NEW op, NEW g, NEW v, NEW s, NEW a, Acked(op, g, v, s, a)'
      PROVE  Told(op, g, v, s, a)'
  <2>1. CASE Acked(op, g, v, s, a)
    BY <1>0, <2>1, ToldKeeps
  <2>2. CASE \E x \in net : /\ TakeDown(x) /\ x.kind = "tomb" /\ IsLive(x.sub)
                            /\ TombstoneCounts(x.sub.frame, FenceOf(x))
                            /\ op = x.ref.op /\ g = x.ref.gen /\ v = x.ref.rev /\ s = x.sub
                            /\ a = x.after
    BY <1>0, <2>2, AckTells
  <2> QED  BY <1>0, <1>2, <2>1, <2>2, AckedMoves
<1> QED  BY <1>1, <1>2 DEF AcksOK

-----------------------------------------------------------------------------
(* The invariant holds.                                                    *)

LEMMA PageInit == Init => PageInv
<1> SUFFICES ASSUME Init  PROVE PageInv
  OBVIOUS
<1>1. PICK p \in Paths : live = [f \in Frames |-> [frame |-> f, doc |-> 0,
                                                  origin |-> HomeOf[f], path |-> p]]
  BY DEF Init
<1>2. /\ net = {} /\ navs = {} /\ tasks = {} /\ gens = 0
      /\ DOMAIN journal = {} /\ DOMAIN canon = {}
      /\ fence = [f \in Frames |-> NoFence]
      /\ epoch = [o \in Origins |-> 1] /\ made = epoch
  BY DEF Init, JournalInit, Nothing
<1>3. \A r \in Requests : req[r].pc = "new"
  BY DEF Init, NewReq
<1>4. KnownOK
  <2>1. \A s : ~Seen(s)
    BY <1>2, <1>3 DEF Seen
  <2>2. \A f \in Frames : live[f].frame = f
    BY <1>1
  <2> QED  BY <2>1, <2>2 DEF KnownOK
<1>5. FenceOK
  <2>1. \A f \in Frames : fence[f] = NoFence /\ fence[f].gen = 0
    BY <1>2 DEF NoFence
  <2>2. fence = [f \in Frames |-> fence[f]]
    BY <1>2
  <2> QED  BY <1>2, <2>1, <2>2 DEF FenceOK
<1>6. EpochOK
  <2>1. \A o \in Origins : epoch[o] = 1 /\ made[o] = 1
    BY <1>2
  <2> QED  BY <1>2, <2>1 DEF EpochOK
<1>7. PromisesOK
  BY <1>2, <1>3 DEF PromisesOK, Promised
<1>8. AuthorityOK
  BY <1>2 DEF AuthorityOK, Authority
<1>9. AcksOK
  BY <1>2 DEF AcksOK, Acked
<1> QED  BY <1>4, <1>5, <1>6, <1>7, <1>8, <1>9 DEF PageInv

LEMMA PageSteps ==
  ASSUME IInv, IInv', PageInv, Step
  PROVE  PageInv'
<1>1. /\ KnownOK /\ FenceOK /\ EpochOK /\ PromisesOK /\ AuthorityOK
      /\ Idle \/ Moving
  BY StepMoves DEF PageInv
<1>2. KnownOK'
  BY <1>1, KnownStep
<1>3. FenceOK'
  BY <1>1, FenceStep
<1>4. EpochOK'
  BY <1>1, EpochKeeps
<1>5. PromisesOK'
  BY <1>1, PromisesKeep
<1>6. AuthorityOK'
  BY <1>1, AuthorityStep
<1>7. AcksOK'
  BY <1>2, AcksStep
<1> QED  BY <1>2, <1>3, <1>4, <1>5, <1>6, <1>7 DEF PageInv

LEMMA PagesRest == PageInv /\ UNCHANGED vars => PageInv'
<1> SUFFICES ASSUME PageInv, UNCHANGED vars  PROVE PageInv'
  OBVIOUS
<1>1. UNCHANGED <<journal, canon, epoch, made, gens, live, marks, fence, net, navs, tasks, req>>
  BY DEF vars, storeVars, pageVars
<1>2. KnownOK'
  BY <1>1 DEF PageInv, KnownOK, Seen, Past
<1>3. FenceOK'
  BY <1>1 DEF PageInv, FenceOK
<1>4. EpochOK'
  BY <1>1 DEF PageInv, EpochOK, Entries
<1>5. PromisesOK'
  BY <1>1 DEF PageInv, PromisesOK, Promised, Cleared, Entries
<1>6. AuthorityOK'
  BY <1>1 DEF PageInv, AuthorityOK, Authority, Latest
<1>7. AcksOK'
  BY <1>1 DEF PageInv, AcksOK, Acked, Told, Fresh, Cleared
<1> QED  BY <1>2, <1>3, <1>4, <1>5, <1>6, <1>7 DEF PageInv

\* What is written down of documents, epochs and authorities stays true for good,
\* whoever runs, navigates, retries or dies.
THEOREM PagesInvariant == Spec => []PageInv
<1>1. Init => PageInv
  BY PageInit
<1>2. IInv /\ IInv' /\ PageInv /\ [Next]_vars => PageInv'
  <2>1. IInv /\ IInv' /\ PageInv /\ Next => PageInv'
    BY NextIsStep, PageSteps
  <2> QED  BY <2>1, PagesRest
<1> QED  BY <1>1, <1>2, ClearInvariant, PTL DEF Spec

\* A document that acknowledged a clear shows no marker from before it, whatever
\* overlay states and restore answers were under way, and neither does a later
\* document of its origin in its frame (applyClearProjectionTombstone).
THEOREM AcknowledgedIsClean == Spec => []AckMeansClean
<1>1. IInv /\ PageInv => AckMeansClean
  BY AcksAreClean
<1> QED  BY <1>1, ClearInvariant, PagesInvariant, PTL

LEMMA ReplyStep ==
  ASSUME IInv, PageInv, Step, NEW r \in Requests,
         req'[r].reply = "ok", req[r].reply # "ok",
         NEW o \in DOMAIN (IF req[r].resumed THEN req[r].after ELSE req[r].before)
  PROVE  o \in DOMAIN req[r].after /\ (epoch[o] = 0 \/ epoch[o] >= req[r].after[o])
<1>1. ReqMove(req'[r], req[r])
  BY RequestMoves DEF ReqMoves
<1>2. req[r].pc = "final" /\ (req[r].resumed \/ DOMAIN req[r].before = DOMAIN req[r].after)
  BY <1>1 DEF ReqMove, Alike
<1>3. o \in DOMAIN req[r].after
  BY <1>2
<1>4. Cleared(o, req[r].after[o])
  BY <1>2, <1>3 DEF PageInv, PromisesOK, Promised
<1>5. epoch[o] \in Nat
  BY <1>4 DEF IInv, Typed, StoreTyped, Cleared
<1> QED  BY <1>3, <1>4, <1>5 DEF Cleared

\* A clear that is reported to have succeeded was real: the origins that it was asked
\* for, or that its first attempt could clear, lost their sessions and got no older one
\* back, however long the answers of the pages took (executeDurableClearProjection).
THEOREM RepliesAreReal == Spec => ReplyIsReal
<1>1. IInv /\ PageInv /\ [Next]_vars =>
        [\A r \in Requests : (req'[r].reply = "ok" /\ req[r].reply # "ok") =>
           \A o \in DOMAIN (IF req[r].resumed THEN req[r].after ELSE req[r].before) :
             o \in DOMAIN req[r].after /\ (epoch[o] = 0 \/ epoch[o] >= req[r].after[o])]_vars
  BY NextIsStep, ReplyStep
<1> QED  BY <1>1, ClearInvariant, PagesInvariant, PTL DEF Spec, ReplyIsReal

-----------------------------------------------------------------------------
(* No clear is left lying: NoStranded.                                     *)

\* Something is going to read the journal again, or is reading it.
Awake ==
  \/ alarm \/ reread
  \/ recon.again \/ drain.again \/ drain.busy
  \/ recon.busy /\ ~recon.drains

\* A request that will arm the alarm, or ask for a finalisation, when it is done.
Clears(q)   == q.pc \in {"prepared", "cleared", "drop"}
Confirms(q) == q.pc \in {"await", "final"}
Carries(q, op, gen) ==
  q.op = op /\ (Clears(q) \/ (Confirms(q) /\ gen # Unbound /\ q.gen = gen))
DrainsOK == recon.drains => recon.busy
AlarmOK ==
  /\ DrainsOK
  /\ \A op \in DOMAIN journal :
       Awake \/ \E r \in Requests : Carries(req[r], op, journal[op].gen)

LEMMA NotStranded ==
  ASSUME AlarmOK
  PROVE  NoStranded
<1> SUFFICES ASSUME Resting, DOMAIN journal # {}  PROVE alarm
  BY DEF NoStranded
<1>1. PICK op : op \in DOMAIN journal
  OBVIOUS
<1>2. \A r \in Requests : ~Clears(req[r]) /\ ~Confirms(req[r])
  BY DEF Resting, Still, Clears, Confirms
<1>3. Awake
  BY <1>1, <1>2 DEF AlarmOK, Carries
<1> QED  BY <1>3 DEF Awake, Resting

LEMMA ArmWakes == Arm => Awake'
BY DEF Arm, Awake

SameFlags ==
  /\ UNCHANGED <<alarm, reread>>
  /\ recon'.again = recon.again /\ recon'.busy = recon.busy /\ recon'.drains = recon.drains
  /\ drain'.again = drain.again /\ drain'.busy = drain.busy

\* What ends one reason to be awake is another, but for the alarm's own decision.
LEMMA FlagMoves ==
  ASSUME Typed, DrainsOK, Step
  PROVE  DrainsOK' /\ (Awake' \/ SameFlags \/ Reschedule \/ ReconEnd)
<1>0. recon \in Recon /\ drain \in Drain
  BY DEF Typed, WorkerTyped, Recon, Drain
<1>a. SameFlags => DrainsOK'
  BY DEF SameFlags, DrainsOK
<1>b. (UNCHANGED recon \/ Release) =>
        recon'.again = recon.again /\ recon'.busy = recon.busy /\ recon'.drains = recon.drains
  BY <1>0 DEF Release, Recon
<1>1. CASE \/ \E f \in Frames : Capture(f)
           \/ \E f \in Frames : CloseFrame(f)
           \/ \E f \in Frames, p \in Paths : ChangeRoute(f, p)
           \/ \E f \in Frames, p \in Paths, o \in Origins : Navigate(f, o, p)
           \/ ClearAll
           \/ \E m \in net : ShowMarkers(m)
           \/ \E m \in net : TakeDown(m)
           \/ \E r \in Requests : Resume(r)
  <2>1. UNCHANGED <<alarm, passVars>>
    BY <1>1 DEF Capture, CloseFrame, ChangeRoute, Navigate, ClearAll, ShowMarkers,
                TakeDown, Resume
  <2>2. SameFlags
    BY <2>1 DEF SameFlags, passVars
  <2> QED  BY <1>a, <2>2
<1>2. CASE \/ \E r \in Requests : Bind(r)
           \/ \E r \in Requests : Settle(r)
           \/ \E r \in Requests : BarrierError(r)
           \/ \E r \in Requests : Ask(r)
           \/ \E r \in Requests, op \in Ops : Look(r, op)
           \/ \E s \in navs : HandleNavigation(s)
           \/ \E m \in net : HandleRestore(m)
           \/ LoadBarriers
           \/ \E m \in net : LoseMessage(m)
  <2>1. UNCHANGED <<alarm, passVars>>
    BY <1>2 DEF Bind, Settle, BarrierError, Ask, Look, HandleNavigation, HandleRestore,
                LoadBarriers, LoseMessage
  <2>2. SameFlags
    BY <2>1 DEF SameFlags, passVars
  <2> QED  BY <1>a, <2>2
<1>3. CASE \/ \E r \in Requests : Refuse(r)
           \/ \E r \in Requests : Discover(r)
           \/ \E r \in Requests : StartClear(r)
           \/ \E r \in Requests : Withdraw(r)
           \/ \E r \in Requests : ClearSessions(r)
           \/ \E r \in Requests : GiveUp(r)
           \/ \E r \in Requests : Delivered(r)
           \/ \E r \in Requests : Reply(r)
           \/ \E r \in Requests : RequestError(r)
  <2>1. UNCHANGED <<recon, drain>>
    BY <1>3 DEF Refuse, Discover, StartClear, Withdraw, ClearSessions, GiveUp, Delivered,
                Reply, RequestError
  <2>2. Arm \/ UNCHANGED <<alarm, reread>>
    <3>1. \A r, d : Fail(r, d) => Arm \/ UNCHANGED <<alarm, reread>>
      BY DEF Fail
    <3>2. CASE (\E r \in Requests : Refuse(r)) \/ (\E r \in Requests : Discover(r))
               \/ (\E r \in Requests : StartClear(r)) \/ (\E r \in Requests : Withdraw(r))
      BY <3>1, <3>2 DEF Refuse, Discover, StartClear, Withdraw
    <3>3. CASE \E r \in Requests : ClearSessions(r)
      BY <3>1, <3>3 DEF ClearSessions
    <3>4. CASE (\E r \in Requests : GiveUp(r)) \/ (\E r \in Requests : Delivered(r))
               \/ (\E r \in Requests : Reply(r)) \/ (\E r \in Requests : RequestError(r))
      BY <3>1, <3>4 DEF GiveUp, Delivered, Reply, RequestError
    <3> QED  BY <1>3, <3>2, <3>3, <3>4
  <2>3. DrainsOK' /\ (UNCHANGED <<alarm, reread>> => SameFlags)
    BY <2>1 DEF SameFlags, DrainsOK
  <2> QED  BY <2>2, <2>3, ArmWakes
<1>4. CASE \/ \E ref \in Due : Deliver(ref)
           \/ \E ref \in sends : Timeout(ref)
           \/ \E m \in net : Disbelieved(m)
           \/ \E t \in tasks : \E op \in t.todo : TaskStep(t, op)
           \/ \E t \in tasks : TaskEnd(t)
  <2>1. UNCHANGED <<alarm, reread, recon>>
    BY <1>4 DEF Deliver, Timeout, Disbelieved, TaskStep, TaskEnd
  <2>2. \/ UNCHANGED drain
        \/ \E ref : drain' = [drain EXCEPT !.batch = @ \ {ref}]
        \/ \E ref : drain' = [drain EXCEPT !.waiting = @ \ {ref}, !.batch = @ \ {ref}]
        \/ \E ref : drain' = [drain EXCEPT !.waiting = @ \ {ref}, !.batch = @ \ {ref},
                                           !.again = TRUE]
        \/ drain' = [drain EXCEPT !.again = TRUE]
    <3>1. CASE \E ref \in Due : Deliver(ref)
      BY <3>1 DEF Deliver, Answered
    <3>2. CASE (\E ref \in sends : Timeout(ref)) \/ (\E m \in net : Disbelieved(m))
      BY <3>2 DEF Timeout, Disbelieved, Answered
    <3>3. CASE \E t \in tasks : \E op \in t.todo : TaskStep(t, op)
      BY <3>3, TaskStepWaits DEF LetGo
    <3>4. CASE \E t \in tasks : TaskEnd(t)
      BY <3>4 DEF TaskEnd
    <3> QED  BY <1>4, <3>1, <3>2, <3>3, <3>4
  <2>3. drain'.again = TRUE \/ (drain'.again = drain.again /\ drain'.busy = drain.busy)
    BY <1>0, <2>2 DEF Drain
  <2>4. CASE drain'.again = TRUE
    BY <2>1, <2>4 DEF DrainsOK, Awake
  <2>5. CASE drain'.again = drain.again /\ drain'.busy = drain.busy
    <3>1. SameFlags
      BY <2>1, <2>5 DEF SameFlags
    <3> QED  BY <1>a, <3>1
  <2> QED  BY <2>3, <2>4, <2>5
<1>5. CASE \/ ReconRemove
           \/ ReconLeave
           \/ ReconClear
           \/ ReconBind
           \/ ReconFinalize
  <2>1. UNCHANGED drain /\ (UNCHANGED recon \/ Release) /\ (Arm \/ UNCHANGED <<alarm, reread>>)
    BY <1>5 DEF ReconRemove, ReconLeave, ReconClear, ReconBind, ReconFinalize
  <2>2. DrainsOK' /\ (UNCHANGED <<alarm, reread>> => SameFlags)
    BY <1>b, <2>1 DEF SameFlags, DrainsOK
  <2> QED  BY <2>1, <2>2, ArmWakes
<1>6. CASE ReconGiveUp \/ \E op \in recon.todo : ReconTake(op)
  <2>1. UNCHANGED <<drain, alarm, reread>>
    BY <1>6 DEF ReconGiveUp, ReconTake
  <2>2. recon'.again = recon.again /\ recon'.busy = recon.busy /\ recon'.drains = recon.drains
    BY <1>0, <1>6 DEF ReconGiveUp, ReconTake, Recon
  <2>3. SameFlags
    BY <2>1, <2>2 DEF SameFlags
  <2> QED  BY <1>a, <2>3
<1>7. CASE ReconStart
  <2>1. recon'.busy = TRUE /\ recon'.drains = recon.drains /\ ~recon.busy
    BY <1>0, <1>7 DEF ReconStart, Recon
  <2> QED  BY <2>1 DEF DrainsOK, Awake
<1>8. CASE ReconDrain
  <2>1. recon.busy /\ recon'.busy = recon.busy /\ drain'.again = TRUE
    BY <1>0, <1>8 DEF ReconDrain, Recon, Drain
  <2> QED  BY <2>1 DEF DrainsOK, Awake
<1>9. CASE ReconEnd
  <2>1. recon'.drains = FALSE
    BY <1>0, <1>9 DEF ReconEnd, Recon
  <2> QED  BY <1>9, <2>1 DEF DrainsOK
<1>10. CASE AlarmFires \/ \E m \in net : Acknowledged(m)
  <2>1. recon' = [recon EXCEPT !.again = TRUE]
    BY <1>10 DEF AlarmFires, Acknowledged
  <2>2. recon'.again = TRUE /\ recon'.busy = recon.busy /\ recon'.drains = recon.drains
    BY <1>0, <2>1 DEF Recon
  <2> QED  BY <2>2 DEF DrainsOK, Awake
<1>11. CASE WorkerDies
  <2>1. recon'.again = TRUE /\ recon'.drains = FALSE
    BY <1>11 DEF WorkerDies, IdleRecon
  <2> QED  BY <2>1 DEF DrainsOK, Awake
<1>12. CASE DrainStart
  <2>1. drain'.busy = TRUE /\ UNCHANGED recon
    BY <1>12 DEF DrainStart
  <2> QED  BY <2>1 DEF DrainsOK, Awake
<1>13. CASE DrainEnd \/ \E op \in Ops : Forget(op)
  <2>1. reread' = TRUE /\ UNCHANGED recon
    BY <1>13 DEF DrainEnd, Forget
  <2> QED  BY <2>1 DEF DrainsOK, Awake
<1>14. CASE Reschedule \/ \E op \in Ops : Finalize(op)
  <2>1. UNCHANGED <<recon, drain>> /\ (Reschedule \/ UNCHANGED <<alarm, reread>>)
    BY <1>14 DEF Reschedule, Finalize
  <2> QED  BY <2>1 DEF DrainsOK, SameFlags
<1>15. CASE PassError
  <2>1. recon'.busy = recon.busy /\ recon'.drains = recon.drains
    <3>1. Release \/ UNCHANGED recon \/ recon' = [recon EXCEPT !.again = FALSE]
      BY <1>15 DEF PassError
    <3> QED  BY <1>0, <1>b, <3>1 DEF Recon
  <2>2. \/ Arm
        \/ UNCHANGED <<alarm, reread, recon>> /\ (UNCHANGED drain \/ \E ref, ok : Answered(ref, ok))
    BY <1>15 DEF PassError
  <2>3. (\E ref, ok : Answered(ref, ok)) => drain'.again = drain.again /\ drain'.busy = drain.busy
    BY <1>0 DEF Answered, Drain
  <2>4. Arm \/ SameFlags
    BY <2>2, <2>3 DEF SameFlags
  <2> QED  BY <2>1, <2>4, ArmWakes DEF DrainsOK
<1> QED  BY <1>1, <1>2, <1>3, <1>4, <1>5, <1>6, <1>7, <1>8, <1>9, <1>10, <1>11, <1>12,
         <1>13, <1>14, <1>15 DEF Step

LEMMA AwakeStays ==
  ASSUME Typed, DrainsOK, Awake, Step, DOMAIN journal' # {}
  PROVE  Awake'
<1>1. CASE SameFlags
  BY <1>1 DEF Awake, SameFlags
<1>2. CASE Reschedule
  <2>1. alarm' = (DOMAIN journal # {}) /\ UNCHANGED journal
    BY <1>2 DEF Reschedule
  <2> QED  BY <2>1 DEF Awake
<1>3. CASE ReconEnd
  <2>1. UNCHANGED <<alarm, reread, drain>> /\ recon.drains
    BY <1>3 DEF ReconEnd
  <2>2. recon'.again = recon.again
    BY <1>3 DEF ReconEnd, Typed, WorkerTyped
  <2> QED  BY <2>1, <2>2 DEF Awake
<1> QED  BY <1>1, <1>2, <1>3, FlagMoves

\* A request hands its clear on, with the alarm at the latest.
HandsOn(n, q) ==
  \/ ~Clears(q) /\ ~Confirms(q)
  \/ n.op = q.op /\ Clears(n)
  \/ n.op = q.op /\ Confirms(q) /\ Confirms(n) /\ n.gen = q.gen
  \/ /\ n.op = q.op /\ Confirms(n) /\ n.gen # Unbound
     /\ q.op \in DOMAIN journal' => n.gen = journal'[q.op].gen
  \/ q.op \notin DOMAIN journal'
  \/ /\ Confirms(q) /\ UNCHANGED journal
     /\ q.op \in DOMAIN journal => journal[q.op].gen # q.gen
AllHandOn == \A r \in Requests : HandsOn(req'[r], req[r])

LEMMA AlikeHandsOn == ASSUME NEW n, NEW q, Alike(n, q)  PROVE HandsOn(n, q)
BY DEF Alike, HandsOn, Clears, Confirms

LEMMA OneHandsOn ==
  ASSUME RequestTyped, NEW r \in Requests, NEW n, HandsOn(n, req[r]),
         req' = [req EXCEPT ![r] = n]
  PROVE  AllHandOn
<1>1. req'[r] = n /\ \A q \in Requests \ {r} : req'[q] = req[q]
  BY DEF RequestTyped
<1>2. ASSUME NEW q \in Requests \ {r}  PROVE HandsOn(req'[q], req[q])
  BY <1>1, AlikeHandsOn DEF Alike
<1> QED  BY <1>1, <1>2 DEF AllHandOn

\* It has nothing to hand on.
LEMMA OneIdle ==
  ASSUME RequestTyped, NEW r \in Requests, ~Clears(req[r]), ~Confirms(req[r]),
         \/ \E n : req' = [req EXCEPT ![r] = n]
         \/ \E d : Fail(r, d)
         \/ \E p : req' = [req EXCEPT ![r].pc = p]
  PROVE  AllHandOn
<1>1. \A q \in Requests \ {r} : req'[q] = req[q]
  BY DEF RequestTyped, Fail
<1>2. ASSUME NEW q \in Requests \ {r}  PROVE HandsOn(req'[q], req[q])
  BY <1>1, AlikeHandsOn DEF Alike
<1>3. HandsOn(req'[r], req[r])
  BY DEF HandsOn
<1> QED  BY <1>2, <1>3 DEF AllHandOn

\* The handler goes on to its next place.
LEMMA OneGoesOn ==
  ASSUME RequestTyped, NEW r \in Requests, NEW p, req' = [req EXCEPT ![r].pc = p],
         \/ p \in {"prepared", "cleared", "drop"}
         \/ p = "final" /\ req[r].pc = "await"
  PROVE  AllHandOn
<1> PICK q : q = req[r]  OBVIOUS
<1> PICK n : n = [q EXCEPT !.pc = p]  OBVIOUS
<1>1. Shaped(q)
  BY RequestShape DEF RequestTyped
<1>2. n.pc = p /\ n.op = q.op /\ n.gen = q.gen
  BY <1>1 DEF Shaped
<1>3. HandsOn(n, q)
  BY <1>2 DEF HandsOn, Clears, Confirms
<1>4. req' = [req EXCEPT ![r] = n]
  OBVIOUS
<1> QED  BY <1>3, <1>4, OneHandsOn

LEMMA RequestsHandOn ==
  ASSUME IInv, Step
  PROVE  Awake' \/ AllHandOn
<1>0. RequestTyped /\ \A r \in Requests : Request(req[r])
  BY DEF IInv, Typed, RequestTyped
<1>a. \A r : Fail(r, TRUE) => Awake'
  BY ArmWakes DEF Fail
<1>1. CASE OtherSteps
  BY <1>0, <1>1, OthersAlike, AlikeHandsOn DEF AllAlike, AllHandOn
<1>2. CASE \/ \E r \in Requests : Resume(r)
           \/ \E r \in Requests : Refuse(r)
           \/ \E r \in Requests : Discover(r)
           \/ \E r \in Requests : Settle(r)
           \/ \E r \in Requests : BarrierError(r)
           \/ \E r \in Requests : Ask(r)
           \/ \E r \in Requests, op \in Ops : Look(r, op)
  <2>1. PICK r \in Requests :
          /\ req[r].pc \in {"asked", "settle", "gone", "looked", "new"}
          /\ \/ \E n : req' = [req EXCEPT ![r] = n]
             \/ \E d : Fail(r, d)
             \/ \E p : req' = [req EXCEPT ![r].pc = p]
    <3>1. CASE \E r \in Requests : Resume(r)
      BY <3>1 DEF Resume
    <3>4. CASE \E r \in Requests : Ask(r)
      BY <3>4 DEF Ask
    <3>5. CASE \E r \in Requests, op \in Ops : Look(r, op)
      BY <3>5 DEF Look
    <3>2. CASE \E r \in Requests : Refuse(r) \/ Discover(r)
      BY <3>2 DEF Refuse, Discover
    <3>3. CASE \E r \in Requests : Settle(r) \/ BarrierError(r)
      BY <3>3 DEF Settle, BarrierError
    <3> QED  BY <1>2, <3>1, <3>2, <3>3, <3>4, <3>5
  <2>2. ~Clears(req[r]) /\ ~Confirms(req[r])
    BY <2>1 DEF Clears, Confirms
  <2> QED  BY <1>0, <2>1, <2>2, OneIdle
<1>3. CASE \E r \in Requests : StartClear(r)
  <2> PICK r \in Requests : StartClear(r)
    BY <1>3
  <2>1. req[r].pc = "found"
        /\ (req' = [req EXCEPT ![r].pc = "prepared"] \/ \E d : Fail(r, d))
    BY DEF StartClear
  <2>2. ~Clears(req[r]) /\ ~Confirms(req[r])
    BY <2>1 DEF Clears, Confirms
  <2> QED  BY <1>0, <2>1, <2>2, OneIdle
<1>4. CASE \E r \in Requests : Withdraw(r)
  BY <1>4, <1>a DEF Withdraw
<1>5. CASE \E r \in Requests : ClearSessions(r)
  <2> PICK r \in Requests : ClearSessions(r)
    BY <1>5
  <2>1. req[r].pc = "prepared"
    BY DEF ClearSessions
  <2>2. \/ UNCHANGED req \/ Fail(r, TRUE)
        \/ \E o : req' = [req EXCEPT ![r].pc = IF Entries(req[r].op, "pending") = {o}
                                               THEN "cleared" ELSE @]
    BY DEF ClearSessions
  <2>3. \/ UNCHANGED req \/ Fail(r, TRUE)
        \/ \E p \in {"prepared", "cleared"} : req' = [req EXCEPT ![r].pc = p]
    BY <2>1, <2>2
  <2>4. UNCHANGED req => AllHandOn
    BY AlikeHandsOn DEF AllHandOn, Alike
  <2> QED  BY <1>0, <1>a, <2>3, <2>4, OneGoesOn
<1>6. CASE \E r \in Requests : GiveUp(r)
  <2> PICK r \in Requests : GiveUp(r)
    BY <1>6
  <2>1. CASE req' = [req EXCEPT ![r].pc = "drop"]
    BY <1>0, <2>1, OneGoesOn
  <2>2. CASE RemoveOperation(req[r].op, Unbound) /\ Fail(r, FALSE)
    <3>1. req[r].op \notin DOMAIN journal'
      BY <2>2 DEF RemoveOperation, Without
    <3>2. \A q \in Requests \ {r} : req'[q] = req[q]
      BY <1>0, <2>2 DEF RequestTyped, Fail
    <3>3. ASSUME NEW q \in Requests \ {r}  PROVE HandsOn(req'[q], req[q])
      BY <3>2, AlikeHandsOn DEF Alike
    <3>4. HandsOn(req'[r], req[r])
      BY <3>1 DEF HandsOn
    <3> QED  BY <3>3, <3>4 DEF AllHandOn
  <2> QED  BY <2>1, <2>2 DEF GiveUp
<1>7. CASE \E r \in Requests : Delivered(r)
  <2> PICK r \in Requests : Delivered(r)
    BY <1>7
  <2>1. Fail(r, TRUE) \/ (req[r].pc = "await" /\ req' = [req EXCEPT ![r].pc = "final"])
    BY DEF Delivered
  <2> QED  BY <1>0, <1>a, <2>1, OneGoesOn
<1>8. CASE \E r \in Requests : Reply(r)
  <2> PICK r \in Requests : Reply(r)
    BY <1>8
  <2> PICK op, g : op = req[r].op /\ g = req[r].gen
    OBVIOUS
  <2>1. req[r].pc = "final" /\ UNCHANGED journal
    BY DEF Reply
  <2>2. \/ op \in DOMAIN journal => journal[op].gen # g
        \/ Fail(r, TRUE)
        \/ InCanon(op)
    BY DEF Reply, Present
  <2>3. InCanon(op) => Fail(r, TRUE)
    BY DEF Reply
  <2>4. CASE op \in DOMAIN journal => journal[op].gen # g
    <3>1. \A q \in Requests \ {r} : req'[q] = req[q]
      BY <1>0 DEF RequestTyped, Reply, Fail
    <3>2. ASSUME NEW q \in Requests \ {r}  PROVE HandsOn(req'[q], req[q])
      BY <3>1, AlikeHandsOn DEF Alike
    <3>3. HandsOn(req'[r], req[r])
      BY <2>1, <2>4 DEF HandsOn, Confirms
    <3> QED  BY <3>2, <3>3 DEF AllHandOn
  <2> QED  BY <1>a, <2>2, <2>3, <2>4
<1>9. CASE \E r \in Requests : Bind(r)
  <2> PICK r \in Requests : Bind(r)
    BY <1>9
  <2> PICK op, q : op = req[r].op /\ q = req[r]  OBVIOUS
  <2>1. Shaped(q) /\ q.pc = "cleared"
    BY <1>0, RequestShape DEF Bind
  <2> PICK rf : rf = {[op |-> req[r].op, gen |-> canon[req[r].op].gen, sub |-> s,
                       rev |-> journal[req[r].op].targets[s].rev] :
                        s \in {x \in OpenSubjects(req[r].op) :
                                x.origin \in DOMAIN Committed(req[r].op)}}
    OBVIOUS
  <2> PICK g, af, su : /\ g = canon[op].gen /\ af = Committed(op)
                       /\ su = DOMAIN journal'[op].targets
    OBVIOUS
  <2> PICK n : n = [q EXCEPT !.pc = "await", !.gen = g, !.after = af, !.subs = su,
                             !.unsent = rf, !.waiting = rf]
    OBVIOUS
  <2>2. req' = [req EXCEPT ![r] = n] /\ CommitOrigins(op, g, af)
    BY DEF Bind
  <2>3. n.pc = "await" /\ n.op = op /\ n.gen = g
    BY <2>1 DEF Shaped
  <2>4. g # Unbound /\ op \in DOMAIN journal /\ journal'[op].gen = g
    <3>1. JournalTypeOK /\ Present(op) /\ g # Unbound
      BY <2>2 DEF CommitOrigins, IInv, Typed
    <3> PICK j : j = journal[op]  OBVIOUS
    <3>2. j = [gen |-> j.gen, endpoint |-> j.endpoint, before |-> j.before,
               after |-> j.after, targets |-> j.targets]
      BY <3>1 DEF JournalTypeOK, Operation, Present
    <3>3. journal' = [journal EXCEPT
            ![op].gen = g,
            ![op].after = af,
            ![op].targets = [s \in {x \in DOMAIN @ : x.origin \in DOMAIN af} |-> @[s]]]
      BY <2>2 DEF CommitOrigins
    <3>4. journal'[op].gen = g
      BY <3>1, <3>2, <3>3 DEF JournalTypeOK, Present
    <3> QED  BY <3>1, <3>4 DEF Present
  <2>5. HandsOn(n, q)
    BY <2>3, <2>4 DEF HandsOn, Confirms
  <2> QED  BY <1>0, <2>2, <2>5, OneHandsOn
<1>10. CASE WorkerDies
  BY <1>10 DEF WorkerDies, IdleRecon, Awake
<1>11. CASE \E r \in Requests : RequestError(r)
  <2> PICK r \in Requests : RequestError(r)
    BY <1>11
  <2>1. CASE req[r].pc \in {"asked", "found"}
    <3>1. ~Clears(req[r]) /\ ~Confirms(req[r]) /\ \E n : req' = [req EXCEPT ![r] = n]
      BY <2>1 DEF Clears, Confirms, RequestError
    <3> QED  BY <1>0, <3>1, OneIdle
  <2>2. CASE req[r].pc \notin {"asked", "found"}
    BY <2>2, ArmWakes DEF RequestError
  <2> QED  BY <2>1, <2>2
<1> QED  BY <1>1, <1>2, <1>3, <1>4, <1>5, <1>6, <1>7, <1>8, <1>9, <1>10, <1>11
         DEF Step, OtherSteps

\* Only a request puts an operation into the journal, and carries it then.
LEMMA NewIsCarried ==
  ASSUME IInv, Step, NEW op \in DOMAIN journal', op \notin DOMAIN journal
  PROVE  \E r \in Requests : req'[r].op = op /\ Clears(req'[r])
<1>1. CASE \E r \in Requests : StartClear(r)
  <2> PICK r \in Requests : StartClear(r)
    BY <1>1
  <2>1. Prepare(req[r].op, Top, req[r].before, req[r].subs)
        /\ req' = [req EXCEPT ![r].pc = "prepared"]
    BY DEF StartClear
  <2>2. op = req[r].op
    BY <2>1 DEF Prepare
  <2>3. Shaped(req[r])
    BY RequestShape DEF IInv, Typed, RequestTyped
  <2>4. req'[r].op = op /\ req'[r].pc = "prepared"
    BY <2>1, <2>2, <2>3 DEF Shaped, IInv, Typed, RequestTyped
  <2> QED  BY <2>4 DEF Clears
<1>2. CASE (\E r \in Requests : Withdraw(r) \/ GiveUp(r)) \/ ReconRemove
           \/ \E x \in Ops : Forget(x)
  <2>1. UNCHANGED journal \/ \E x, g : RemoveOperation(x, g)
    BY <1>2 DEF Withdraw, GiveUp, ReconRemove, Forget
  <2> QED  BY <2>1 DEF RemoveOperation, Without
<1>3. CASE (\E r \in Requests : Bind(r)) \/ ReconBind
  <2>1. \E x, g, a : CommitOrigins(x, g, a)
    BY <1>3 DEF Bind, ReconBind
  <2> QED  BY <2>1 DEF CommitOrigins
<1>4. CASE (\E ref \in Due : Deliver(ref)) \/ (\E m \in net : Acknowledged(m))
           \/ \E t \in tasks : \E x \in t.todo : TaskStep(t, x)
  <2>1. \/ UNCHANGED journal
        \/ \E x, s, t : SetTarget(x, s, t)
        \/ \E x, g, s, v, n : ReplaceTarget(x, g, s, v, n)
    <3>1. CASE \E ref \in Due : Deliver(ref)
      BY <3>1 DEF Deliver, MarkDelivered
    <3>2. CASE \E m \in net : Acknowledged(m)
      BY <3>2 DEF Acknowledged, Acknowledge
    <3>3. CASE \E t \in tasks : \E x \in t.todo : TaskStep(t, x)
      <4> PICK t \in tasks : \E x \in t.todo : TaskStep(t, x)
        BY <3>3
      <4> PICK x \in t.todo : TaskStep(t, x)
        OBVIOUS
      <4>1. \/ UNCHANGED journal
            \/ \E s : \/ ReplaceTarget(x, RefOf(x, s).gen, s, RefOf(x, s).rev, t.sub)
                      \/ Supersede(x, RefOf(x, s).gen, s, RefOf(x, s).rev)
        BY DEF TaskStep
      <4>2. \A g, s, v : Supersede(x, g, s, v) => \E w : SetTarget(x, s, w)
        BY DEF Supersede
      <4> QED  BY <4>1, <4>2
    <3> QED  BY <1>4, <3>1, <3>2, <3>3
  <2>2. \A x, s, t : SetTarget(x, s, t) => DOMAIN journal' = DOMAIN journal
    BY DEF SetTarget
  <2>3. \A x, g, s, v, n : ReplaceTarget(x, g, s, v, n) => DOMAIN journal' = DOMAIN journal
    BY DEF ReplaceTarget
  <2> QED  BY <2>1, <2>2, <2>3
<1> QED  BY <1>1, <1>2, <1>3, <1>4, StepMoves, JournalMovers

LEMMA AlarmStep ==
  ASSUME IInv, AlarmOK, Step
  PROVE  AlarmOK'
<1>0. Typed /\ DrainsOK
  BY DEF IInv, AlarmOK
<1>1. DrainsOK'
  BY <1>0, FlagMoves
<1>2. ASSUME NEW op \in DOMAIN journal', ~Awake'
      PROVE  \E r \in Requests : Carries(req'[r], op, journal'[op].gen)
  <2> PICK gen, new : new = journal'[op].gen /\ gen = journal[op].gen
    OBVIOUS
  <2>1. CASE op \notin DOMAIN journal
    BY <2>1, NewIsCarried DEF Carries
  <2>2. CASE op \in DOMAIN journal
    <3>1. ~Awake
      BY <1>0, <1>2, AwakeStays
    <3>2. PICK r \in Requests : Carries(req[r], op, gen)
      BY <2>2, <3>1 DEF AlarmOK
    <3>3. HandsOn(req'[r], req[r])
      BY <1>2, RequestsHandOn DEF AllHandOn
    <3>4. new = gen \/ gen = Unbound
      <4>1. JournalMoves
        BY StepMoves, JournalStep
      <4> QED  BY <2>2, <4>1 DEF JournalMoves, OpMoves
    <3> PICK q, n : q = req[r] /\ n = req'[r]
      OBVIOUS
    <3>5. Carries(n, op, new)
      BY <2>2, <3>2, <3>3, <3>4 DEF Carries, HandsOn, Clears, Confirms
    <3> QED  BY <3>5
  <2> QED  BY <2>1, <2>2
<1> QED  BY <1>1, <1>2 DEF AlarmOK

\* When the worker has nothing left to do, an operation that is still in the journal has
\* an alarm that takes it up again, after any death, storage error or early answer
\* (rescheduleClearProjectionAlarm, scheduleConservativeClearProjectionRetry).
THEOREM NoClearStranded == Spec => []NoStranded
<1>1. Init => AlarmOK
  BY DEF Init, JournalInit, AlarmOK, DrainsOK, IdleRecon
<1>2. IInv /\ AlarmOK /\ [Next]_vars => AlarmOK'
  <2>1. IInv /\ AlarmOK /\ Next => AlarmOK'
    BY NextIsStep, AlarmStep
  <2>2. AlarmOK /\ UNCHANGED vars => AlarmOK'
    BY DEF AlarmOK, DrainsOK, Awake, vars, passVars
  <2> QED  BY <2>1, <2>2
<1>3. AlarmOK => NoStranded
  BY NotStranded
<1> QED  BY <1>1, <1>2, <1>3, ClearInvariant, PTL DEF Spec

-----------------------------------------------------------------------------
(* Barriers: BarrierHolds.                                                 *)

BarrierKept ==
  loaded' => \A op \in DOMAIN journal' :
    (barrier[op] # None \/ ~loaded) => (barrier'[op] # None \/ GaveUp(op))

\* An attempt takes down the barrier that it put up itself, or none.
LEMMA AttemptEnds ==
  ASSUME Typed, NEW r \in Requests, NEW op \in Ops,
         Settle(r) \/ BarrierError(r), barrier[op] # None, barrier'[op] = None
  PROVE  GaveUp(op)
<1>0. RequestTyped /\ barrier \in [Ops -> Attempt]
  BY DEF Typed, WorkerTyped, Attempt
<1>1. /\ req[r].pc \in {"asked", "gone"}
      /\ \E x : req' = [req EXCEPT ![r] = Done(r, x)]
      /\ barrier' = BarrierWithout(req[r].op, r)
  BY DEF Settle, BarrierError
<1>2. barrier[op] = r
  BY <1>0, <1>1 DEF BarrierWithout
<1>3. \A x : Done(r, x).pc = "done"
  BY DEF Done, NewReq
<1>4. req'[r].pc = "done"
  BY <1>0, <1>1, <1>3 DEF RequestTyped
<1> QED  BY <1>1, <1>2, <1>4 DEF GaveUp

LEMMA BarrierStep ==
  ASSUME IInv, IInv', Step
  PROVE  BarrierKept
<1> SUFFICES ASSUME loaded', NEW op \in DOMAIN journal', barrier[op] # None \/ ~loaded,
                    barrier'[op] = None
             PROVE  GaveUp(op)
  BY DEF BarrierKept
<1>0. /\ Typed /\ barrier \in [Ops -> Attempt] /\ op \in Ops
      /\ None \notin Requests /\ None # Boot
  <2>1. Typed /\ barrier \in [Ops -> Attempt]
    BY DEF IInv, Typed, WorkerTyped, Attempt
  <2>2. JournalTypeOK'
    BY DEF IInv, Typed
  <2>3. DOMAIN journal' \subseteq Ops
    BY <2>2 DEF JournalTypeOK
  <2> QED  BY <2>1, <2>3, ConstantsOK
<1>1. CASE UNCHANGED <<barrier, loaded>>
  BY <1>1
<1>2. CASE LoadBarriers
  BY <1>0, <1>2 DEF LoadBarriers, Present
<1>3. CASE WorkerDies
  BY <1>3 DEF WorkerDies
<1>4. CASE \E r \in Requests : Ask(r)
  BY <1>0, <1>4 DEF Ask
<1>5. CASE \E r \in Requests : Settle(r) \/ BarrierError(r)
  <2>1. PICK r \in Requests : Settle(r) \/ BarrierError(r)
    BY <1>5
  <2>2. loaded' = loaded
    BY <2>1 DEF Settle, BarrierError
  <2> QED  BY <1>0, <2>1, <2>2, AttemptEnds
<1>6. CASE (\E x \in Ops : Forget(x)) \/ ReconRemove
  <2>1. PICK x, a : /\ journal' = Without(x) /\ loaded' = loaded
                    /\ barrier' = BarrierWithout(x, a)
    BY <1>6 DEF Forget, ReconRemove, RemoveOperation, Rest
  <2>2. op # x
    BY <2>1 DEF Without
  <2> QED  BY <1>0, <2>1, <2>2 DEF BarrierWithout
<1> QED  BY <1>1, <1>2, <1>3, <1>4, <1>5, <1>6, BarrierSteps DEF BarrierMoves

\* A barrier stays up as long as its operation is in the journal, unless the attempt
\* that put it up ends without one, and a restarted worker has all of them back before
\* it lets a capture or an edit in (removeClearActionBarrier and its attempt tokens,
\* settleClearActionBarrier, ensureClearActionBarriersLoaded).
THEOREM BarriersHold == Spec => BarrierHolds
<1>1. IInv /\ IInv' /\ [Next]_vars => [BarrierKept]_vars
  BY NextIsStep, BarrierStep
<1> QED  BY <1>1, ClearInvariant, PTL DEF Spec, BarrierHolds, BarrierKept
=============================================================================
