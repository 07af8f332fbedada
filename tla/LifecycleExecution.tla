------------------------- MODULE LifecycleExecution -------------------------
(***************************************************************************)
(* How the extension carries out the changes agents propose                *)
(* (background-controller.ts with the delivery store, the execution store  *)
(* and the operation ledger): a proposal is delivered to the widget of a   *)
(* page, the user approves it, it is claimed from the bridge, recorded as  *)
(* approved, applied to the session together with its receipt in the       *)
(* ledger, marked committed, published, and acknowledged to the bridge.    *)
(*                                                                         *)
(* The lifecycle handlers run one at a time; each is split here at every   *)
(* call to the bridge and every storage write, where the worker may die,   *)
(* the call may fail, and the page, the user and the agent go on.  `task'  *)
(* is what the running handler has left to do.  An effect whose answer is  *)
(* lost is the effect, followed by the failure of the next step.           *)
(*                                                                         *)
(* The bridge is LifecycleOutcome, which LifecycleMailbox implements.      *)
(* There is one annotation, and one widget per document of one tab, so     *)
(* every record concerns them.  The n-th change of the session is its      *)
(* updatedAt n; the change also is the item's updatedAt if it touched it.  *)
(***************************************************************************)
EXTENDS Naturals, FiniteSets

CONSTANTS
  Operations,      \* operation ids of the agents
  Retries,         \* whether agents send an id again to a new connection
  Edits,           \* what the user does to the session
  MaxConnections,  \* bound on the pairings with the bridge
  MaxDocuments,    \* bound on the documents the tab shows
  MaxVersion,      \* bound on the changes of the session by the user
  MaxFaults        \* bound on failed calls, clock changes, deaths and restarts

ASSUME ExecutionConstantsOK ==
  /\ IsFiniteSet(Operations)
  /\ Retries \in BOOLEAN
  /\ Edits \subseteq {"note", "toggle", "capture"}
  /\ {MaxConnections, MaxVersion, MaxFaults} \subseteq Nat
  /\ MaxDocuments \in Nat \ {0}

Connections == 1 .. MaxConnections
Outcomes    == {"succeeded", "blocked", "cancelled"}
Submissions == Connections \X Operations

VARIABLES
  \* The bridge.
  status,      \* per submission, as in LifecycleOutcome
  asked,       \* per submission: the state it proposes to leave
  late,        \* the submissions whose time is over
  connection,  \* the connection generation, or 0
  connections, \* how many there were
  shared,      \* the annotation in the snapshot the bridge has
  \* Durable: the session file with its ledger, and chrome.storage.session.
  item,        \* the annotated item
  version,     \* session.updatedAt
  ledger,      \* per operation: its receipt
  delivery,    \* per operation: where it was shown
  exec,        \* per operation: the execution record
  \* The page and the worker.
  document,    \* the document the tab shows
  lease,       \* the document whose widget lease is current, or 0
  task,
  \* Bookkeeping of the model.
  applied,     \* per submission: how often it was applied
  faults

bridge  == <<status, asked, late, connection, connections, shared>>
session == <<item, version, ledger, applied>>
records == <<delivery, exec>>
page    == <<document, lease>>
vars    == <<bridge, session, records, page, task, faults>>

States   == {"open", "resolved"}
Other(s) == IF s = "open" THEN "resolved" ELSE "open"

Snapshot == [state : States \cup {"gone"}, at : Nat]
Receipt  == [gen : Nat, at : Nat]
Delivery == [gen : Nat, doc : Nat]
Exec     == [phase : {"none", "approved", "committed", "terminal"},
             gen : Nat, doc : Nat, at : Nat,
             outcome : {"none", "blocked", "cancelled"}]
NoReceipt  == [gen |-> 0, at |-> 0]
NoDelivery == [gen |-> 0, doc |-> 0]
NoExec     == [phase |-> "none", gen |-> 0, doc |-> 0, at |-> 0,
               outcome |-> "none"]

\* goal: what a termination is for.  authority: the connection the bridge
\* confirmed when the handler began, or 0.  widget: whether the widget's
\* session is published, not the durable readback.  failure: what is reported
\* if nothing can be applied.
Task == [kind : {"idle", "read", "approve", "reject", "recover", "terminate"},
         step : {"idle", "deliver", "tidy", "retire", "refuse", "claim", "save",
                 "handoff", "authorize", "write", "commit", "publish", "ack",
                 "fail", "nack", "drop", "next", "deliveries", "finish"},
         goal : {"none", "remove", "clear", "disconnect", "release"},
         op : Operations \cup {"none"}, gen : Nat, doc : Nat, authority : Nat,
         todo : SUBSET Operations, widget : BOOLEAN,
         failure : {"none", "blocked", "cancelled"}]
Idle == [kind |-> "idle", step |-> "idle", goal |-> "none", op |-> "none",
         gen |-> 0, doc |-> 0, authority |-> 0, todo |-> {}, widget |-> FALSE,
         failure |-> "none"]

Bridge == INSTANCE LifecycleOutcome WITH Connections <- Connections

TypeOK ==
  /\ Bridge!TypeOK
  /\ asked \in [Submissions -> States \cup {"none"}]
  /\ late \subseteq Submissions
  /\ connection \in 0 .. connections
  /\ connections \in 0 .. MaxConnections
  /\ shared \in SUBSET Snapshot
  /\ item \in Snapshot
  /\ version \in Nat
  /\ ledger \in [Operations -> Receipt]
  /\ delivery \in [Operations -> Delivery]
  /\ exec \in [Operations -> Exec]
  /\ document \in 1 .. MaxDocuments
  /\ lease \in {0, document}
  /\ task \in Task
  /\ applied \in [Submissions -> Nat]
  /\ faults \in 0 .. MaxFaults

Init ==
  /\ Bridge!Init
  /\ asked = [s \in Submissions |-> "none"]
  /\ late = {}
  /\ connection = 0
  /\ connections = 0
  /\ shared = {}
  /\ item = [state |-> "open", at |-> 1]
  /\ version = 1
  /\ ledger = [o \in Operations |-> NoReceipt]
  /\ delivery = [o \in Operations |-> NoDelivery]
  /\ exec = [o \in Operations |-> NoExec]
  /\ document = 1
  /\ lease = 0
  /\ task = Idle
  /\ applied = [s \in Submissions |-> 0]
  /\ faults = 0

-----------------------------------------------------------------------------
\* The bridge, the user and the browser.

\* A new connection ends the one before it, and knows no capture.
Pair ==
  /\ connections < MaxConnections
  /\ connection' = connections + 1
  /\ connections' = connections + 1
  /\ shared' = {}
  /\ Bridge!Drop(connection)
  /\ UNCHANGED <<asked, late, session, records, page, task, faults>>

Unpair ==
  /\ connection # 0
  /\ connections < MaxConnections
  /\ connection' = 0
  /\ shared' = {}
  /\ Bridge!Drop(connection)
  /\ UNCHANGED <<asked, late, connections, session, records, page, task, faults>>

\* An agent proposes to leave the state the shared capture shows.
Submit(o) ==
  LET s == <<connection, o>> IN
  /\ connection # 0
  /\ Retries \/ \A c \in Connections : asked[<<c, o>>] = "none"
  /\ Bridge!Move(s, "unused", "offered")
  /\ \E shown \in shared : asked' = [asked EXCEPT ![s] = shown.state]
  /\ UNCHANGED <<late, connection, connections, shared, session, records, page,
                 task, faults>>

\* The time of a proposal is over, for the bridge and for the extension.
Expire(s) ==
  /\ asked[s] # "none"
  /\ s \notin late
  /\ late' = late \cup {s}
  /\ IF status[s] \in {"offered", "claimed"}
       THEN Bridge!Expire({s}) ELSE UNCHANGED status
  /\ UNCHANGED <<asked, connection, connections, shared, session, records, page,
                 task, faults>>

Shown == IF item.state = "gone" THEN {} ELSE {item}

\* The extension publishes the session outside these handlers.
Share ==
  /\ connection # 0
  /\ shared # Shown
  /\ shared' = Shown
  /\ UNCHANGED <<status, asked, late, connection, connections, session, records,
                 page, task, faults>>

\* The user changes the note or the state of the item, or captures another.
\* The store runs one operation at a time, so never within `write'.
Edit(what) ==
  /\ item.state # "gone"
  /\ task.step # "write"
  /\ version < MaxVersion
  /\ version' = version + 1
  /\ item' = CASE what = "note"    -> [item EXCEPT !.at = version + 1]
               [] what = "toggle"  -> [state |-> Other(item.state), at |-> version + 1]
               [] what = "capture" -> item
  /\ UNCHANGED <<bridge, ledger, applied, records, page, task, faults>>

\* MUTANT of Navigate: the lease of the old document stays.
NavigateWithLease ==
  /\ document < MaxDocuments
  /\ document' = document + 1
  /\ UNCHANGED <<bridge, session, records, lease, task, faults>>

Navigate ==
  /\ document < MaxDocuments
  /\ document' = document + 1
  /\ lease' = 0
  /\ UNCHANGED <<bridge, session, records, task, faults>>

\* The widget is hidden, or its port is lost; it is shown, or connects again.
ChangeLease ==
  /\ lease' = IF lease = 0 THEN document ELSE 0
  /\ UNCHANGED <<bridge, session, records, document, task, faults>>

WorkerDies ==
  /\ faults < MaxFaults
  /\ faults' = faults + 1
  /\ task' = Idle
  /\ lease' = 0
  /\ UNCHANGED <<bridge, session, records, document>>

\* chrome.storage.session does not outlive the browser.
BrowserRestarts ==
  /\ faults < MaxFaults
  /\ faults' = faults + 1
  /\ task' = Idle
  /\ lease' = 0
  /\ delivery' = [o \in Operations |-> NoDelivery]
  /\ exec' = [o \in Operations |-> NoExec]
  /\ UNCHANGED <<bridge, session, document>>

-----------------------------------------------------------------------------
\* The task.

At(step) == task.step = step
Go(step) == task' = [task EXCEPT !.step = step]

\* A recovery goes on with the next execution, other handlers give up.
GiveUp == task' = IF task.kind = "recover" THEN [task EXCEPT !.step = "next"] ELSE Idle

Proceed == task' = IF task.kind \in {"recover", "terminate"}
                     THEN [task EXCEPT !.step = "next"] ELSE Idle

\* A call to the bridge or to the storage fails.
CallFails ==
  /\ task # Idle
  /\ faults < MaxFaults
  /\ faults' = faults + 1
  /\ GiveUp
  /\ UNCHANGED <<bridge, session, records, page>>

Subject == <<task.gen, task.op>>

\* resolveWidgetAnnotationLifecycleControlProposal: the item shows what the
\* proposal expects, or what it asks for if it was committed.
Resolves(s) ==
  item.state = IF exec[s[2]].phase = "committed" THEN Other(asked[s]) ELSE asked[s]

\* What the bridge has for the widget, and the widget can show.
Readable(o) ==
  LET s == <<connection, o>> IN
  /\ lease # 0
  /\ connection # 0
  /\ status[s] \in {"offered", "claimed"}
  /\ Resolves(s)

Begin(kind, step, o) ==
  /\ task = Idle
  /\ Readable(o)
  /\ task' = [Idle EXCEPT !.kind = kind, !.step = step, !.op = o, !.gen = connection,
                !.doc = lease, !.authority = connection, !.widget = TRUE,
                !.failure = "blocked"]
  /\ UNCHANGED <<bridge, session, records, page, faults>>

BeginRead(o)    == Begin("read", "deliver", o)
BeginApprove(o) == Begin("approve", "claim", o)
BeginReject(o)  == Begin("reject", "refuse", o)

\* The recovery and the terminations begin with all execution records and with
\* the connection of the bridge, unknown (0) if that call fails.
BeginAll(kind, goal) ==
  /\ task = Idle
  /\ \E authority \in {0, connection} :
       /\ task' = [Idle EXCEPT !.kind = kind, !.step = "next", !.goal = goal,
                     !.authority = authority,
                     !.todo = {o \in Operations : exec[o] # NoExec}]
       /\ IF authority = connection THEN UNCHANGED faults
          ELSE faults < MaxFaults /\ faults' = faults + 1
  /\ UNCHANGED <<bridge, session, records, page>>

BeginRecover         == BeginAll("recover", "none")
BeginTerminate(goal) == BeginAll("terminate", goal)

-----------------------------------------------------------------------------
\* Showing and rejecting.

\* There is nothing to show: the widget forgets what it showed.
ReadNothing ==
  /\ task = Idle
  /\ lease # 0
  /\ connection # 0
  /\ \A o \in Operations : status[<<connection, o>>] \notin {"offered", "claimed"}
  /\ delivery' = [o \in Operations |->
                    IF delivery[o].doc = lease THEN NoDelivery ELSE delivery[o]]
  /\ UNCHANGED <<bridge, session, exec, page, task, faults>>

\* An operation is shown in one document, under one reference.
SaveDelivery ==
  LET shown == [gen |-> task.gen, doc |-> task.doc] IN
  /\ At("deliver")
  /\ \/ /\ lease = task.doc
        /\ delivery[task.op] \in {NoDelivery, shown}
        /\ delivery' = [delivery EXCEPT ![task.op] = shown]
        /\ Go("tidy")
     \/ /\ lease # task.doc \/ delivery[task.op] \notin {NoDelivery, shown}
        /\ GiveUp
        /\ UNCHANGED delivery
  /\ UNCHANGED <<bridge, session, exec, page, faults>>

\* The widget shows one operation; what was saved without a lease is retired.
Tidy ==
  /\ At("tidy")
  /\ delivery' = [o \in Operations |->
       IF o # task.op /\ delivery[o].doc = task.doc THEN NoDelivery ELSE delivery[o]]
  /\ IF lease = task.doc THEN Proceed ELSE Go("retire")
  /\ UNCHANGED <<bridge, session, exec, page, faults>>

Refuse ==
  /\ At("refuse")
  /\ \/ /\ connection = task.gen
        /\ Bridge!Move(Subject, "offered", "refused")
        /\ IF lease = task.doc THEN Go("retire") ELSE GiveUp
     \/ /\ ~(connection = task.gen /\ status[Subject] = "offered")
        /\ GiveUp
        /\ UNCHANGED status
  /\ UNCHANGED <<asked, late, connection, connections, shared, session, records,
                 page, faults>>

Retire ==
  /\ At("retire")
  /\ delivery' = IF delivery[task.op].doc = task.doc
                   THEN [delivery EXCEPT ![task.op] = NoDelivery] ELSE delivery
  /\ Proceed
  /\ UNCHANGED <<bridge, session, exec, page, faults>>

-----------------------------------------------------------------------------
\* Approving: claim, record, apply.

\* A second claim returns the approval of the first.
Claim ==
  LET may == connection = task.gen /\ status[Subject] \in {"offered", "claimed"} IN
  /\ At("claim")
  /\ status' = IF may THEN [status EXCEPT ![Subject] = "claimed"] ELSE status
  /\ IF may THEN Go("save") ELSE GiveUp
  /\ UNCHANGED <<asked, late, connection, connections, shared, session, records,
                 page, faults>>

\* saveApproved, or the record of the same approval that is already there.
SaveApproved ==
  LET old  == exec[task.op]
      new  == [NoExec EXCEPT !.phase = "approved", !.gen = task.gen, !.doc = task.doc]
      fits == old.phase # "terminal" /\ old.gen = task.gen /\ old.doc = task.doc
      may  == lease = task.doc /\ Resolves(Subject) /\ (old = NoExec \/ fits)
  IN
  /\ At("save")
  /\ exec' = IF may /\ old = NoExec THEN [exec EXCEPT ![task.op] = new] ELSE exec
  /\ IF may THEN Go("handoff") ELSE GiveUp
  /\ UNCHANGED <<bridge, session, delivery, page, faults>>

\* The delivery in the document of the execution, if any, is the execution's.
Handable(o) == delivery[o].doc = exec[o].doc => delivery[o].gen = exec[o].gen

HandedOff(o) == IF delivery[o].doc = exec[o].doc
                  THEN [delivery EXCEPT ![o] = NoDelivery] ELSE delivery

Handoff ==
  LET may == lease = task.doc /\ Handable(task.op) IN
  /\ At("handoff")
  /\ delivery' = IF may THEN HandedOff(task.op) ELSE delivery
  /\ IF may
       THEN Go(IF exec[task.op].phase = "committed" THEN "publish" ELSE "authorize")
       ELSE GiveUp
  /\ UNCHANGED <<bridge, session, exec, page, faults>>

\* parseAnnotationLifecycleOperationAtomicReadback: the receipt is that of the
\* submission, and nothing changed the session since.
ReadsBack(s) ==
  /\ ledger[s[2]].gen = s[1]
  /\ item.state = Other(asked[s])
  /\ item.at = ledger[s[2]].at
  /\ version = ledger[s[2]].at

Recorded(o) == ledger[o] # NoReceipt

\* MUTANT of Authorize: the receipt of an earlier application is not noticed.
AuthorizeBlindly ==
  /\ At("authorize")
  /\ Go(IF /\ lease = task.doc
           /\ Subject \notin late
           /\ connection = task.gen
           /\ item.state = asked[Subject]
        THEN "write" ELSE "fail")
  /\ UNCHANGED <<bridge, session, records, page, faults>>

\* applyAnnotationLifecycleOperation up to its write, with the store locked.
\* Bridge, page or item may refuse; so does a call that fails.
Authorize ==
  LET granted == /\ lease = task.doc
                 /\ Subject \notin late
                 /\ connection = task.gen
                 /\ item.state = asked[Subject]
  IN
  /\ At("authorize")
  /\ \/ /\ Go(CASE Recorded(task.op) /\ ReadsBack(Subject)  -> "commit"
                [] Recorded(task.op) /\ ~ReadsBack(Subject) -> "fail"
                [] ~Recorded(task.op) /\ granted            -> "write"
                [] OTHER                                    -> "fail")
        /\ UNCHANGED faults
     \/ /\ ~Recorded(task.op)
        /\ faults < MaxFaults
        /\ faults' = faults + 1
        /\ Go("fail")
  /\ UNCHANGED <<bridge, session, records, page>>

\* MUTANT of Write: what held when it was authorized is not looked at again.
WriteAnyway ==
  LET at == version + 1 IN
  /\ At("write")
  /\ version' = at
  /\ item' = [state |-> Other(item.state), at |-> at]
  /\ ledger' = [ledger EXCEPT ![task.op] = [gen |-> task.gen, at |-> at]]
  /\ applied' = [applied EXCEPT ![Subject] = @ + 1]
  /\ Go("commit")
  /\ UNCHANGED <<bridge, records, page, faults>>

\* The session and the ledger are written together, if lease and time still
\* hold at that moment.  The change is dated after session.updatedAt, the
\* receipt by the clock: if the clock was set back they disagree and nothing is
\* written.
Write ==
  LET may == lease = task.doc /\ Subject \notin late
      at  == version + 1
  IN
  /\ At("write")
  /\ \/ /\ may
        /\ version' = at
        /\ item' = [state |-> Other(item.state), at |-> at]
        /\ ledger' = [ledger EXCEPT ![task.op] = [gen |-> task.gen, at |-> at]]
        /\ applied' = [applied EXCEPT ![Subject] = @ + 1]
        /\ Go("commit")
        /\ UNCHANGED faults
     \/ /\ \/ ~may /\ UNCHANGED faults
           \/ may /\ faults < MaxFaults /\ faults' = faults + 1
        /\ Go("fail")
        /\ UNCHANGED session
  /\ UNCHANGED <<bridge, records, page>>

\* A recovery that does not know the connection leaves it at that.
Commit ==
  /\ At("commit")
  /\ exec' = [exec EXCEPT ![task.op].phase = "committed",
                          ![task.op].at = ledger[task.op].at]
  /\ IF task.kind = "recover" /\ task.authority = 0 THEN GiveUp ELSE Go("publish")
  /\ UNCHANGED <<bridge, session, delivery, page, faults>>

-----------------------------------------------------------------------------
\* Answering the agent.

\* The bridge confirmed another connection than that of the execution.
Stranded == task.authority \notin {0, task.gen}

\* MUTANT of Publish: without the widget nothing is published.
PublishWithWidget ==
  LET may == connection # 0 /\ task.widget /\ lease = task.doc IN
  /\ At("publish")
  /\ shared' = IF may THEN Shown ELSE shared
  /\ IF may THEN Go(IF Stranded THEN "drop" ELSE "ack") ELSE GiveUp
  /\ UNCHANGED <<status, asked, late, connection, connections, session, records,
                 page, faults>>

\* The widget publishes the session as it is; without it the item must still be
\* as the receipt left it.
Publish ==
  LET may == /\ connection # 0
             /\ IF task.widget THEN lease = task.doc
                ELSE item.state # "gone" /\ item.at = exec[task.op].at
  IN
  /\ At("publish")
  /\ shared' = IF may THEN Shown ELSE shared
  /\ IF may THEN Go(IF Stranded THEN "drop" ELSE "ack") ELSE GiveUp
  /\ UNCHANGED <<status, asked, late, connection, connections, session, records,
                 page, faults>>

\* MUTANT of Answered: a receipt is not taken a second time.
AnsweredOnce(outcome, confirmed) ==
  LET may == connection = task.gen /\ status[Subject] = "claimed" /\ confirmed IN
  /\ status' = IF may THEN [status EXCEPT ![Subject] = outcome] ELSE status
  /\ IF may THEN Go("drop") ELSE GiveUp
  /\ UNCHANGED <<asked, late, connection, connections, shared, session, records,
                 page, faults>>

\* The bridge takes a receipt for what was claimed, or the same one again.
Answered(outcome, confirmed) ==
  LET may == /\ connection = task.gen
             /\ status[Subject] \in {"claimed", "lapsed", outcome}
             /\ confirmed
  IN
  /\ status' = IF may THEN [status EXCEPT ![Subject] = outcome] ELSE status
  /\ IF may THEN Go("drop") ELSE GiveUp
  /\ UNCHANGED <<asked, late, connection, connections, shared, session, records,
                 page, faults>>

\* finalizeAnnotationLifecycleControlSuccess: the bridge wants to see it.
Ack ==
  /\ At("ack")
  /\ Answered("succeeded",
       shared = {[state |-> Other(asked[Subject]), at |-> exec[task.op].at]})

\* finalizeAnnotationLifecycleControlFailure
Fail ==
  LET record == exec[task.op]
      marked == [record EXCEPT !.phase = "terminal", !.outcome = task.failure]
  IN
  /\ At("fail")
  /\ \/ /\ record.phase = "approved" /\ Subject \in late
        /\ Go("drop") /\ UNCHANGED exec
     \/ /\ record.phase = "approved" /\ Subject \notin late
        /\ exec' = [exec EXCEPT ![task.op] = marked]
        /\ Go("nack")
     \/ /\ record = marked
        /\ Go("nack") /\ UNCHANGED exec
     \/ /\ record.phase # "approved" /\ record # marked
        /\ GiveUp /\ UNCHANGED exec
  /\ UNCHANGED <<bridge, session, delivery, page, faults>>

Nack ==
  /\ At("nack")
  /\ Answered(task.failure, TRUE)

Drop ==
  /\ At("drop")
  /\ exec' = [exec EXCEPT ![task.op] = NoExec]
  /\ Proceed
  /\ UNCHANGED <<bridge, session, delivery, page, faults>>

-----------------------------------------------------------------------------
\* Recovering, and terminating before something is removed.

\* MUTANT of Judged: what is not marked committed was not applied.
JudgedByPhase(o) ==
  IF exec[o].phase = "approved" THEN "not_committed" ELSE exec[o].phase

\* MUTANT of Judged: nor was what has expired.
JudgedByTime(o) ==
  LET e == exec[o]
      s == <<e.gen, o>>
  IN CASE e.phase # "approved"                       -> e.phase
       [] e.phase = "approved" /\ s \in late         -> "not_committed"
       [] e.phase = "approved" /\ s \notin late /\ ~Recorded(o) -> "not_committed"
       [] e.phase = "approved" /\ s \notin late /\ Recorded(o) /\ ReadsBack(s) -> "applied"
       [] OTHER                                      -> "unknown"

\* recoverCommittedAnnotationLifecycleControlExecution: an approved execution
\* whose receipt is in the ledger was applied, one without a receipt was not.
Judged(o) ==
  LET e == exec[o]
      s == <<e.gen, o>>
  IN CASE e.phase # "approved"                            -> e.phase
       [] e.phase = "approved" /\ ~Recorded(o)            -> "not_committed"
       [] e.phase = "approved" /\ Recorded(o) /\ ReadsBack(s) -> "applied"
       [] OTHER                                           -> "unknown"

\* What is to be done about an execution, given the connection that the
\* handler was told, and whether the widget that was approved in is there.
Recovery(o) ==
  LET e        == exec[o]
      s        == <<e.gen, o>>
      known    == task.authority # 0
      stranded == task.authority \notin {0, e.gen}
      verdict  == Judged(o)
  IN CASE verdict = "applied"                         -> "commit"
       [] verdict = "committed" /\ known              -> "publish"
       [] verdict = "terminal" /\ stranded            -> "drop"
       [] verdict = "terminal" /\ ~stranded           -> "fail"
       [] verdict = "not_committed" /\ (s \in late \/ stranded) -> "drop"
       [] verdict = "not_committed" /\ s \notin late /\ task.authority = e.gen
            /\ lease = e.doc ->
              IF item.state = asked[s] THEN "authorize" ELSE "fail"
       [] OTHER                                       -> "next"

Termination(o) ==
  LET e        == exec[o]
      s        == <<e.gen, o>>
      stranded == task.authority \notin {0, e.gen}
      verdict  == Judged(o)
  IN CASE verdict = "applied"                         -> "commit"
       [] verdict = "committed"                       -> "publish"
       [] verdict \in {"terminal", "not_committed"} /\ stranded -> "drop"
       [] verdict = "not_committed" /\ ~stranded /\ s \in late  -> "drop"
       [] verdict \in {"terminal", "not_committed"}   -> "fail"
       [] OTHER                                       -> "idle"

\* The next execution: its delivery goes first, and must be its own.
Visit(o) ==
  LET e    == exec[o]
      step == IF task.kind = "recover" THEN Recovery(o) ELSE Termination(o)
      failure == IF task.kind = "terminate" THEN "cancelled"
                 ELSE IF e.phase = "terminal" THEN e.outcome ELSE "blocked"
      task1 == [task EXCEPT !.todo = @ \ {o}, !.step = step, !.op = o,
                  !.gen = e.gen, !.doc = e.doc, !.failure = failure,
                  !.widget = /\ task.kind = "recover"
                             /\ task.authority = e.gen
                             /\ lease = e.doc]
      skipped == [task EXCEPT !.todo = @ \ {o}]
  IN
  /\ At("next")
  /\ o \in task.todo
  /\ \/ /\ Handable(o)
        /\ delivery' = HandedOff(o)
        /\ task' = IF step = "idle" THEN Idle ELSE task1
     \/ /\ ~Handable(o)
        /\ task' = IF task.kind = "recover" THEN skipped ELSE Idle
        /\ UNCHANGED delivery
  /\ UNCHANGED <<bridge, session, exec, page, faults>>

AllVisited ==
  /\ At("next")
  /\ task.todo = {}
  /\ IF task.kind = "recover" THEN task' = Idle ELSE Go("deliveries")
  /\ UNCHANGED <<bridge, session, records, page, faults>>

\* What is shown and not claimed is rejected at the bridge, then forgotten.
RejectDelivered(o) ==
  /\ At("deliveries")
  /\ delivery[o] # NoDelivery
  /\ delivery[o].gen = connection
  /\ Bridge!Move(<<connection, o>>, "offered", "refused")
  /\ UNCHANGED <<asked, late, connection, connections, shared, session, records,
                 page, task, faults>>

Forgettable(o) ==
  LET s == <<delivery[o].gen, o>> IN
  s \in late \/ (connection = s[1] /\ status[s] = "refused")

ForgetDelivered(o) ==
  /\ At("deliveries")
  /\ delivery[o] # NoDelivery
  /\ Forgettable(o)
  /\ delivery' = [delivery EXCEPT ![o] = NoDelivery]
  /\ UNCHANGED <<bridge, session, exec, page, task, faults>>

\* The bridge does not take the rejection.
DeliveryStays(o) ==
  /\ At("deliveries")
  /\ delivery[o] # NoDelivery
  /\ ~Forgettable(o)
  /\ ~(connection = delivery[o].gen /\ status[<<connection, o>>] = "offered")
  /\ GiveUp
  /\ UNCHANGED <<bridge, session, records, page, faults>>

AllForgotten ==
  /\ At("deliveries")
  /\ \A o \in Operations : delivery[o] = NoDelivery
  /\ Go("finish")
  /\ UNCHANGED <<bridge, session, records, page, faults>>

\* What the termination was for.  A clear also empties the ledger.
RemoveItem ==
  /\ At("finish")
  /\ task.goal \in {"remove", "clear"}
  /\ IF item.state = "gone" THEN UNCHANGED <<item, version>>
     ELSE item' = [state |-> "gone", at |-> version + 1] /\ version' = version + 1
  /\ ledger' = IF task.goal = "clear" THEN [o \in Operations |-> NoReceipt]
               ELSE ledger
  /\ task' = Idle
  /\ UNCHANGED <<bridge, applied, records, page, faults>>

Disconnect ==
  /\ At("finish")
  /\ task.goal = "disconnect"
  /\ connection' = 0
  /\ shared' = {}
  /\ Bridge!Drop(connection)
  /\ task' = Idle
  /\ UNCHANGED <<asked, late, connections, session, records, page, faults>>

Released ==
  /\ At("finish")
  /\ task.goal = "release"
  /\ task' = Idle
  /\ UNCHANGED <<bridge, session, records, page, faults>>

-----------------------------------------------------------------------------
\* The steps of a handler once it has begun.
Continue ==
  \/ SaveDelivery \/ Tidy \/ Refuse \/ Retire
  \/ Claim \/ SaveApproved \/ Handoff \/ Authorize \/ Write \/ Commit
  \/ Publish \/ Ack \/ Fail \/ Nack \/ Drop
  \/ AllVisited \/ AllForgotten \/ RemoveItem \/ Disconnect \/ Released
  \/ \E o \in Operations :
       \/ Visit(o) \/ RejectDelivered(o) \/ ForgetDelivered(o) \/ DeliveryStays(o)

Next ==
  \/ Pair \/ Unpair \/ Share \/ Navigate \/ ChangeLease
  \/ WorkerDies \/ BrowserRestarts \/ CallFails
  \/ \E what \in Edits : Edit(what)
  \/ \E s \in Submissions : Expire(s)
  \/ \E o \in Operations :
       \/ Submit(o) \/ BeginRead(o) \/ BeginApprove(o) \/ BeginReject(o)
  \/ ReadNothing
  \/ BeginRecover
  \/ \E goal \in {"remove", "clear", "disconnect", "release"} : BeginTerminate(goal)
  \/ Continue

Spec == Init /\ [][Next]_vars

\* A handler that has begun runs on.  Recoveries are asked for at every start
\* of the worker, the user asks again and again for the session to be cleared,
\* and all of them wait for their turn in one queue.  A bridge that went comes
\* back, and the time of a proposal passes.  Calls fail, and the worker dies, MaxFaults times at most.
FairSpec ==
  /\ Spec
  /\ WF_vars(Continue)
  /\ WF_vars(connection = 0 /\ Pair)
  /\ \A s \in Submissions : WF_vars(Expire(s))
  /\ SF_vars(BeginRecover)
  /\ SF_vars(BeginTerminate("clear"))
-----------------------------------------------------------------------------
\* However often a proposal is shown, approved, interrupted and recovered, it
\* is applied to the session once at most.
AppliedOnce == \A s \in Submissions : applied[s] <= 1

\* The item is as the submission left it.
InEffect(s) ==
  /\ item.state # "gone"
  /\ ledger[s[2]] = [gen |-> s[1], at |-> item.at]

\* What an agent is told is what became of its proposal: one that succeeded has
\* been applied, and after one that was refused, blocked or cancelled the item
\* is not as the agent proposed to leave it.
AnswersAreReal ==
  \A s \in Submissions :
    /\ status[s] = "succeeded" => applied[s] = 1
    /\ status[s] \in {"refused", "blocked", "cancelled"} => ~InEffect(s)

\* The session is changed for an agent only for a proposal the user approved on
\* the page and document that is still shown, within its time, and which the
\* bridge has not settled: whatever happened between the approval and the write.
AppliedAsApproved ==
  [][\A s \in Submissions : applied'[s] # applied[s] =>
       /\ exec[s[2]].phase = "approved"
       /\ exec[s[2]].gen = s[1]
       /\ exec[s[2]].doc = document
       /\ s \notin late
       /\ status[s] \in {"claimed", "gone"}
       /\ item.state = asked[s]]_vars

\* As long as a change shows and its agent waits for the answer, its record is
\* given up by nothing but a restart of the browser.
AppliedNotForgotten ==
  [][\A s \in Submissions :
       /\ InEffect(s)
       /\ status[s] \in {"claimed", "lapsed"}
       /\ exec[s[2]].gen = s[1]
       /\ exec'[s[2]] = NoExec
       => BrowserRestarts]_vars

\* What was applied is answered, unless its connection or the browser ends.
AppliedIsAnswered ==
  \A s \in Submissions :
    applied[s] = 1 ~> \/ status[s] \in {"succeeded", "gone"}
                      \/ exec[s[2]] = NoExec

\* The captures the user asks to clear, again and again, are cleared.
ClearHappens == <>(item.state = "gone")
=============================================================================
