---------------------- MODULE LifecycleExecutionProofs ----------------------
(***************************************************************************)
(* Proofs about the execution of agents' changes in the extension: nothing *)
(* is applied twice, only what the user approved is applied, every answer  *)
(* is what became of the change, and no change that shows is forgotten,    *)
(* for any number of operations, connections, documents, edits and faults. *)
(***************************************************************************)
EXTENDS LifecycleExecution, TLAPS

USE ExecutionConstantsOK

\* Where a submission can be once it was claimed, and once it is settled.
Claims  == {"claimed", "lapsed", "gone"}
Settled == Outcomes \cup {"gone"}
Reached == Claims \cup Outcomes

\* The bridge: only the newest connection has anything to do, and what lapsed
\* is late.
BridgeOK ==
  /\ connection \in {0, connections}
  /\ \A s \in Submissions : status[s] \notin {"unused", "gone"} => s[1] = connection
  /\ \A s \in Submissions : status[s] = "lapsed" => s \in late
  /\ \A r \in shared : r.state # "gone"

\* The session: the ledger has the receipt of exactly what was applied, until
\* the captures are cleared, and a change that shows is the one asked for.
SessionOK ==
  /\ \A o \in Operations : ledger[o].at <= version
  /\ \A s \in Submissions :
       /\ applied[s] <= 1
       /\ item.state # "gone" => (applied[s] = 1 <=> ledger[s[2]].gen = s[1])
       /\ applied[s] = 1 => status[s] \in Reached
       /\ InEffect(s) => item.state = Other(asked[s])

\* An execution record.
ExecutionOK(o, e) ==
  LET s == <<e.gen, o>> IN
  /\ e.phase = "none" => e = NoExec
  /\ e.phase # "none" => /\ e.gen \in 1 .. connections
                         /\ e.doc # 0
                         /\ status[s] \in Reached
  /\ e.phase = "approved" => status[s] \in Claims
  /\ e.phase = "committed" => applied[s] = 1
  /\ e.phase = "terminal" => e.outcome # "none" /\ ~InEffect(s)

ExecOK == \A o \in Operations : ExecutionOK(o, exec[o])

\* The steps of a task that has an execution record.
Carrying == {"handoff", "authorize", "write", "commit", "publish", "ack",
             "fail", "nack", "drop"}

\* What a task relies on at each of its steps.
ApprovingOK ==
  task.step \in {"claim", "save"} =>
    /\ task.op \in Operations
    /\ task.gen = task.authority
    /\ task.gen # 0 /\ task.doc # 0
    /\ task.failure # "none"
    /\ exec[task.op].phase = "committed" \/ ~InEffect(Subject)
    /\ task.step = "save" => status[Subject] \in Claims

CarryingOK ==
  LET e == exec[task.op] IN
  /\ task.step \in Carrying =>
       /\ task.op \in Operations
       /\ e.phase # "none" /\ e.gen = task.gen /\ e.doc = task.doc
       /\ task.failure # "none"
  /\ task.step = "handoff" =>
       e.phase = "committed" \/ (e.phase = "approved" /\ ~InEffect(Subject))
  /\ task.step \in {"authorize", "write"} => e.phase = "approved"
  /\ task.step \in {"authorize", "write", "fail", "nack"} => ~InEffect(Subject)
  /\ task.step = "write" => ~Recorded(task.op) /\ item.state = asked[Subject]
  /\ task.step = "commit" => applied[Subject] = 1
  /\ task.step \in {"publish", "ack"} => e.phase = "committed"
  /\ task.step = "nack" => e.phase = "terminal"
  /\ task.step = "drop" => ~InEffect(Subject) \/ status[Subject] \in Settled

\* No execution is newer than the connection a task was told.
AuthorityOK ==
  /\ task.authority <= connections
  /\ task.authority # 0 => \A o \in Operations : exec[o].gen <= task.authority

IInv ==
  /\ TypeOK /\ BridgeOK /\ SessionOK /\ AnswersAreReal /\ ExecOK
  /\ ApprovingOK /\ CarryingOK /\ AuthorityOK

-----------------------------------------------------------------------------
(* What most steps have in common.                                         *)

\* The bridge takes nothing back that it settled, and settles nothing itself.
StatusGoesOn ==
  \A s \in Submissions :
    /\ status[s] \in Claims => status'[s] \in Claims
    /\ status[s] \in Settled => status'[s] \in Settled
    /\ status'[s] = "refused" => status[s] \in {"offered", "refused"}
    /\ status'[s] \in Outcomes => status'[s] = status[s]

\* Nothing that does not show begins to show.
NothingAppears == \A s \in Submissions : InEffect(s)' => InEffect(s)

\* What was submitted asks for what it asked for.
AskedKept == \A s \in Submissions : status[s] # "unused" => asked'[s] = asked[s]

Steps == {"idle", "deliver", "tidy", "retire", "refuse", "claim", "save", "handoff",
          "authorize", "write", "commit", "publish", "ack", "fail", "nack", "drop",
          "next", "deliveries", "finish"}

LEMMA IdleTyped == Idle \in Task
BY DEF Idle, Task

\* A task goes on in all but its step.
LEMMA StepTyped ==
  ASSUME task \in Task, NEW step \in Steps
  PROVE  LET t == [task EXCEPT !.step = step]
         IN /\ t \in Task
            /\ t.step = step /\ t.kind = task.kind /\ t.goal = task.goal
            /\ t.op = task.op /\ t.gen = task.gen /\ t.doc = task.doc
            /\ t.authority = task.authority /\ t.todo = task.todo
            /\ t.widget = task.widget /\ t.failure = task.failure
BY DEF Task, Steps

\* The submission a task is about is one of the newest connections.
LEMMA SubjectTyped ==
  ASSUME IInv, task.step \in Carrying \cup {"claim", "save"}
  PROVE  /\ task.op \in Operations
         /\ task.gen \in 1 .. connections
         /\ task.gen \in Connections
         /\ Subject \in Submissions
         /\ task.step \in Carrying => exec[task.op].gen = task.gen
<1>1. task.op \in Operations /\ task.gen \in 1 .. connections
  <2>1. CASE task.step \in Carrying
    BY <2>1 DEF IInv, CarryingOK, ExecOK, ExecutionOK
  <2>2. CASE task.step \in {"claim", "save"}
    BY <2>2 DEF IInv, ApprovingOK, AuthorityOK, TypeOK, Task
  <2> QED  BY <2>1, <2>2
<1>2. task.gen \in Connections
  BY <1>1 DEF IInv, TypeOK, Connections
<1> QED  BY <1>1, <1>2 DEF Submissions, Subject, IInv, CarryingOK

\* The submission of an execution record.
LEMMA ExecSubject ==
  ASSUME IInv, NEW o \in Operations, exec[o].phase # "none"
  PROVE  <<exec[o].gen, o>> \in Submissions
BY DEF IInv, ExecOK, ExecutionOK, TypeOK, Connections, Submissions

\* What was not claimed was not applied, and does not show.
LEMMA NotShown ==
  ASSUME IInv, NEW s \in Submissions,
         status[s] \notin Reached \/ item.state = "gone" \/ ledger[s[2]].gen # s[1]
  PROVE  ~InEffect(s)
BY DEF IInv, SessionOK, InEffect

LEMMA AnswersKept ==
  ASSUME IInv, StatusGoesOn, NothingAppears, applied' = applied
  PROVE  AnswersAreReal'
<1> SUFFICES ASSUME NEW s \in Submissions
             PROVE  /\ status'[s] = "succeeded" => applied'[s] = 1
                    /\ status'[s] \in {"refused", "blocked", "cancelled"} => ~InEffect(s)'
  BY DEF AnswersAreReal
<1>1. status'[s] \in Outcomes => status'[s] = status[s]
  BY DEF StatusGoesOn
<1>2. status'[s] = "refused" => ~InEffect(s)
  <2>1. status'[s] = "refused" => status[s] \in {"offered", "refused"}
    BY DEF StatusGoesOn
  <2>2. status[s] \in {"offered", "refused"} => status[s] \notin Reached
    BY DEF Reached, Claims, Outcomes
  <2> QED  BY <2>1, <2>2, NotShown
<1> QED  BY <1>1, <1>2 DEF IInv, AnswersAreReal, Outcomes, NothingAppears

LEMMA SessionKept ==
  ASSUME IInv, StatusGoesOn, AskedKept, UNCHANGED session
  PROVE  SessionOK' /\ NothingAppears
<1>1. NothingAppears
  BY DEF NothingAppears, InEffect, session
<1>2. \A s \in Submissions : status[s] \in Reached => status'[s] \in Reached
  BY DEF StatusGoesOn, Reached, Settled, Claims
<1>3. ASSUME NEW s \in Submissions, InEffect(s)'
      PROVE  item'.state = Other(asked'[s])
  <2>1. InEffect(s) /\ item.state = Other(asked[s])
    BY <1>1, <1>3 DEF NothingAppears, IInv, SessionOK
  <2>2. status[s] # "unused"
    BY <2>1, NotShown DEF Reached, Claims, Outcomes
  <2> QED  BY <2>1, <2>2 DEF AskedKept, session
<1> QED  BY <1>1, <1>2, <1>3 DEF IInv, SessionOK, session, InEffect

LEMMA ExecKept ==
  ASSUME IInv, StatusGoesOn, NothingAppears, applied' = applied, exec' = exec,
         connections' \in Nat, connections <= connections'
  PROVE  ExecOK'
<1> SUFFICES ASSUME NEW o \in Operations
             PROVE  LET e == exec[o]
                        s == <<e.gen, o>>
                    IN /\ e.phase = "none" => e = NoExec
                       /\ e.phase # "none" => /\ e.gen \in 1 .. connections'
                                              /\ e.doc # 0
                                              /\ status'[s] \in Reached
                       /\ e.phase = "approved" => status'[s] \in Claims
                       /\ e.phase = "committed" => applied[s] = 1
                       /\ e.phase = "terminal" => e.outcome # "none" /\ ~InEffect(s)'
  BY DEF ExecOK, ExecutionOK
<1> DEFINE s == <<exec[o].gen, o>>
<1>1. CASE exec[o].phase = "none"
  BY <1>1 DEF IInv, ExecOK, ExecutionOK
<1>2. CASE exec[o].phase # "none"
  <2>1. s \in Submissions
    BY <1>2, ExecSubject
  <2>2. /\ status[s] \in Reached => status'[s] \in Reached
        /\ status[s] \in Claims => status'[s] \in Claims
        /\ InEffect(s)' => InEffect(s)
    BY <2>1 DEF StatusGoesOn, NothingAppears, Reached, Settled, Claims
  <2>3. exec[o].gen \in 1 .. connections'
    <3>1. exec[o].gen \in 1 .. connections
      BY <1>2 DEF IInv, ExecOK, ExecutionOK
    <3>2. connections \in Nat
      BY DEF IInv, TypeOK
    <3> QED  BY <3>1, <3>2
  <2> QED  BY <1>2, <2>2, <2>3 DEF IInv, ExecOK, ExecutionOK
<1> QED  BY <1>1, <1>2

\* The task waits while something else happens.
LEMMA TaskKept ==
  ASSUME IInv, StatusGoesOn, NothingAppears, AskedKept, applied' = applied, exec' = exec,
         connections' \in Nat, connections <= connections', task' = task,
         task.step = "write" => item' = item /\ ledger' = ledger
  PROVE  ApprovingOK' /\ CarryingOK' /\ AuthorityOK'
<1>1. AuthorityOK'
  BY DEF IInv, AuthorityOK, TypeOK, Task
<1>2. CASE task.step \notin Carrying \cup {"claim", "save"}
  BY <1>1, <1>2 DEF ApprovingOK, CarryingOK, Carrying
<1>3. CASE task.step \in Carrying \cup {"claim", "save"}
  <2>1. Subject \in Submissions /\ Subject' = Subject
    BY <1>3, SubjectTyped DEF Subject
  <2>2. /\ status[Subject] \in Claims => status'[Subject] \in Claims
        /\ status[Subject] \in Settled => status'[Subject] \in Settled
        /\ InEffect(Subject)' => InEffect(Subject)
    BY <2>1 DEF StatusGoesOn, NothingAppears
  <2>3. ApprovingOK'
    BY <2>1, <2>2 DEF IInv, ApprovingOK
  <2>4. task.step = "write" => asked'[Subject] = asked[Subject]
    <3>1. task.step = "write" => status[Subject] \in Reached
      BY SubjectTyped DEF IInv, CarryingOK, ExecOK, ExecutionOK, Carrying, Subject
    <3>2. "unused" \notin Reached
      BY DEF Reached, Claims, Outcomes
    <3> QED  BY <2>1, <3>1, <3>2 DEF AskedKept
  <2>5. CarryingOK'
    BY <2>1, <2>2, <2>4 DEF IInv, CarryingOK, Recorded
  <2> QED  BY <1>1, <2>3, <2>5
<1> QED  BY <1>2, <1>3

\* A step that leaves the session and the executions alone.
LEMMA Moved ==
  ASSUME IInv, TypeOK', BridgeOK', StatusGoesOn, AskedKept, UNCHANGED session,
         exec' = exec, connections <= connections',
         ApprovingOK', CarryingOK', AuthorityOK'
  PROVE  IInv'
<1>1. SessionOK' /\ NothingAppears
  BY SessionKept
<1>2. applied' = applied /\ connections' \in Nat
  BY DEF session, TypeOK
<1>3. AnswersAreReal' /\ ExecOK'
  BY <1>1, <1>2, AnswersKept, ExecKept
<1> QED  BY <1>1, <1>3 DEF IInv

LEMMA StatusStays ==
  ASSUME UNCHANGED status
  PROVE  StatusGoesOn
BY DEF StatusGoesOn

\* A step beside the task.
LEMMA Beside ==
  ASSUME IInv, TypeOK', BridgeOK', StatusGoesOn, AskedKept, UNCHANGED session,
         exec' = exec, connections <= connections', task' = task
  PROVE  IInv'
<1>1. NothingAppears
  BY SessionKept
<1>2. /\ applied' = applied /\ connections' \in Nat
      /\ item' = item /\ ledger' = ledger
  BY DEF session, TypeOK
<1>3. ApprovingOK' /\ CarryingOK' /\ AuthorityOK'
  BY <1>1, <1>2, TaskKept
<1> QED  BY <1>3, Moved

LEMMA AuthorityKept ==
  ASSUME IInv, task'.authority \in {0, task.authority}, exec' = exec,
         connections' \in Nat, connections <= connections'
  PROVE  AuthorityOK'
BY DEF IInv, AuthorityOK, TypeOK, Task

\* A step after which the task relies on nothing.
LEMMA Rests ==
  ASSUME IInv, TypeOK', BridgeOK', StatusGoesOn, AskedKept, UNCHANGED session,
         exec' = exec, connections <= connections',
         task'.step \notin Carrying \cup {"claim", "save"}, AuthorityOK'
  PROVE  IInv'
<1>1. ApprovingOK' /\ CarryingOK'
  BY DEF ApprovingOK, CarryingOK, Carrying
<1> QED  BY <1>1, Moved

-----------------------------------------------------------------------------
(* The bridge, the user and the browser.                                   *)

LEMMA DropGoesOn ==
  ASSUME TypeOK, NEW c, Bridge!Drop(c)
  PROVE  /\ StatusGoesOn
         /\ Bridge!TypeOK'
         /\ \A s \in Submissions : status'[s] = IF s[1] = c THEN "gone" ELSE status[s]
<1>1. \A s \in Submissions : status'[s] = IF s[1] = c THEN "gone" ELSE status[s]
  BY DEF Bridge!Drop, Bridge!Submissions, Submissions
<1>2. Bridge!TypeOK'
  BY DEF TypeOK, Bridge!TypeOK, Bridge!Drop, Bridge!Closed
<1> QED  BY <1>1, <1>2 DEF StatusGoesOn, Claims, Settled, Outcomes

LEMMA PairSafe == ASSUME IInv, Pair PROVE IInv'
<1>1. /\ StatusGoesOn /\ Bridge!TypeOK'
      /\ \A s \in Submissions : status'[s] = IF s[1] = connection THEN "gone" ELSE status[s]
  BY DropGoesOn DEF Pair, IInv
<1>2. TypeOK'
  BY <1>1 DEF Pair, IInv, TypeOK, session, records, page
<1>3. BridgeOK'
  BY <1>1 DEF Pair, IInv, BridgeOK
<1>4. UNCHANGED <<session, exec, task>> /\ AskedKept /\ connections <= connections'
  BY DEF Pair, session, records, AskedKept, IInv, TypeOK
<1> QED  BY <1>1, <1>2, <1>3, <1>4, Beside DEF session

LEMMA UnpairSafe == ASSUME IInv, Unpair PROVE IInv'
<1>1. /\ StatusGoesOn /\ Bridge!TypeOK'
      /\ \A s \in Submissions : status'[s] = IF s[1] = connection THEN "gone" ELSE status[s]
  BY DropGoesOn DEF Unpair, IInv
<1>2. TypeOK'
  BY <1>1 DEF Unpair, IInv, TypeOK, session, records, page
<1>3. BridgeOK'
  BY <1>1 DEF Unpair, IInv, BridgeOK
<1>4. UNCHANGED <<session, exec, task>> /\ AskedKept /\ connections <= connections'
  BY DEF Unpair, session, records, AskedKept, IInv, TypeOK
<1> QED  BY <1>1, <1>2, <1>3, <1>4, Beside DEF session

\* One submission moves on at the bridge, but not past a claim.
LEMMA MoveGoesOn ==
  ASSUME TypeOK, NEW s, NEW from, NEW to,
         Bridge!Move(s, from, to),
         <<from, to>> \in {<<"unused", "offered">>, <<"offered", "refused">>}
  PROVE  /\ StatusGoesOn
         /\ Bridge!TypeOK'
         /\ status[s] = from
         /\ \A t \in Submissions : status'[t] = IF t = s THEN to ELSE status[t]
<1>1. \A t \in Submissions : status'[t] = IF t = s THEN to ELSE status[t]
  BY DEF Bridge!Move, TypeOK, Bridge!TypeOK, Bridge!Submissions, Submissions
<1>2. Bridge!TypeOK'
  BY DEF TypeOK, Bridge!TypeOK, Bridge!Move, Bridge!Closed, Bridge!Open
<1>3. status[s] = from
  BY DEF Bridge!Move
<1> QED  BY <1>1, <1>2, <1>3 DEF StatusGoesOn, Claims, Settled, Outcomes

LEMMA SubmitSafe == ASSUME IInv, NEW o \in Operations, Submit(o) PROVE IInv'
<1> DEFINE s == <<connection, o>>
<1>1. s \in Submissions
  BY DEF Submit, IInv, TypeOK, Submissions, Connections
<1>2. /\ StatusGoesOn /\ Bridge!TypeOK' /\ status[s] = "unused"
      /\ \A t \in Submissions : status'[t] = IF t = s THEN "offered" ELSE status[t]
  BY <1>1, MoveGoesOn DEF Submit, IInv
<1>3. PICK shown \in shared : asked' = [asked EXCEPT ![s] = shown.state]
  BY DEF Submit
<1>4. shown.state \in States
  BY <1>3 DEF IInv, TypeOK, BridgeOK, Snapshot
<1>5. TypeOK'
  BY <1>2, <1>3, <1>4 DEF Submit, IInv, TypeOK, session, records, page
<1>6. BridgeOK'
  BY <1>2 DEF Submit, IInv, BridgeOK
<1>7. AskedKept
  BY <1>1, <1>2, <1>3 DEF AskedKept, IInv, TypeOK
<1>8. UNCHANGED <<session, exec, task, connections>>
  BY DEF Submit, session, records
<1> QED  BY <1>2, <1>5, <1>6, <1>7, <1>8, Beside DEF session, IInv, TypeOK

LEMMA ExpireSafe == ASSUME IInv, NEW s \in Submissions, Expire(s) PROVE IInv'
<1>1. \A t \in Submissions :
        status'[t] = IF t # s \/ status[s] \notin {"offered", "claimed"} THEN status[t]
                     ELSE IF status[s] = "offered" THEN "refused" ELSE "lapsed"
  BY DEF Expire, Bridge!Expire, Bridge!Submissions, Submissions
<1>2. Bridge!TypeOK'
  BY DEF Expire, Bridge!Expire, IInv, TypeOK, Bridge!TypeOK, Bridge!Open, Bridge!Closed,
         Bridge!Submissions, Submissions
<1>3. StatusGoesOn
  BY <1>1 DEF StatusGoesOn, Claims, Settled, Outcomes
<1>4. TypeOK'
  BY <1>2 DEF Expire, IInv, TypeOK, session, records, page
<1>5. BridgeOK'
  BY <1>1 DEF Expire, IInv, BridgeOK
<1>6. UNCHANGED <<session, exec, task, connections, asked>> /\ AskedKept
  BY DEF Expire, session, records, AskedKept
<1> QED  BY <1>3, <1>4, <1>5, <1>6, Beside DEF session, IInv, TypeOK

LEMMA ShareSafe == ASSUME IInv, Share PROVE IInv'
<1>1. TypeOK'
  BY DEF Share, Shown, IInv, TypeOK, Bridge!TypeOK, session, records, page
<1>2. BridgeOK'
  BY DEF Share, Shown, IInv, BridgeOK
<1>3. UNCHANGED <<session, exec, task, connections, asked, status>> /\ AskedKept
  BY DEF Share, session, records, AskedKept
<1> QED  BY <1>1, <1>2, <1>3, StatusStays, Beside DEF session, IInv, TypeOK

LEMMA PageSafe == ASSUME IInv, Navigate \/ ChangeLease PROVE IInv'
<1>1. UNCHANGED <<bridge, session, records, task, faults>>
  BY DEF Navigate, ChangeLease
<1>2. TypeOK'
  BY <1>1 DEF Navigate, ChangeLease, IInv, TypeOK, Bridge!TypeOK, bridge, session, records
<1>3. BridgeOK'
  BY <1>1 DEF IInv, BridgeOK, bridge
<1>4. UNCHANGED <<exec, connections, asked, status>> /\ AskedKept
  BY <1>1 DEF bridge, records, AskedKept
<1> QED  BY <1>1, <1>2, <1>3, <1>4, StatusStays, Beside DEF IInv, TypeOK

\* The receipt of what showed before names an earlier change.
LEMMA EditSafe == ASSUME IInv, NEW what \in Edits, Edit(what) PROVE IInv'
<1>1. TypeOK'
  BY DEF Edit, Other, IInv, TypeOK, Bridge!TypeOK, Snapshot, States, bridge, records, page
<1>2. BridgeOK'
  BY DEF Edit, IInv, BridgeOK, bridge
<1>3. /\ item' = item \/ item'.at = version + 1
      /\ item.state # "gone" /\ item'.state # "gone"
      /\ version' = version + 1 /\ UNCHANGED <<ledger, applied, exec, task, status, asked,
                                               connections>>
      /\ task.step # "write"
  BY DEF Edit, Other, IInv, TypeOK, Snapshot, States, bridge, records
<1>4. \A o \in Operations : ledger[o].at <= version /\ ledger[o].at \in Nat /\ version \in Nat
  BY DEF IInv, SessionOK, TypeOK, Receipt
<1>5. ASSUME NEW s \in Submissions, InEffect(s)' PROVE item' = item /\ InEffect(s)
  <2>1. s[2] \in Operations
    BY DEF Submissions
  <2>2. ledger[s[2]].at = item'.at
    BY <1>3, <1>5 DEF InEffect
  <2>3. item' = item
    BY <1>3, <1>4, <2>1, <2>2
  <2> QED  BY <1>3, <1>5, <2>3 DEF InEffect
<1>6. NothingAppears /\ StatusGoesOn /\ AskedKept
  BY <1>3, <1>5, StatusStays DEF NothingAppears, AskedKept
<1>7. SessionOK'
  BY <1>3, <1>4, <1>5 DEF IInv, SessionOK
<1>8. connections' \in Nat /\ connections <= connections'
  BY <1>3 DEF IInv, TypeOK
<1>9. AnswersAreReal' /\ ExecOK' /\ ApprovingOK' /\ CarryingOK' /\ AuthorityOK'
  BY <1>3, <1>6, <1>8, AnswersKept, ExecKept, TaskKept
<1> QED  BY <1>1, <1>2, <1>7, <1>9 DEF IInv

-----------------------------------------------------------------------------
(* A handler begins, goes on and gives up.                                 *)

LEMMA GivesUp ==
  ASSUME IInv, GiveUp \/ Proceed \/ task' = Idle
  PROVE  /\ task' \in Task
         /\ task'.step \notin Carrying \cup {"claim", "save"}
         /\ task'.authority \in {0, task.authority}
<1>1. CASE task' = Idle
  BY <1>1, IdleTyped DEF Idle, Carrying
<1>2. CASE task' = [task EXCEPT !.step = "next"]
  <2>1. /\ task' \in Task
        /\ task'.step = "next" /\ task'.authority = task.authority
    BY <1>2, StepTyped DEF IInv, TypeOK, Steps
  <2> QED  BY <2>1 DEF Carrying
<1> QED  BY <1>1, <1>2 DEF GiveUp, Proceed

\* A step of the task that leaves all else as it is.
LEMMA TaskStops ==
  ASSUME IInv, UNCHANGED <<bridge, session, exec, connections>>,
         delivery' \in [Operations -> Delivery],
         document' \in 1 .. MaxDocuments, lease' \in {0, document'},
         faults' \in 0 .. MaxFaults,
         task' \in Task,
         task'.step \notin Carrying \cup {"claim", "save"},
         task'.authority \in {0, task.authority}
  PROVE  IInv'
<1>1. TypeOK'
  BY DEF IInv, TypeOK, Bridge!TypeOK, bridge, session
<1>2. BridgeOK'
  BY DEF IInv, BridgeOK, bridge
<1>3. UNCHANGED <<status, asked>> /\ AskedKept
  BY DEF bridge, AskedKept
<1>4. connections' \in Nat /\ connections <= connections'
  BY DEF IInv, TypeOK
<1>5. AuthorityOK'
  BY <1>4, AuthorityKept
<1> QED  BY <1>1, <1>2, <1>3, <1>4, <1>5, StatusStays, Rests

LEMMA WorkerDiesSafe == ASSUME IInv, WorkerDies PROVE IInv'
<1>1. UNCHANGED <<bridge, session, exec, connections>> /\ task' = Idle
  BY DEF WorkerDies, records, bridge
<1>2. /\ delivery' \in [Operations -> Delivery]
      /\ document' \in 1 .. MaxDocuments /\ lease' \in {0, document'}
      /\ faults' \in 0 .. MaxFaults
  BY DEF WorkerDies, records, IInv, TypeOK
<1> QED  BY <1>1, <1>2, GivesUp, TaskStops

LEMMA CallFailsSafe == ASSUME IInv, CallFails PROVE IInv'
<1>1. UNCHANGED <<bridge, session, exec, connections>> /\ GiveUp
  BY DEF CallFails, records, bridge
<1>2. /\ delivery' \in [Operations -> Delivery]
      /\ document' \in 1 .. MaxDocuments /\ lease' \in {0, document'}
      /\ faults' \in 0 .. MaxFaults
  BY DEF CallFails, records, page, IInv, TypeOK
<1> QED  BY <1>1, <1>2, GivesUp, TaskStops

LEMMA BrowserRestartsSafe == ASSUME IInv, BrowserRestarts PROVE IInv'
<1>1. /\ UNCHANGED <<bridge, session, document, status, asked, connections, applied>>
      /\ task' = Idle /\ lease' = 0
      /\ exec' = [o \in Operations |-> NoExec]
      /\ delivery' = [o \in Operations |-> NoDelivery]
      /\ faults' \in 0 .. MaxFaults
  BY DEF BrowserRestarts, bridge, session, IInv, TypeOK
<1>2. TypeOK'
  BY <1>1, IdleTyped DEF IInv, TypeOK, Bridge!TypeOK, bridge, session, NoExec, Exec,
                         NoDelivery, Delivery
<1>3. BridgeOK'
  BY <1>1 DEF IInv, BridgeOK, bridge
<1>4. AskedKept /\ StatusGoesOn
  BY <1>1, StatusStays DEF AskedKept
<1>5. SessionOK' /\ AnswersAreReal'
  BY <1>1, <1>4, SessionKept, AnswersKept
<1>6. ExecOK'
  BY <1>1 DEF ExecOK, ExecutionOK, NoExec
<1>7. ApprovingOK' /\ CarryingOK' /\ AuthorityOK'
  BY <1>1 DEF ApprovingOK, CarryingOK, AuthorityOK, Carrying, Idle, IInv, TypeOK
<1> QED  BY <1>2, <1>3, <1>5, <1>6, <1>7 DEF IInv

\* The executions there are belong to the connection that is told, or to
\* earlier ones.
LEMMA AuthorityTold ==
  ASSUME IInv, task'.authority \in {0, connection}, exec' = exec,
         connections' = connections
  PROVE  AuthorityOK'
<1>1. connection \in Nat /\ connections \in Nat /\ connection <= connections
  BY DEF IInv, TypeOK
<1>2. connection # 0 => connection = connections
  BY DEF IInv, BridgeOK
<1>3. ASSUME NEW o \in Operations PROVE exec[o].gen <= connections
  <2>1. exec[o] = NoExec \/ exec[o].gen \in 1 .. connections
    BY DEF IInv, ExecOK, ExecutionOK
  <2> QED  BY <1>1, <2>1 DEF NoExec
<1> QED  BY <1>1, <1>2, <1>3 DEF AuthorityOK

LEMMA BeginFacts ==
  ASSUME IInv, NEW kind \in {"read", "approve", "reject"},
         NEW step \in {"deliver", "claim", "refuse"}, NEW o \in Operations,
         Begin(kind, step, o)
  PROVE  /\ TypeOK' /\ BridgeOK' /\ StatusGoesOn /\ AskedKept
         /\ UNCHANGED <<session, exec, connections>> /\ connections <= connections'
         /\ AuthorityOK'
         /\ task'.step = step /\ task'.op = o
         /\ task'.gen = connection /\ task'.authority = connection
         /\ task'.doc = lease /\ task'.failure = "blocked"
         /\ connection # 0 /\ lease # 0
<1>1. connection \in Nat /\ lease \in Nat /\ connections \in Nat
  BY DEF IInv, TypeOK
<1>2. /\ task' \in Task
      /\ task'.step = step /\ task'.op = o
      /\ task'.gen = connection /\ task'.authority = connection
      /\ task'.doc = lease /\ task'.failure = "blocked"
  BY <1>1 DEF Begin, Idle, Task
<1>3. UNCHANGED <<session, exec, connections, status, asked>>
  BY DEF Begin, bridge, records
<1>4. TypeOK'
  BY <1>2 DEF Begin, IInv, TypeOK, Bridge!TypeOK, bridge, session, records, page
<1>5. BridgeOK'
  BY DEF Begin, IInv, BridgeOK, bridge
<1>6. AuthorityOK'
  BY <1>2, <1>3, AuthorityTold
<1>7. StatusGoesOn /\ AskedKept
  BY <1>3, StatusStays DEF AskedKept
<1>8. connection # 0 /\ lease # 0
  BY DEF Begin, Readable
<1> QED  BY <1>1, <1>2, <1>3, <1>4, <1>5, <1>6, <1>7, <1>8

LEMMA BeginReadSafe ==
  ASSUME IInv, NEW o \in Operations, BeginRead(o) \/ BeginReject(o)
  PROVE  IInv'
<1>1. CASE BeginRead(o)
  BY <1>1, BeginFacts, Rests DEF BeginRead, Carrying
<1>2. CASE BeginReject(o)
  BY <1>2, BeginFacts, Rests DEF BeginReject, Carrying
<1> QED  BY <1>1, <1>2

\* What the widget offers to approve does not show yet, unless it was committed.
LEMMA BeginApproveSafe ==
  ASSUME IInv, NEW o \in Operations, BeginApprove(o)
  PROVE  IInv'
<1> DEFINE s == <<connection, o>>
<1>1. /\ TypeOK' /\ BridgeOK' /\ StatusGoesOn /\ AskedKept
      /\ UNCHANGED <<session, exec, connections>> /\ connections <= connections'
      /\ AuthorityOK'
      /\ task'.step = "claim" /\ task'.op = o
      /\ task'.gen = connection /\ task'.authority = connection
      /\ task'.doc = lease /\ task'.failure = "blocked"
      /\ connection # 0 /\ lease # 0
  BY BeginFacts DEF BeginApprove
<1>2. s \in Submissions /\ Subject' = s
  BY <1>1 DEF IInv, TypeOK, Submissions, Connections, Subject
<1>3. exec[o].phase = "committed" \/ item.state = asked[s]
  BY DEF BeginApprove, Begin, Readable, Resolves
<1>4. InEffect(s) => item.state \in States /\ item.state = Other(asked[s])
  BY <1>2 DEF IInv, SessionOK, InEffect, TypeOK, Snapshot
<1>5. InEffect(s) => item.state # asked[s]
  BY <1>2, <1>4 DEF Other, States
<1>6. NothingAppears
  BY <1>1, SessionKept
<1>7. ApprovingOK'
  BY <1>1, <1>2, <1>3, <1>5, <1>6 DEF ApprovingOK, NothingAppears
<1>8. CarryingOK'
  BY <1>1 DEF CarryingOK, Carrying
<1> QED  BY <1>1, <1>7, <1>8, Moved

LEMMA BeginAllSafe ==
  ASSUME IInv, NEW kind \in {"recover", "terminate"},
         NEW goal \in {"none", "remove", "clear", "disconnect", "release"},
         BeginAll(kind, goal)
  PROVE  IInv'
<1>1. PICK authority \in {0, connection} :
        /\ task' = [Idle EXCEPT !.kind = kind, !.step = "next", !.goal = goal,
                      !.authority = authority,
                      !.todo = {o \in Operations : exec[o] # NoExec}]
        /\ IF authority = connection THEN UNCHANGED faults
           ELSE faults < MaxFaults /\ faults' = faults + 1
  BY DEF BeginAll
<1>2. task' \in Task /\ task'.step = "next" /\ task'.authority = authority
  <2>1. authority \in Nat
    BY DEF IInv, TypeOK
  <2>2. {o \in Operations : exec[o] # NoExec} \in SUBSET Operations
    OBVIOUS
  <2> QED  BY <1>1, <2>1, <2>2 DEF Idle, Task
<1>3. UNCHANGED <<session, exec, connections, status, asked>>
  BY DEF BeginAll, bridge, records
<1>4. TypeOK'
  BY <1>1, <1>2 DEF BeginAll, IInv, TypeOK, Bridge!TypeOK, bridge, session, records, page
<1>5. BridgeOK'
  BY DEF BeginAll, IInv, BridgeOK, bridge
<1>6. AuthorityOK'
  BY <1>2, <1>3, AuthorityTold
<1>7. StatusGoesOn /\ AskedKept /\ connections <= connections'
  BY <1>3, StatusStays DEF AskedKept, IInv, TypeOK
<1> QED  BY <1>2, <1>3, <1>4, <1>5, <1>6, <1>7, Rests DEF Carrying

LEMMA ReadNothingSafe == ASSUME IInv, ReadNothing PROVE IInv'
<1>1. UNCHANGED <<bridge, session, exec, connections, task>>
  BY DEF ReadNothing, bridge
<1>2. /\ delivery' \in [Operations -> Delivery]
      /\ document' \in 1 .. MaxDocuments /\ lease' \in {0, document'}
      /\ faults' \in 0 .. MaxFaults
  BY DEF ReadNothing, page, IInv, TypeOK, NoDelivery, Delivery
<1>3. task' = Idle
  BY <1>1 DEF ReadNothing
<1> QED  BY <1>1, <1>2, <1>3, GivesUp, TaskStops

-----------------------------------------------------------------------------
(* Showing and rejecting.                                                  *)

LEMMA ShowingSafe == ASSUME IInv, SaveDelivery \/ Tidy \/ Retire PROVE IInv'
<1>1. UNCHANGED <<bridge, session, exec, connections, page, faults>>
  BY DEF SaveDelivery, Tidy, Retire, bridge
<1>2. delivery' \in [Operations -> Delivery]
  BY DEF SaveDelivery, Tidy, Retire, IInv, TypeOK, Task, NoDelivery, Delivery
<1>3. /\ task' \in Task /\ task'.authority \in {0, task.authority}
      /\ task'.step \notin Carrying \cup {"claim", "save"}
  <2>1. Go("tidy") \/ Go("retire") \/ GiveUp \/ Proceed
    BY DEF SaveDelivery, Tidy, Retire
  <2>2. ASSUME NEW step \in {"tidy", "retire"}, Go(step)
        PROVE  task' \in Task /\ task'.step = step /\ task'.authority = task.authority
    BY <2>2, StepTyped DEF Go, IInv, TypeOK, Steps
  <2> QED  BY <2>1, <2>2, GivesUp DEF Carrying
<1> QED  BY <1>1, <1>2, <1>3, TaskStops DEF IInv, TypeOK, page

\* A rejection at the bridge, by the user or by a termination.
LEMMA RejectedOK ==
  ASSUME IInv, NEW s, s[1] = connection, Bridge!Move(s, "offered", "refused"),
         UNCHANGED <<asked, late, connection, connections, shared, session, records,
                     page, faults>>,
         task' \in Task
  PROVE  TypeOK' /\ BridgeOK' /\ StatusGoesOn /\ AskedKept
<1>1. /\ StatusGoesOn /\ Bridge!TypeOK'
      /\ \A t \in Submissions : status'[t] = IF t = s THEN "refused" ELSE status[t]
  BY MoveGoesOn DEF IInv
<1>2. TypeOK'
  BY <1>1 DEF IInv, TypeOK, session, records, page
<1>3. BridgeOK'
  BY <1>1 DEF IInv, BridgeOK
<1> QED  BY <1>1, <1>2, <1>3 DEF AskedKept

LEMMA RefuseSafe == ASSUME IInv, Refuse PROVE IInv'
<1>1. /\ UNCHANGED <<asked, late, connection, connections, shared, session, records,
                     page, faults>>
      /\ UNCHANGED <<exec, delivery, document, lease>>
  BY DEF Refuse, records, page
<1>2. /\ task' \in Task /\ task'.authority \in {0, task.authority}
      /\ task'.step \notin Carrying \cup {"claim", "save"}
  <2>1. Go("retire") \/ GiveUp
    BY DEF Refuse
  <2>2. Go("retire") => /\ task' \in Task /\ task'.step = "retire"
                        /\ task'.authority = task.authority
    BY StepTyped DEF Go, IInv, TypeOK, Steps
  <2> QED  BY <2>1, <2>2, GivesUp DEF Carrying
<1>3. connections' \in Nat /\ connections <= connections'
  BY <1>1 DEF IInv, TypeOK
<1>4. AuthorityOK'
  BY <1>1, <1>2, <1>3, AuthorityKept
<1>5. CASE UNCHANGED status
  BY <1>1, <1>2, <1>5, TaskStops DEF IInv, TypeOK, bridge
<1>6. CASE connection = task.gen /\ Bridge!Move(Subject, "offered", "refused")
  <2>1. Subject[1] = connection
    BY <1>6 DEF Subject
  <2>2. TypeOK' /\ BridgeOK' /\ StatusGoesOn /\ AskedKept
    BY <1>1, <1>2, <1>6, <2>1, RejectedOK
  <2> QED  BY <1>1, <1>2, <1>3, <1>4, <2>2, Rests
<1> QED  BY <1>5, <1>6 DEF Refuse

-----------------------------------------------------------------------------
(* Approving, applying and answering.                                      *)

\* The task carries its execution on to a step that may be taken.
LEMMA GoesOn ==
  ASSUME IInv, TypeOK', BridgeOK',
         UNCHANGED <<status, asked, connections, session, exec>>,
         task.step \in Carrying, NEW step \in Carrying \ {"handoff"}, Go(step),
         step \in {"authorize", "write"} => exec[task.op].phase = "approved",
         step \in {"authorize", "write", "fail", "nack"} => ~InEffect(Subject),
         step = "write" => ~Recorded(task.op) /\ item.state = asked[Subject],
         step = "commit" => applied[Subject] = 1,
         step \in {"publish", "ack"} => exec[task.op].phase = "committed",
         step = "nack" => exec[task.op].phase = "terminal",
         step = "drop" => ~InEffect(Subject) \/ status[Subject] \in Settled
  PROVE  IInv'
<1>1. /\ task'.step = step /\ task'.op = task.op /\ task'.gen = task.gen
      /\ task'.doc = task.doc /\ task'.authority = task.authority
      /\ task'.failure = task.failure
  <2>1. Carrying \subseteq Steps
    BY DEF Carrying, Steps
  <2> QED  BY <2>1, StepTyped DEF Go, IInv, TypeOK
<1>2. Subject' = Subject /\ Subject \in Submissions
  BY <1>1, SubjectTyped DEF Subject
<1>3. AskedKept /\ StatusGoesOn
  BY StatusStays DEF AskedKept
<1>4. NothingAppears
  BY <1>3, SessionKept
<1>5. InEffect(Subject)' => InEffect(Subject)
  BY <1>2, <1>4 DEF NothingAppears
<1>6. ApprovingOK'
  BY <1>1 DEF ApprovingOK, Carrying
<1>7. CarryingOK'
  <2>1. ledger' = ledger /\ item' = item /\ applied' = applied
    BY DEF session
  <2> QED  BY <1>1, <1>2, <1>5, <2>1 DEF IInv, CarryingOK, Recorded, Carrying
<1>8. connections' \in Nat /\ connections <= connections'
  BY DEF IInv, TypeOK
<1>9. AuthorityOK'
  BY <1>1, <1>8, AuthorityKept
<1> QED  BY <1>3, <1>6, <1>7, <1>8, <1>9, Moved

\* One execution record changes.
LEMMA ExecChanged ==
  ASSUME IInv, UNCHANGED <<bridge, session, delivery, page, faults>>, task' \in Task,
         NEW o \in Operations, NEW r \in Exec, exec' = [exec EXCEPT ![o] = r],
         ExecutionOK(o, r),
         r.gen \in {0, exec[o].gen, task.authority},
         task'.authority \in {0, task.authority},
         ApprovingOK', CarryingOK'
  PROVE  IInv'
<1>1. UNCHANGED <<status, asked, connections, item, ledger, applied>>
  BY DEF bridge, session
<1>2. TypeOK'
  BY DEF IInv, TypeOK, Bridge!TypeOK, bridge, session, page
<1>3. BridgeOK'
  BY DEF IInv, BridgeOK, bridge
<1>4. StatusGoesOn /\ AskedKept
  BY <1>1, StatusStays DEF AskedKept
<1>5. SessionOK' /\ NothingAppears
  BY <1>4, SessionKept
<1>6. AnswersAreReal'
  BY <1>1, <1>4, <1>5, AnswersKept
<1>7. ExecOK'
  <2>1. SUFFICES ASSUME NEW q \in Operations PROVE ExecutionOK(q, exec[q])'
    BY DEF ExecOK
  <2>2. ExecutionOK(q, exec'[q])
    BY DEF IInv, TypeOK, ExecOK
  <2> QED  BY <1>1, <2>2 DEF ExecutionOK, InEffect
<1>8. AuthorityOK'
  <2>1. task.authority \in Nat /\ task.authority <= connections
    BY DEF IInv, TypeOK, Task, AuthorityOK
  <2>2. task.authority # 0 => \A q \in Operations : exec'[q].gen <= task.authority
    BY <2>1 DEF IInv, AuthorityOK, TypeOK, Exec
  <2> QED  BY <1>1, <2>1, <2>2 DEF AuthorityOK, IInv, TypeOK
<1> QED  BY <1>2, <1>3, <1>5, <1>6, <1>7, <1>8 DEF IInv

LEMMA ClaimSafe == ASSUME IInv, Claim PROVE IInv'
<1> DEFINE may == connection = task.gen /\ status[Subject] \in {"offered", "claimed"}
<1>1. Subject \in Submissions /\ task.step = "claim"
  BY SubjectTyped DEF Claim, At
<1>2. UNCHANGED <<asked, late, connection, connections, shared, session, exec, delivery,
                  document, lease, faults>>
  BY DEF Claim, records, page
<1>3. CASE ~may
  <2>1. GiveUp /\ UNCHANGED status
    BY <1>3 DEF Claim
  <2> QED  BY <1>2, <2>1, GivesUp, TaskStops DEF bridge, IInv, TypeOK
<1>4. CASE may
  <2>1. Go("save") /\ status' = [status EXCEPT ![Subject] = "claimed"]
    BY <1>4 DEF Claim
  <2>2. /\ task' \in Task
        /\ task'.step = "save" /\ task'.op = task.op /\ task'.gen = task.gen
        /\ task'.doc = task.doc /\ task'.authority = task.authority
        /\ task'.failure = task.failure
    BY <2>1, StepTyped DEF Go, IInv, TypeOK, Steps
  <2>3. \A s \in Submissions : status'[s] = IF s = Subject THEN "claimed" ELSE status[s]
    BY <2>1 DEF IInv, TypeOK, Bridge!TypeOK, Bridge!Submissions, Submissions
  <2>4. StatusGoesOn /\ AskedKept
    BY <1>2, <1>4, <2>3 DEF StatusGoesOn, AskedKept, Claims, Settled, Outcomes
  <2>5. TypeOK'
    BY <1>2, <2>1, <2>2 DEF IInv, TypeOK, Bridge!TypeOK, Bridge!Open, session
  <2>6. BridgeOK'
    BY <1>2, <1>4, <2>3 DEF IInv, BridgeOK, Subject
  <2>7. NothingAppears
    BY <1>2, <2>4, SessionKept
  <2>8. connections' \in Nat /\ connections <= connections'
    BY <1>2 DEF IInv, TypeOK
  <2>9. AuthorityOK'
    BY <1>2, <2>2, <2>8, AuthorityKept
  <2>10. Subject' = Subject
    BY <2>2 DEF Subject
  <2>11. ApprovingOK'
    BY <1>1, <1>2, <2>2, <2>3, <2>7, <2>10 DEF IInv, ApprovingOK, NothingAppears, Claims
  <2>12. CarryingOK'
    BY <2>2 DEF CarryingOK, Carrying
  <2> QED  BY <1>2, <2>4, <2>5, <2>6, <2>8, <2>9, <2>11, <2>12, Moved
<1> QED  BY <1>3, <1>4
\* What is recorded as approved, or was committed before, is handed off.
LEMMA SaveApprovedSafe == ASSUME IInv, SaveApproved PROVE IInv'
<1> DEFINE old  == exec[task.op]
           new  == [NoExec EXCEPT !.phase = "approved", !.gen = task.gen, !.doc = task.doc]
           fits == old.phase # "terminal" /\ old.gen = task.gen /\ old.doc = task.doc
           may  == lease = task.doc /\ Resolves(Subject) /\ (old = NoExec \/ fits)
<1>1. task.step = "save" /\ Subject \in Submissions /\ task.op \in Operations
      /\ task.gen \in 1 .. connections
  BY SubjectTyped DEF SaveApproved, At
<1>2. /\ task.gen = task.authority /\ task.doc # 0 /\ task.failure # "none"
      /\ old.phase = "committed" \/ ~InEffect(Subject)
      /\ status[Subject] \in Claims
  BY <1>1 DEF IInv, ApprovingOK
<1>3. UNCHANGED <<bridge, session, delivery, page, faults>>
      /\ UNCHANGED <<status, asked, connections, document, lease>>
  BY DEF SaveApproved, bridge, page
<1>4. CASE ~may
  <2>1. GiveUp /\ exec' = exec
    BY <1>4 DEF SaveApproved
  <2> QED  BY <1>3, <2>1, GivesUp, TaskStops DEF IInv, TypeOK
<1>5. CASE may
  <2>1. Go("handoff") /\ exec' = IF old = NoExec THEN [exec EXCEPT ![task.op] = new] ELSE exec
    BY <1>5 DEF SaveApproved
  <2>2. /\ task' \in Task
        /\ task'.step = "handoff" /\ task'.op = task.op /\ task'.gen = task.gen
        /\ task'.doc = task.doc /\ task'.authority = task.authority
        /\ task'.failure = task.failure
    BY <2>1, StepTyped DEF Go, IInv, TypeOK, Steps
  <2>3. Subject' = Subject
    BY <2>2 DEF Subject
  <2>4. StatusGoesOn /\ AskedKept
    BY <1>3, StatusStays DEF AskedKept
  <2>5. NothingAppears
    BY <1>3, <2>4, SessionKept
  <2>6. ApprovingOK'
    BY <2>2 DEF ApprovingOK
  <2>7. ASSUME /\ exec'[task.op].phase # "none"
               /\ exec'[task.op].gen = task.gen /\ exec'[task.op].doc = task.doc
               /\ \/ exec'[task.op].phase = "committed"
                  \/ exec'[task.op].phase = "approved" /\ ~InEffect(Subject)
        PROVE  CarryingOK'
    BY <1>1, <1>2, <2>2, <2>3, <2>5, <2>7 DEF CarryingOK, NothingAppears, Carrying
  <2>8. CASE old = NoExec
    <3>1. new \in Exec /\ new.phase = "approved" /\ new.gen = task.gen /\ new.doc = task.doc
      BY DEF NoExec, Exec, IInv, TypeOK, Task
    <3>2. exec' = [exec EXCEPT ![task.op] = new] /\ exec'[task.op] = new
      BY <1>1, <2>1, <2>8 DEF IInv, TypeOK
    <3>3. ~InEffect(Subject)
      BY <1>2, <2>8 DEF NoExec
    <3>4. ExecutionOK(task.op, new)
      BY <1>1, <1>2, <3>1 DEF ExecutionOK, Subject, Reached
    <3>5. CarryingOK'
      BY <2>7, <3>1, <3>2, <3>3
    <3> QED  BY <1>1, <1>2, <1>3, <2>2, <2>6, <3>1, <3>2, <3>4, <3>5, ExecChanged
  <2>9. CASE old # NoExec
    <3>1. exec' = exec /\ fits
      BY <1>5, <2>1, <2>9
    <3>2. old.phase \in {"approved", "committed"}
      <4>1. old.phase \in {"none", "approved", "committed", "terminal"}
        BY <1>1 DEF IInv, TypeOK, Exec
      <4>2. old.phase # "none"
        BY <1>1, <2>9 DEF IInv, ExecOK, ExecutionOK
      <4> QED  BY <3>1, <4>1, <4>2
    <3>3. CarryingOK'
      BY <1>2, <2>7, <3>1, <3>2
    <3>4. TypeOK'
      BY <1>3, <2>2, <3>1 DEF IInv, TypeOK, Bridge!TypeOK, bridge, session
    <3>5. BridgeOK'
      BY <1>3 DEF IInv, BridgeOK, bridge
    <3>6. connections' \in Nat /\ connections <= connections'
      BY <1>3 DEF IInv, TypeOK
    <3>7. AuthorityOK'
      BY <2>2, <3>1, <3>6, AuthorityKept
    <3> QED  BY <1>3, <2>4, <2>6, <3>1, <3>3, <3>4, <3>5, <3>6, <3>7, Moved
  <2> QED  BY <2>8, <2>9
<1> QED  BY <1>4, <1>5

\* What a task with an execution knows.
LEMMA CarryingFacts ==
  ASSUME IInv, task.step \in Carrying
  PROVE  /\ task.op \in Operations
         /\ Subject \in Submissions
         /\ exec[task.op] \in Exec
         /\ exec[task.op].phase # "none"
         /\ exec[task.op].gen = task.gen
         /\ exec[task.op].doc = task.doc
         /\ Subject = <<exec[task.op].gen, task.op>>
         /\ ExecutionOK(task.op, exec[task.op])
<1>1. task.op \in Operations /\ Subject \in Submissions
  BY SubjectTyped
<1>2. /\ exec[task.op].phase # "none"
      /\ exec[task.op].gen = task.gen /\ exec[task.op].doc = task.doc
  BY DEF IInv, CarryingOK
<1> QED  BY <1>1, <1>2 DEF IInv, TypeOK, ExecOK, Subject

LEMMA HandoffSafe == ASSUME IInv, Handoff PROVE IInv'
<1>1. task.step = "handoff" /\ task.step \in Carrying /\ task.op \in Operations
  BY CarryingFacts DEF Handoff, At, Carrying
<1>2. UNCHANGED <<bridge, session, exec, page, faults>>
      /\ UNCHANGED <<status, asked, connections, document, lease>>
  BY DEF Handoff, bridge, page
<1>3. delivery' \in [Operations -> Delivery]
  BY <1>1 DEF Handoff, HandedOff, IInv, TypeOK, NoDelivery, Delivery
<1>4. CASE GiveUp
  BY <1>2, <1>3, <1>4, GivesUp, TaskStops DEF IInv, TypeOK
<1>5. ASSUME NEW step \in {"publish", "authorize"}, Go(step),
             step = "publish" <=> exec[task.op].phase = "committed"
      PROVE  IInv'
  <2>1. task' \in Task
    BY <1>5, StepTyped DEF Go, IInv, TypeOK, Steps
  <2>2. TypeOK'
    BY <1>2, <1>3, <2>1 DEF IInv, TypeOK, Bridge!TypeOK, bridge, session
  <2>3. BridgeOK'
    BY <1>2 DEF IInv, BridgeOK, bridge
  <2>4. \/ exec[task.op].phase = "committed"
        \/ exec[task.op].phase = "approved" /\ ~InEffect(Subject)
    BY <1>1 DEF IInv, CarryingOK
  <2>5. step \in Carrying \ {"handoff"}
    BY DEF Carrying
  <2> QED  BY <1>1, <1>2, <1>5, <2>2, <2>3, <2>4, <2>5, GoesOn
<1> QED  BY <1>4, <1>5 DEF Handoff
\* What reads back as applied shows, so it is not applied again.
LEMMA AuthorizeSafe == ASSUME IInv, Authorize PROVE IInv'
<1>1. task.step = "authorize" /\ task.step \in Carrying
  BY DEF Authorize, At, Carrying
<1>2. UNCHANGED <<bridge, session, records, page>>
      /\ UNCHANGED <<status, asked, connections, exec>>
  BY DEF Authorize, bridge, records
<1>3. faults' \in 0 .. MaxFaults
  BY DEF Authorize, IInv, TypeOK
<1>4. exec[task.op].phase = "approved" /\ ~InEffect(Subject)
  BY <1>1 DEF IInv, CarryingOK
<1>5. ~ReadsBack(Subject)
  <2>1. Subject \in Submissions /\ Subject[2] \in Operations
    BY <1>1, CarryingFacts DEF Submissions
  <2>2. ledger[Subject[2]] \in Receipt
    BY <2>1 DEF IInv, TypeOK
  <2>3. ReadsBack(Subject) =>
          /\ ledger[Subject[2]] = [gen |-> Subject[1], at |-> item.at]
          /\ item.state # "gone"
    BY <2>2 DEF ReadsBack, Receipt, Other
  <2> QED  BY <1>4, <2>3 DEF InEffect
<1>6. ASSUME NEW step \in {"write", "fail"}, Go(step),
             step = "write" => ~Recorded(task.op) /\ item.state = asked[Subject]
      PROVE  IInv'
  <2>1. task' \in Task
    BY <1>6, StepTyped DEF Go, IInv, TypeOK, Steps
  <2>2. TypeOK'
    BY <1>2, <1>3, <2>1 DEF IInv, TypeOK, Bridge!TypeOK, bridge, session, records, page
  <2>3. BridgeOK'
    BY <1>2 DEF IInv, BridgeOK, bridge
  <2>4. step \in Carrying \ {"handoff"}
    BY DEF Carrying
  <2> QED  BY <1>1, <1>2, <1>4, <1>6, <2>2, <2>3, <2>4, GoesOn
<1>7. CASE Go("fail")
  BY <1>6, <1>7
<1>8. CASE ~Recorded(task.op) /\ item.state = asked[Subject] /\ Go("write")
  BY <1>6, <1>8
<1> QED  BY <1>5, <1>7, <1>8 DEF Authorize

\* The write: what is about to be applied was not applied before.
LEMMA NotAppliedYet ==
  ASSUME IInv, task.step = "write"
  PROVE  /\ Subject \in Submissions /\ task.op \in Operations
         /\ item.state = asked[Subject] /\ item.state \in States
         /\ \A s \in Submissions : s[2] = task.op => applied[s] = 0
         /\ exec[task.op].phase = "approved" /\ status[Subject] \in Claims
<1>1. task.step \in Carrying
  BY DEF Carrying
<1>2. /\ Subject \in Submissions /\ task.op \in Operations
      /\ Subject = <<exec[task.op].gen, task.op>>
      /\ ExecutionOK(task.op, exec[task.op])
  BY <1>1, CarryingFacts
<1>3. /\ ~Recorded(task.op) /\ item.state = asked[Subject]
      /\ exec[task.op].phase = "approved"
  BY DEF IInv, CarryingOK
<1>4. item.state \in States
  <2>1. item.state \in States \cup {"gone"} /\ asked[Subject] \in States \cup {"none"}
    BY <1>2 DEF IInv, TypeOK, Snapshot
  <2> QED  BY <1>3, <2>1
<1>5. ledger[task.op].gen = 0
  BY <1>3 DEF Recorded, NoReceipt
<1>6. ASSUME NEW s \in Submissions, s[2] = task.op PROVE applied[s] = 0
  <2>1. s[1] # 0
    BY DEF Submissions, Connections
  <2>2. applied[s] \in Nat /\ applied[s] <= 1
    BY DEF IInv, TypeOK, SessionOK
  <2>3. applied[s] # 1
    BY <1>4, <1>5, <1>6, <2>1 DEF IInv, SessionOK, States
  <2> QED  BY <2>2, <2>3
<1> QED  BY <1>2, <1>3, <1>4, <1>6 DEF ExecutionOK

LEMMA WriteSafe == ASSUME IInv, Write PROVE IInv'
<1>1. task.step = "write" /\ task.step \in Carrying
  BY DEF Write, At, Carrying
<1>2. UNCHANGED <<bridge, records, page>>
      /\ UNCHANGED <<status, asked, connections, exec, delivery>>
  BY DEF Write, bridge, records
<1>3. faults' \in 0 .. MaxFaults
  BY DEF Write, IInv, TypeOK
<1>4. BridgeOK'
  BY <1>2 DEF IInv, BridgeOK, bridge
<1>5. CASE Go("fail") /\ UNCHANGED session
  <2>1. task' \in Task
    BY <1>5, StepTyped DEF Go, IInv, TypeOK, Steps
  <2>2. TypeOK'
    BY <1>2, <1>3, <1>5, <2>1 DEF IInv, TypeOK, Bridge!TypeOK, bridge, session, page
  <2>3. ~InEffect(Subject) /\ "fail" \in Carrying \ {"handoff"}
    BY <1>1 DEF IInv, CarryingOK, Carrying
  <2> QED  BY <1>1, <1>2, <1>4, <1>5, <2>2, <2>3, GoesOn
<1>6. CASE /\ version' = version + 1
           /\ item' = [state |-> Other(item.state), at |-> version + 1]
           /\ ledger' = [ledger EXCEPT ![task.op] = [gen |-> task.gen, at |-> version + 1]]
           /\ applied' = [applied EXCEPT ![Subject] = @ + 1]
           /\ Go("commit")
  <2>1. /\ Subject \in Submissions /\ task.op \in Operations
        /\ item.state = asked[Subject] /\ item.state \in States
        /\ \A s \in Submissions : s[2] = task.op => applied[s] = 0
        /\ exec[task.op].phase = "approved" /\ status[Subject] \in Claims
    BY <1>1, NotAppliedYet
  <2>2. /\ task' \in Task
        /\ task'.step = "commit" /\ task'.op = task.op /\ task'.gen = task.gen
        /\ task'.doc = task.doc /\ task'.authority = task.authority
        /\ task'.failure = task.failure
    BY <1>6, StepTyped DEF Go, IInv, TypeOK, Steps
  <2>3. version \in Nat /\ task.gen \in Nat
    BY DEF IInv, TypeOK, Task
  <2>4. \A s \in Submissions : applied'[s] = IF s = Subject THEN 1 ELSE applied[s]
    BY <1>6, <2>1 DEF IInv, TypeOK, Subject
  <2>5. \A o \in Operations :
          ledger'[o] = IF o = task.op THEN [gen |-> task.gen, at |-> version + 1]
                       ELSE ledger[o]
    BY <1>6 DEF IInv, TypeOK
  <2>6. item'.state = Other(asked[Subject]) /\ item'.state \in States
        /\ item'.at = version + 1
    BY <1>6, <2>1 DEF Other, States
  <2>7. TypeOK'
    <3>1. item' \in Snapshot /\ version' \in Nat
      BY <1>6, <2>3, <2>6 DEF Snapshot
    <3>2. ledger' \in [Operations -> Receipt]
      <4>1. [gen |-> task.gen, at |-> version + 1] \in Receipt
        BY <2>3 DEF Receipt
      <4> QED  BY <1>6, <4>1 DEF IInv, TypeOK
    <3>3. applied' \in [Submissions -> Nat]
      <4>1. applied \in [Submissions -> Nat] /\ applied[Subject] + 1 \in Nat
        BY <2>1 DEF IInv, TypeOK
      <4> QED  BY <1>6, <4>1
    <3> QED  BY <1>2, <1>3, <2>2, <3>1, <3>2, <3>3
             DEF IInv, TypeOK, Bridge!TypeOK, bridge, page
  <2>8. ASSUME NEW s \in Submissions, InEffect(s)' PROVE s = Subject
    <3>1. s = <<s[1], s[2]>> /\ s[2] \in Operations
      BY DEF Submissions
    <3>2. ledger[s[2]].at <= version /\ ledger[s[2]].at \in Nat
      BY <3>1 DEF IInv, TypeOK, SessionOK, Receipt
    <3>3. ledger'[s[2]] = [gen |-> s[1], at |-> version + 1]
      BY <2>6, <2>8 DEF InEffect
    <3>4. s[2] = task.op
      BY <2>3, <2>5, <3>1, <3>2, <3>3
    <3>5. s[1] = task.gen
      BY <2>1, <2>5, <3>3, <3>4
    <3> QED  BY <3>1, <3>4, <3>5 DEF Subject
  <2>9. SessionOK'
    <3>1. ASSUME NEW o \in Operations PROVE ledger'[o].at <= version'
      <4>1. ledger[o].at <= version /\ ledger[o].at \in Nat
        BY DEF IInv, TypeOK, SessionOK, Receipt
      <4> QED  BY <1>6, <2>3, <2>5, <4>1
    <3>2. ASSUME NEW s \in Submissions
          PROVE  /\ applied'[s] <= 1
                 /\ item'.state # "gone" => (applied'[s] = 1 <=> ledger'[s[2]].gen = s[1])
                 /\ applied'[s] = 1 => status'[s] \in Reached
                 /\ InEffect(s)' => item'.state = Other(asked'[s])
      <4>1. CASE s = Subject
        <5>1. ledger'[s[2]].gen = s[1]
          BY <2>1, <2>5, <4>1 DEF Subject
        <5> QED  BY <1>2, <2>1, <2>4, <2>6, <4>1, <5>1 DEF Reached
      <4>2. CASE s # Subject
        <5>1. s = <<s[1], s[2]>> /\ s[2] \in Operations
          BY DEF Submissions
        <5>2. applied'[s] = applied[s] /\ ~InEffect(s)'
          BY <2>4, <2>8, <4>2
        <5>3. applied[s] <= 1 /\ (applied[s] = 1 => status[s] \in Reached)
          BY DEF IInv, SessionOK
        <5>4. applied[s] = 1 <=> ledger'[s[2]].gen = s[1]
          <6>1. CASE s[2] = task.op
            BY <2>1, <2>5, <4>2, <5>1, <6>1 DEF Subject
          <6>2. CASE s[2] # task.op
            BY <2>1, <2>5, <5>1, <6>2 DEF IInv, SessionOK, States
          <6> QED  BY <6>1, <6>2
        <5> QED  BY <1>2, <5>2, <5>3, <5>4
      <4> QED  BY <4>1, <4>2
    <3> QED  BY <3>1, <3>2 DEF SessionOK
  <2>10. AnswersAreReal'
    <3>1. status[Subject] \notin Outcomes \cup {"refused"}
      BY <2>1 DEF Claims, Outcomes
    <3> QED  BY <1>2, <2>4, <2>8, <3>1 DEF IInv, AnswersAreReal, Outcomes
  <2>11. ExecOK'
    <3>1. SUFFICES ASSUME NEW o \in Operations PROVE ExecutionOK(o, exec[o])'
      BY DEF ExecOK
    <3>2. CASE exec[o].phase = "none"
      BY <1>2, <3>2 DEF IInv, ExecOK, ExecutionOK
    <3>3. CASE exec[o].phase # "none"
      <4>1. <<exec[o].gen, o>> \in Submissions
        BY <3>3, ExecSubject
      <4>2. ExecutionOK(o, exec[o])
        BY DEF IInv, ExecOK
      <4>3. <<exec[o].gen, o>> = Subject => exec[o].phase = "approved"
        BY <2>1 DEF Subject
      <4>4. exec[o].phase = "terminal" => ~InEffect(<<exec[o].gen, o>>)'
        <5>1. ASSUME NEW t \in Submissions, t = <<exec[o].gen, o>>,
                     exec[o].phase = "terminal"
              PROVE  ~InEffect(t)'
          BY <2>8, <4>3, <5>1
        <5> QED  BY <1>2, <4>1, <5>1 DEF InEffect
      <4>5. exec[o].phase = "committed" => applied'[<<exec[o].gen, o>>] = 1
        BY <2>4, <4>1, <4>2 DEF ExecutionOK
      <4> QED  BY <1>2, <3>3, <4>2, <4>4, <4>5 DEF ExecutionOK
    <3> QED  BY <3>2, <3>3
  <2>12. ApprovingOK' /\ CarryingOK'
    <3>1. applied'[Subject'] = 1
      BY <2>1, <2>2, <2>4 DEF Subject
    <3> QED  BY <1>1, <1>2, <2>2, <3>1 DEF IInv, ApprovingOK, CarryingOK, Carrying
  <2>13. AuthorityOK'
    <3>1. connections' \in Nat /\ connections <= connections'
      BY <1>2 DEF IInv, TypeOK
    <3> QED  BY <1>2, <2>2, <3>1, AuthorityKept
  <2> QED  BY <1>4, <2>7, <2>9, <2>10, <2>11, <2>12, <2>13 DEF IInv
<1> QED  BY <1>5, <1>6 DEF Write
LEMMA CommitSafe == ASSUME IInv, Commit PROVE IInv'
<1> DEFINE r == [exec[task.op] EXCEPT !.phase = "committed", !.at = ledger[task.op].at]
<1>1. task.step = "commit" /\ task.step \in Carrying
  BY DEF Commit, At, Carrying
<1>2. /\ task.op \in Operations /\ exec[task.op] \in Exec
      /\ exec[task.op].phase # "none"
      /\ exec[task.op].gen = task.gen /\ exec[task.op].doc = task.doc
      /\ Subject = <<exec[task.op].gen, task.op>>
      /\ ExecutionOK(task.op, exec[task.op])
  BY <1>1, CarryingFacts
<1>3. applied[Subject] = 1 /\ task.failure # "none"
  BY <1>1 DEF IInv, CarryingOK
<1>4. /\ r \in Exec /\ r.phase = "committed"
      /\ r.gen = exec[task.op].gen /\ r.doc = exec[task.op].doc
  <2>1. ledger[task.op].at \in Nat
    BY <1>2 DEF IInv, TypeOK, Receipt
  <2> QED  BY <1>2, <2>1 DEF Exec
<1>5. exec' = [exec EXCEPT ![task.op] = r] /\ exec'[task.op] = r
  BY <1>2 DEF Commit, IInv, TypeOK
<1>6. ExecutionOK(task.op, r)
  BY <1>2, <1>3, <1>4 DEF ExecutionOK
<1>7. UNCHANGED <<bridge, session, delivery, page, faults>>
  BY DEF Commit
<1>8. CASE GiveUp
  <2>1. /\ task' \in Task /\ task'.step \notin Carrying \cup {"claim", "save"}
        /\ task'.authority \in {0, task.authority}
    BY <1>8, GivesUp
  <2>2. ApprovingOK' /\ CarryingOK'
    BY <2>1 DEF ApprovingOK, CarryingOK, Carrying
  <2> QED  BY <1>2, <1>4, <1>5, <1>6, <1>7, <2>1, <2>2, ExecChanged
<1>9. CASE Go("publish")
  <2>1. /\ task' \in Task
        /\ task'.step = "publish" /\ task'.op = task.op /\ task'.gen = task.gen
        /\ task'.doc = task.doc /\ task'.authority = task.authority
        /\ task'.failure = task.failure
    BY <1>9, StepTyped DEF Go, IInv, TypeOK, Steps
  <2>2. ApprovingOK'
    BY <2>1 DEF ApprovingOK
  <2>3. CarryingOK'
    BY <1>2, <1>3, <1>4, <1>5, <2>1 DEF CarryingOK
  <2> QED  BY <1>2, <1>4, <1>5, <1>6, <1>7, <2>1, <2>2, <2>3, ExecChanged
<1> QED  BY <1>8, <1>9 DEF Commit

\* An execution of a connection before the one a task was told is settled.
LEMMA StrandedSettled ==
  ASSUME IInv, task.step \in Carrying, Stranded
  PROVE  status[Subject] \in Settled
<1>1. /\ Subject \in Submissions /\ task.op \in Operations
      /\ exec[task.op].gen = task.gen /\ exec[task.op].phase # "none"
      /\ Subject = <<exec[task.op].gen, task.op>>
      /\ ExecutionOK(task.op, exec[task.op])
  BY CarryingFacts
<1>2. task.gen \in Nat /\ task.authority \in Nat /\ connections \in Nat /\ connection \in Nat
  BY DEF IInv, TypeOK, Task
<1>3. task.gen < task.authority /\ task.authority <= connections
  BY <1>1, <1>2 DEF Stranded, IInv, AuthorityOK
<1>4. task.gen # connection
  <2>1. connection \in {0, connections} /\ task.gen # 0
    BY <1>1, <1>2 DEF IInv, BridgeOK, ExecutionOK
  <2> QED  BY <1>2, <1>3, <2>1
<1>5. status[Subject] \in {"unused", "gone"}
  BY <1>1, <1>4 DEF IInv, BridgeOK, Subject
<1>6. status[Subject] \in Reached
  BY <1>1 DEF ExecutionOK
<1> QED  BY <1>5, <1>6 DEF Reached, Claims, Outcomes, Settled

LEMMA PublishSafe == ASSUME IInv, Publish PROVE IInv'
<1>1. task.step = "publish" /\ task.step \in Carrying
  BY DEF Publish, At, Carrying
<1>2. UNCHANGED <<status, asked, late, connection, connections, session, delivery, exec,
                  document, lease, faults>>
  BY DEF Publish, records, page
<1>3. shared' \in SUBSET Snapshot /\ \A r \in shared' : r.state # "gone"
  BY DEF Publish, Shown, IInv, TypeOK, BridgeOK
<1>4. BridgeOK'
  BY <1>2, <1>3 DEF IInv, BridgeOK
<1>5. task' \in Task => TypeOK'
  BY <1>2, <1>3 DEF IInv, TypeOK, Bridge!TypeOK, session
<1>6. AskedKept /\ StatusGoesOn
  BY <1>2, StatusStays DEF AskedKept
<1>7. connections' \in Nat /\ connections <= connections'
  BY <1>2 DEF IInv, TypeOK
<1>8. CASE GiveUp
  <2>1. /\ task' \in Task /\ task'.step \notin Carrying \cup {"claim", "save"}
        /\ task'.authority \in {0, task.authority}
    BY <1>8, GivesUp
  <2>2. AuthorityOK'
    BY <1>2, <1>7, <2>1, AuthorityKept
  <2> QED  BY <1>2, <1>4, <1>5, <1>6, <1>7, <2>1, <2>2, Rests
<1>9. ASSUME NEW step \in {"drop", "ack"}, Go(step), step = "drop" => Stranded
      PROVE  IInv'
  <2>1. task' \in Task
    BY <1>9, StepTyped DEF Go, IInv, TypeOK, Steps
  <2>2. exec[task.op].phase = "committed"
    BY <1>1 DEF IInv, CarryingOK
  <2>3. step = "drop" => status[Subject] \in Settled
    BY <1>1, <1>9, StrandedSettled
  <2>4. step \in Carrying \ {"handoff"}
    BY DEF Carrying
  <2> QED  BY <1>1, <1>2, <1>4, <1>5, <1>9, <2>1, <2>2, <2>3, <2>4, GoesOn
<1> QED  BY <1>8, <1>9 DEF Publish

\* The bridge takes a receipt, or does not.
LEMMA AnsweredSafe ==
  ASSUME IInv, task.step \in Carrying,
         UNCHANGED <<asked, late, connection, connections, shared, session, records,
                     page, faults>>,
         exec[task.op].phase \in {"committed", "terminal"},
         \/ GiveUp /\ UNCHANGED status
         \/ /\ connection = task.gen
            /\ Go("drop")
            /\ \E outcome \in Outcomes :
                 /\ status' = [status EXCEPT ![Subject] = outcome]
                 /\ outcome = "succeeded" => applied[Subject] = 1
                 /\ outcome # "succeeded" => ~InEffect(Subject)
  PROVE  IInv'
<1>1. UNCHANGED <<exec, delivery, document, lease, item, ledger, applied, version>>
  BY DEF records, page, session
<1>2. CASE GiveUp /\ UNCHANGED status
  BY <1>1, <1>2, GivesUp, TaskStops DEF IInv, TypeOK, bridge
<1>3. ASSUME connection = task.gen, Go("drop"), NEW outcome \in Outcomes,
             status' = [status EXCEPT ![Subject] = outcome],
             outcome = "succeeded" => applied[Subject] = 1,
             outcome # "succeeded" => ~InEffect(Subject)
      PROVE  IInv'
  <2>1. /\ Subject \in Submissions /\ task.op \in Operations
        /\ Subject = <<exec[task.op].gen, task.op>>
    BY CarryingFacts
  <2>2. /\ task' \in Task
        /\ task'.step = "drop" /\ task'.op = task.op /\ task'.gen = task.gen
        /\ task'.doc = task.doc /\ task'.authority = task.authority
        /\ task'.failure = task.failure
    BY <1>3, StepTyped DEF Go, IInv, TypeOK, Steps
  <2>3. \A s \in Submissions : status'[s] = IF s = Subject THEN outcome ELSE status[s]
    BY <1>3 DEF IInv, TypeOK, Bridge!TypeOK, Bridge!Submissions, Submissions
  <2>4. TypeOK'
    BY <1>1, <1>3, <2>2 DEF IInv, TypeOK, Bridge!TypeOK
  <2>5. BridgeOK'
    <3>1. outcome \notin {"lapsed", "gone"}
      BY DEF Outcomes
    <3>2. Subject[1] = connection
      BY <1>3 DEF Subject
    <3> QED  BY <2>3, <3>1, <3>2 DEF IInv, BridgeOK
  <2>6. \A s \in Submissions : InEffect(s)' <=> InEffect(s)
    BY <1>1 DEF InEffect
  <2>7. SessionOK'
    BY <1>1, <2>3, <2>6 DEF IInv, SessionOK, Reached
  <2>8. AnswersAreReal'
    <3>1. outcome # "refused"
      BY DEF Outcomes
    <3> QED  BY <1>1, <1>3, <2>3, <2>6, <3>1 DEF IInv, AnswersAreReal, Outcomes
  <2>9. ExecOK'
    <3>1. SUFFICES ASSUME NEW o \in Operations PROVE ExecutionOK(o, exec[o])'
      BY DEF ExecOK
    <3>2. ExecutionOK(o, exec[o])
      BY DEF IInv, ExecOK
    <3>3. CASE exec[o].phase = "none"
      BY <1>1, <3>2, <3>3 DEF ExecutionOK
    <3>4. CASE exec[o].phase # "none"
      <4>1. <<exec[o].gen, o>> \in Submissions
        BY <3>4, ExecSubject
      <4>2. <<exec[o].gen, o>> = Subject => exec[o].phase # "approved"
        BY DEF Subject
      <4>3. InEffect(<<exec[o].gen, o>>)' <=> InEffect(<<exec[o].gen, o>>)
        BY <1>1 DEF InEffect
      <4>4. status'[<<exec[o].gen, o>>] \in
              {status[<<exec[o].gen, o>>]} \cup
              (IF exec[o].phase = "approved" THEN {} ELSE Outcomes)
        BY <2>3, <4>1, <4>2
      <4> QED  BY <1>1, <3>2, <3>4, <4>3, <4>4 DEF ExecutionOK, Reached
    <3> QED  BY <3>3, <3>4
  <2>10. ApprovingOK'
    BY <2>2 DEF ApprovingOK
  <2>11. CarryingOK'
    <3>1. status'[Subject'] \in Settled
      BY <2>1, <2>2, <2>3 DEF Subject, Settled
    <3>2. /\ task.failure # "none" /\ exec[task.op].phase # "none"
          /\ exec[task.op].gen = task.gen /\ exec[task.op].doc = task.doc
      BY DEF IInv, CarryingOK
    <3> QED  BY <1>1, <2>1, <2>2, <3>1, <3>2 DEF CarryingOK
  <2>12. AuthorityOK'
    <3>1. connections' \in Nat /\ connections <= connections'
      BY DEF IInv, TypeOK
    <3> QED  BY <1>1, <2>2, <3>1, AuthorityKept
  <2> QED  BY <2>4, <2>5, <2>7, <2>8, <2>9, <2>10, <2>11, <2>12 DEF IInv
<1> QED  BY <1>2, <1>3

LEMMA AckSafe == ASSUME IInv, Ack PROVE IInv'
<1>1. task.step = "ack" /\ task.step \in Carrying
  BY DEF Ack, At, Carrying
<1>2. exec[task.op].phase = "committed"
  BY <1>1 DEF IInv, CarryingOK
<1>3. applied[Subject] = 1
  BY <1>1, <1>2, CarryingFacts DEF ExecutionOK
<1>4. "succeeded" \in Outcomes
  BY DEF Outcomes
<1> QED  BY <1>1, <1>2, <1>3, <1>4, AnsweredSafe DEF Ack, Answered

LEMMA NackSafe == ASSUME IInv, Nack PROVE IInv'
<1>1. task.step = "nack" /\ task.step \in Carrying
  BY DEF Nack, At, Carrying
<1>2. exec[task.op].phase = "terminal" /\ ~InEffect(Subject) /\ task.failure # "none"
  BY <1>1 DEF IInv, CarryingOK
<1>3. task.failure \in Outcomes /\ task.failure # "succeeded"
  BY <1>2 DEF IInv, TypeOK, Task, Outcomes
<1> QED  BY <1>1, <1>2, <1>3, AnsweredSafe DEF Nack, Answered
LEMMA FailSafe == ASSUME IInv, Fail PROVE IInv'
<1> DEFINE record == exec[task.op]
           marked == [record EXCEPT !.phase = "terminal", !.outcome = task.failure]
<1>1. task.step = "fail" /\ task.step \in Carrying
  BY DEF Fail, At, Carrying
<1>2. /\ task.op \in Operations /\ record \in Exec /\ record.phase # "none"
      /\ record.gen = task.gen /\ record.doc = task.doc
      /\ Subject = <<record.gen, task.op>>
      /\ ExecutionOK(task.op, record)
  BY <1>1, CarryingFacts
<1>3. ~InEffect(Subject) /\ task.failure # "none"
  BY <1>1 DEF IInv, CarryingOK
<1>4. UNCHANGED <<bridge, session, delivery, page, faults>>
      /\ UNCHANGED <<status, asked, connections, document, lease>>
  BY DEF Fail, bridge, page
<1>5. CASE GiveUp /\ UNCHANGED exec
  BY <1>4, <1>5, GivesUp, TaskStops DEF IInv, TypeOK
<1>6. ASSUME NEW step \in {"drop", "nack"}, Go(step), UNCHANGED exec,
             step = "nack" => record.phase = "terminal"
      PROVE  IInv'
  <2>1. task' \in Task
    BY <1>6, StepTyped DEF Go, IInv, TypeOK, Steps
  <2>2. TypeOK'
    BY <1>4, <1>6, <2>1 DEF IInv, TypeOK, Bridge!TypeOK, bridge, session
  <2>3. BridgeOK'
    BY <1>4 DEF IInv, BridgeOK, bridge
  <2>4. step \in Carrying \ {"handoff"}
    BY DEF Carrying
  <2> QED  BY <1>1, <1>3, <1>4, <1>6, <2>2, <2>3, <2>4, GoesOn
<1>7. CASE Go("nack") /\ exec' = [exec EXCEPT ![task.op] = marked]
  <2>1. /\ task' \in Task
        /\ task'.step = "nack" /\ task'.op = task.op /\ task'.gen = task.gen
        /\ task'.doc = task.doc /\ task'.authority = task.authority
        /\ task'.failure = task.failure
    BY <1>7, StepTyped DEF Go, IInv, TypeOK, Steps
  <2>2. /\ marked \in Exec /\ marked.phase = "terminal" /\ marked.outcome = task.failure
        /\ marked.gen = record.gen /\ marked.doc = record.doc
    <3>1. task.failure \in {"none", "blocked", "cancelled"}
      BY DEF IInv, TypeOK, Task
    <3> QED  BY <1>2, <3>1 DEF Exec
  <2>3. ExecutionOK(task.op, marked)
    BY <1>2, <1>3, <2>2 DEF ExecutionOK
  <2>4. exec'[task.op] = marked
    BY <1>2, <1>7 DEF IInv, TypeOK
  <2>5. ApprovingOK'
    BY <2>1 DEF ApprovingOK
  <2>6. ~InEffect(Subject)'
    BY <1>3, <1>4, <2>1 DEF InEffect, Subject, session
  <2>7. CarryingOK'
    BY <1>2, <1>3, <2>1, <2>2, <2>4, <2>6 DEF CarryingOK
  <2> QED  BY <1>2, <1>4, <1>7, <2>1, <2>2, <2>3, <2>5, <2>7, ExecChanged
<1>8. \/ (Go("drop") \/ (Go("nack") /\ record = marked)) /\ UNCHANGED exec
      \/ Go("nack") /\ exec' = [exec EXCEPT ![task.op] = marked]
      \/ GiveUp /\ UNCHANGED exec
  BY DEF Fail
<1>9. record = marked => record.phase = "terminal"
  BY <1>2 DEF Exec
<1> QED  BY <1>5, <1>6, <1>7, <1>8, <1>9

LEMMA DropSafe == ASSUME IInv, Drop PROVE IInv'
<1>1. task.step = "drop" /\ task.step \in Carrying
  BY DEF Drop, At, Carrying
<1>2. task.op \in Operations
  BY <1>1, CarryingFacts
<1>3. /\ task' \in Task /\ task'.step \notin Carrying \cup {"claim", "save"}
      /\ task'.authority \in {0, task.authority}
  BY GivesUp DEF Drop
<1>4. ApprovingOK' /\ CarryingOK'
  BY <1>3 DEF ApprovingOK, CarryingOK, Carrying
<1>5. NoExec \in Exec /\ ExecutionOK(task.op, NoExec) /\ NoExec.gen = 0
  BY DEF NoExec, Exec, ExecutionOK
<1>6. /\ UNCHANGED <<bridge, session, delivery, page, faults>>
      /\ exec' = [exec EXCEPT ![task.op] = NoExec]
  BY DEF Drop
<1> QED  BY <1>2, <1>3, <1>4, <1>5, <1>6, ExecChanged

-----------------------------------------------------------------------------
(* Recovering, and terminating before something is removed.                *)

\* What is to be done about an execution may be done.
LEMMA VisitStep ==
  ASSUME IInv, NEW o \in Operations,
         NEW step, step = Recovery(o) \/ step = Termination(o)
  PROVE  LET s == <<exec[o].gen, o>>
         IN /\ step \in {"commit", "publish", "drop", "fail", "authorize", "next", "idle"}
            /\ step \notin {"next", "idle"} => exec[o].phase # "none"
            /\ step = "commit" => applied[s] = 1
            /\ step = "publish" => exec[o].phase = "committed"
            /\ step = "authorize" => exec[o].phase = "approved"
            /\ step \in {"drop", "fail", "authorize"} => ~InEffect(s)
<1> DEFINE s == <<exec[o].gen, o>>
<1>1. exec[o].phase \in {"none", "approved", "committed", "terminal"}
  BY DEF IInv, TypeOK, Exec
<1>2. /\ Judged(o) \in {exec[o].phase, "applied", "not_committed", "unknown"}
      /\ Judged(o) = "applied" =>
           exec[o].phase = "approved" /\ Recorded(o) /\ ReadsBack(s)
      /\ Judged(o) = "not_committed" => exec[o].phase = "approved" /\ ~Recorded(o)
  BY <1>1 DEF Judged
<1>3. ASSUME Judged(o) = "applied" PROVE applied[s] = 1
  <2>1. s \in Submissions
    BY <1>2, <1>3, ExecSubject
  <2>2. ledger[s[2]].gen = s[1] /\ item.state # "gone"
    BY <1>2, <1>3 DEF ReadsBack, Other
  <2> QED  BY <2>1, <2>2 DEF IInv, SessionOK
<1>4. ASSUME Judged(o) = "not_committed" PROVE ~InEffect(s)
  <2>1. s \in Submissions
    BY <1>2, <1>4, ExecSubject
  <2>2. ledger[o].gen = 0 /\ s[1] # 0
    BY <1>2, <1>4, <2>1 DEF Recorded, NoReceipt, Submissions, Connections
  <2> QED  BY <2>1, <2>2, NotShown
<1>5. exec[o].phase = "terminal" => ~InEffect(s)
  BY DEF IInv, ExecOK, ExecutionOK
<1>6. /\ step \in {"commit", "publish", "drop", "fail", "authorize", "next", "idle"}
      /\ step = "commit" => Judged(o) = "applied"
      /\ step = "publish" => Judged(o) = "committed"
      /\ step = "authorize" => Judged(o) = "not_committed"
      /\ step \in {"drop", "fail"} => Judged(o) \in {"terminal", "not_committed"}
  <2>1. CASE step = Recovery(o)
    BY <2>1 DEF Recovery
  <2>2. CASE step = Termination(o)
    BY <2>2 DEF Termination
  <2> QED  BY <2>1, <2>2
<1> QED  BY <1>1, <1>2, <1>3, <1>4, <1>5, <1>6

\* The task, at the record it visits.
Visited(n, k, o, st, g, d, f) ==
  /\ n \in Task /\ n.step = st /\ n.op = o /\ n.gen = g /\ n.doc = d
  /\ n.authority = k.authority /\ n.failure = f

LEMMA VisitTask ==
  ASSUME NEW k \in Task, NEW o \in Operations, NEW st \in Steps, NEW g \in Nat, NEW d \in Nat,
         NEW f \in {"none", "blocked", "cancelled"}, NEW w \in BOOLEAN, NEW n,
         n = [k EXCEPT !.todo = @ \ {o}, !.step = st, !.op = o, !.gen = g, !.doc = d,
                       !.failure = f, !.widget = w]
  PROVE  Visited(n, k, o, st, g, d, f)
<1>1. n = [kind |-> k.kind, step |-> st, goal |-> k.goal, op |-> o, gen |-> g, doc |-> d,
           authority |-> k.authority, todo |-> k.todo \ {o}, widget |-> w, failure |-> f]
  BY DEF Task
<1>2. /\ k.kind \in {"idle", "read", "approve", "reject", "recover", "terminate"}
      /\ k.goal \in {"none", "remove", "clear", "disconnect", "release"}
      /\ k.authority \in Nat /\ k.todo \ {o} \in SUBSET Operations
  BY DEF Task
<1> QED  BY <1>1, <1>2 DEF Visited, Task, Steps

LEMMA VisitSafe == ASSUME IInv, NEW o \in Operations, Visit(o) PROVE IInv'
<1> DEFINE e == exec[o]
           step == IF task.kind = "recover" THEN Recovery(o) ELSE Termination(o)
           failure == IF task.kind = "terminate" THEN "cancelled"
                      ELSE IF e.phase = "terminal" THEN e.outcome ELSE "blocked"
           task1 == [task EXCEPT !.todo = @ \ {o}, !.step = step, !.op = o,
                       !.gen = e.gen, !.doc = e.doc, !.failure = failure,
                       !.widget = /\ task.kind = "recover"
                                  /\ task.authority = e.gen
                                  /\ lease = e.doc]
           skipped == [task EXCEPT !.todo = @ \ {o}]
<1>1. task.step = "next" /\ e \in Exec
  BY DEF Visit, At, IInv, TypeOK
<1>2. UNCHANGED <<bridge, session, exec, page, faults>>
      /\ UNCHANGED <<status, asked, connections, document, lease>>
  BY DEF Visit, bridge, page
<1>3. delivery' \in [Operations -> Delivery]
  BY DEF Visit, HandedOff, IInv, TypeOK, NoDelivery, Delivery
<1>4. CASE task' = Idle
  BY <1>2, <1>3, <1>4, GivesUp, TaskStops DEF IInv, TypeOK
<1>5. CASE task' = skipped
  <2>1. /\ task' \in Task /\ task'.step = "next" /\ task'.authority = task.authority
    BY <1>1, <1>5 DEF IInv, TypeOK, Task
  <2>2. task'.step \notin Carrying \cup {"claim", "save"}
    BY <2>1 DEF Carrying
  <2> QED  BY <1>2, <1>3, <2>1, <2>2, TaskStops DEF IInv, TypeOK
<1>6. CASE task' = task1
  <2> DEFINE s == <<e.gen, o>>
  <2>1. /\ step \in {"commit", "publish", "drop", "fail", "authorize", "next", "idle"}
        /\ step \notin {"next", "idle"} => e.phase # "none"
        /\ step = "commit" => applied[s] = 1
        /\ step = "publish" => e.phase = "committed"
        /\ step = "authorize" => e.phase = "approved"
        /\ step \in {"drop", "fail", "authorize"} => ~InEffect(s)
    BY VisitStep
  <2>2. failure \in {"none", "blocked", "cancelled"}
        /\ (e.phase # "none" => failure # "none")
    BY <1>1 DEF IInv, ExecOK, ExecutionOK, Exec
  <2> HIDE DEF step, failure
  <2>3. /\ task' \in Task
        /\ task'.step = step /\ task'.op = o /\ task'.gen = e.gen /\ task'.doc = e.doc
        /\ task'.authority = task.authority /\ task'.failure = failure
    <3>1. task \in Task /\ e.gen \in Nat /\ e.doc \in Nat
      BY <1>1 DEF IInv, TypeOK, Exec
    <3>2. step \in Steps
      BY <2>1 DEF Steps
    <3> PICK k, g, d, st, f, w : /\ k = task /\ g = e.gen /\ d = e.doc /\ st = step /\ f = failure
                                 /\ w = (/\ task.kind = "recover" /\ task.authority = e.gen
                                        /\ lease = e.doc)
      OBVIOUS
    <3>3. /\ k \in Task /\ g \in Nat /\ d \in Nat /\ st \in Steps /\ w \in BOOLEAN
          /\ f \in {"none", "blocked", "cancelled"}
      BY <2>2, <3>1, <3>2
    <3> PICK n : n = task'  OBVIOUS
    <3>4. n = [k EXCEPT !.todo = @ \ {o}, !.step = st, !.op = o, !.gen = g, !.doc = d,
                        !.failure = f, !.widget = w]
      BY <1>6
    <3>5. Visited(n, k, o, st, g, d, f)
      BY ONLY o \in Operations, <3>3, <3>4, VisitTask
    <3> QED  BY <3>5 DEF Visited
  <2>4. TypeOK'
    BY <1>2, <1>3, <2>3 DEF IInv, TypeOK, Bridge!TypeOK, bridge, session
  <2>5. BridgeOK'
    BY <1>2 DEF IInv, BridgeOK, bridge
  <2>6. StatusGoesOn /\ AskedKept
    BY <1>2, StatusStays DEF AskedKept
  <2>7. connections' \in Nat /\ connections <= connections'
    BY <1>2 DEF IInv, TypeOK
  <2>8. AuthorityOK'
    BY <1>2, <2>3, <2>7, AuthorityKept
  <2>9. ApprovingOK'
    BY <2>1, <2>3 DEF ApprovingOK
  <2>10. CarryingOK'
    <3>1. Subject' = s
      BY <2>3 DEF Subject
    <3>2. step \in {"drop", "fail", "authorize"} => ~InEffect(Subject)'
      BY <1>2, <2>1, <3>1 DEF InEffect, session
    <3>3. step = "commit" => applied'[Subject'] = 1
      BY <1>2, <2>1, <3>1 DEF session
    <3> QED  BY <1>2, <2>1, <2>2, <2>3, <3>2, <3>3 DEF CarryingOK, Carrying
  <2> QED  BY <1>2, <2>4, <2>5, <2>6, <2>7, <2>8, <2>9, <2>10, Moved
<1> QED  BY <1>4, <1>5, <1>6 DEF Visit
\* The steps of a termination that only take the task further.
LEMMA EndingSafe ==
  ASSUME IInv,
         \/ AllVisited \/ AllForgotten \/ Released
         \/ \E o \in Operations : DeliveryStays(o) \/ ForgetDelivered(o)
  PROVE  IInv'
<1>1. UNCHANGED <<bridge, session, exec, connections, page, faults>>
  BY DEF AllVisited, AllForgotten, Released, DeliveryStays, ForgetDelivered, records, bridge
<1>2. delivery' \in [Operations -> Delivery]
  <2>1. CASE delivery' = delivery
    BY <2>1 DEF IInv, TypeOK
  <2>2. ASSUME NEW o \in Operations, ForgetDelivered(o)
        PROVE  delivery' \in [Operations -> Delivery]
    <3>1. NoDelivery \in Delivery
      BY DEF NoDelivery, Delivery
    <3> QED  BY <2>2, <3>1 DEF ForgetDelivered, IInv, TypeOK
  <2> QED  BY <2>1, <2>2 DEF AllVisited, AllForgotten, Released, DeliveryStays, records
<1>3. /\ task' \in Task
      /\ task'.step \notin Carrying \cup {"claim", "save"}
      /\ task'.authority \in {0, task.authority}
  <2>1. CASE GiveUp \/ task' = Idle
    BY <2>1, GivesUp
  <2>2. ASSUME NEW step \in {"deliveries", "finish"}, Go(step)
        PROVE  task' \in Task /\ task'.step = step /\ task'.authority = task.authority
    BY <2>2, StepTyped DEF Go, IInv, TypeOK, Steps
  <2>3. CASE Go("deliveries") \/ Go("finish")
    BY <2>2, <2>3 DEF Carrying
  <2>4. CASE task' = task /\ task.step = "deliveries"
    BY <2>4 DEF IInv, TypeOK, Carrying
  <2> QED  BY <2>1, <2>3, <2>4 DEF AllVisited, AllForgotten, Released, DeliveryStays,
                                   ForgetDelivered, At
<1> QED  BY <1>1, <1>2, <1>3, TaskStops DEF IInv, TypeOK, page

LEMMA RejectDeliveredSafe ==
  ASSUME IInv, NEW o \in Operations, RejectDelivered(o)
  PROVE  IInv'
<1>1. UNCHANGED <<asked, late, connection, connections, shared, session, records, page,
                  task, faults>>
      /\ Bridge!Move(<<connection, o>>, "offered", "refused")
  BY DEF RejectDelivered
<1>2. task' \in Task /\ <<connection, o>>[1] = connection
  BY <1>1 DEF IInv, TypeOK
<1>3. TypeOK' /\ BridgeOK' /\ StatusGoesOn /\ AskedKept
  BY <1>1, <1>2, RejectedOK
<1>4. UNCHANGED exec /\ connections <= connections'
  BY <1>1 DEF records, IInv, TypeOK
<1> QED  BY <1>1, <1>3, <1>4, Beside

\* What is gone shows no change, and a clear leaves no receipt behind it.
LEMMA RemoveItemSafe == ASSUME IInv, RemoveItem PROVE IInv'
<1>1. /\ UNCHANGED <<bridge, applied, records, page, faults>>
      /\ UNCHANGED <<status, asked, connections, exec, delivery>>
      /\ task' = Idle
  BY DEF RemoveItem, bridge, records
<1>2. item'.state = "gone" /\ version' \in Nat /\ version <= version' /\ item' \in Snapshot
  BY DEF RemoveItem, IInv, TypeOK, Snapshot
<1>3. /\ ledger' \in [Operations -> Receipt]
      /\ \A o \in Operations : ledger'[o] \in {ledger[o], NoReceipt}
  BY DEF RemoveItem, IInv, TypeOK, Receipt, NoReceipt
<1>4. TypeOK'
  BY <1>1, <1>2, <1>3, IdleTyped DEF IInv, TypeOK, Bridge!TypeOK, bridge, page
<1>5. BridgeOK'
  BY <1>1 DEF IInv, BridgeOK, bridge
<1>6. NothingAppears /\ \A s \in Submissions : ~InEffect(s)'
  BY <1>2 DEF NothingAppears, InEffect
<1>7. StatusGoesOn
  BY <1>1, StatusStays
<1>8. SessionOK'
  <2>1. ASSUME NEW o \in Operations PROVE ledger'[o].at <= version'
    <3>1. ledger[o].at <= version /\ ledger[o].at \in Nat /\ version \in Nat
      BY DEF IInv, TypeOK, SessionOK, Receipt
    <3> QED  BY <1>2, <1>3, <3>1 DEF NoReceipt
  <2> QED  BY <1>1, <1>2, <1>6, <2>1 DEF IInv, SessionOK
<1>9. AnswersAreReal' /\ ExecOK'
  <2>1. connections' \in Nat /\ connections <= connections'
    BY <1>1 DEF IInv, TypeOK
  <2> QED  BY <1>1, <1>6, <1>7, <2>1, AnswersKept, ExecKept
<1>10. ApprovingOK' /\ CarryingOK' /\ AuthorityOK'
  BY <1>1 DEF Idle, ApprovingOK, CarryingOK, AuthorityOK, Carrying, IInv, TypeOK
<1> QED  BY <1>4, <1>5, <1>8, <1>9, <1>10 DEF IInv

LEMMA DisconnectSafe == ASSUME IInv, Disconnect PROVE IInv'
<1>1. /\ StatusGoesOn /\ Bridge!TypeOK'
      /\ \A s \in Submissions : status'[s] = IF s[1] = connection THEN "gone" ELSE status[s]
  BY DropGoesOn DEF Disconnect, IInv
<1>2. TypeOK'
  BY <1>1, IdleTyped DEF Disconnect, IInv, TypeOK, session, records, page
<1>3. BridgeOK'
  BY <1>1 DEF Disconnect, IInv, BridgeOK
<1>4. UNCHANGED <<session, exec>> /\ AskedKept /\ connections <= connections'
      /\ task' = Idle
  BY DEF Disconnect, records, AskedKept, IInv, TypeOK
<1>5. AuthorityOK'
  BY <1>4 DEF AuthorityOK, Idle, Disconnect, IInv, TypeOK
<1>6. task'.step \notin Carrying \cup {"claim", "save"}
  BY <1>4 DEF Idle, Carrying
<1> QED  BY <1>1, <1>2, <1>3, <1>4, <1>5, <1>6, Rests

-----------------------------------------------------------------------------
(* The invariant, and what follows from it.                                *)

LEMMA InvariantInit == ASSUME Init PROVE IInv
<1>1. TypeOK
  <2>1. Bridge!TypeOK
    BY DEF Init, Bridge!Init, Bridge!TypeOK, Bridge!Open
  <2>2. item \in Snapshot /\ NoReceipt \in Receipt /\ NoDelivery \in Delivery
        /\ NoExec \in Exec
    BY DEF Init, Snapshot, States, NoReceipt, Receipt, NoDelivery, Delivery, NoExec, Exec
  <2> QED  BY <2>1, <2>2, IdleTyped DEF Init, TypeOK
<1>2. \A s \in Submissions : status[s] = "unused" /\ applied[s] = 0 /\ s[1] # 0
                             /\ s[2] \in Operations
  BY DEF Init, Bridge!Init, Bridge!Submissions, Submissions, Connections
<1>3. BridgeOK
  BY <1>2 DEF Init, BridgeOK
<1>4. \A s \in Submissions : ledger[s[2]].gen # s[1]
  BY <1>2 DEF Init, NoReceipt
<1>5. \A s \in Submissions : ~InEffect(s)
  BY <1>4 DEF InEffect
<1>6. SessionOK
  BY <1>2, <1>4, <1>5 DEF Init, SessionOK, NoReceipt
<1>7. AnswersAreReal
  BY <1>2 DEF AnswersAreReal
<1>8. ExecOK
  BY DEF Init, ExecOK, ExecutionOK, NoExec
<1>9. ApprovingOK /\ CarryingOK /\ AuthorityOK
  BY DEF Init, ApprovingOK, CarryingOK, AuthorityOK, Idle, Carrying
<1> QED  BY <1>1, <1>3, <1>6, <1>7, <1>8, <1>9 DEF IInv

LEMMA ContinueSafe == ASSUME IInv, Continue PROVE IInv'
<1>1. CASE SaveDelivery \/ Tidy \/ Retire
  BY <1>1, ShowingSafe
<1>2. CASE Refuse \/ Claim \/ SaveApproved \/ Handoff
  BY <1>2, RefuseSafe, ClaimSafe, SaveApprovedSafe, HandoffSafe
<1>3. CASE Authorize \/ Write \/ Commit \/ Publish
  BY <1>3, AuthorizeSafe, WriteSafe, CommitSafe, PublishSafe
<1>4. CASE Ack \/ Fail \/ Nack \/ Drop
  BY <1>4, AckSafe, FailSafe, NackSafe, DropSafe
<1>5. CASE AllVisited \/ AllForgotten \/ Released
  BY <1>5, EndingSafe
<1>6. CASE RemoveItem \/ Disconnect
  BY <1>6, RemoveItemSafe, DisconnectSafe
<1>7. ASSUME NEW o \in Operations,
             Visit(o) \/ RejectDelivered(o) \/ ForgetDelivered(o) \/ DeliveryStays(o)
      PROVE  IInv'
  BY <1>7, VisitSafe, RejectDeliveredSafe, EndingSafe
<1> QED  BY <1>1, <1>2, <1>3, <1>4, <1>5, <1>6, <1>7 DEF Continue

LEMMA InvariantStep == ASSUME IInv, [Next]_vars PROVE IInv'
<1>1. CASE Pair \/ Unpair \/ Share \/ Navigate \/ ChangeLease
  BY <1>1, PairSafe, UnpairSafe, ShareSafe, PageSafe
<1>2. CASE WorkerDies \/ BrowserRestarts \/ CallFails
  BY <1>2, WorkerDiesSafe, BrowserRestartsSafe, CallFailsSafe
<1>3. ASSUME NEW what \in Edits, Edit(what) PROVE IInv'
  BY <1>3, EditSafe
<1>4. ASSUME NEW s \in Submissions, Expire(s) PROVE IInv'
  BY <1>4, ExpireSafe
<1>5. ASSUME NEW o \in Operations,
             Submit(o) \/ BeginRead(o) \/ BeginApprove(o) \/ BeginReject(o)
      PROVE  IInv'
  BY <1>5, SubmitSafe, BeginReadSafe, BeginApproveSafe
<1>6. CASE ReadNothing
  BY <1>6, ReadNothingSafe
<1>7. CASE BeginRecover
  BY <1>7, BeginAllSafe DEF BeginRecover
<1>8. ASSUME NEW goal \in {"remove", "clear", "disconnect", "release"}, BeginTerminate(goal)
      PROVE  IInv'
  BY <1>8, BeginAllSafe DEF BeginTerminate
<1>9. CASE Continue
  BY <1>9, ContinueSafe
<1>10. CASE UNCHANGED vars
  <2>1. UNCHANGED <<bridge, session, records, page, task, faults>>
        /\ UNCHANGED <<status, asked, exec, connections>>
    BY <1>10 DEF vars, bridge, records
  <2>2. TypeOK'
    BY <2>1 DEF IInv, TypeOK, Bridge!TypeOK, bridge, session, records, page
  <2>3. BridgeOK'
    BY <2>1 DEF IInv, BridgeOK, bridge
  <2>4. AskedKept /\ connections <= connections'
    BY <2>1 DEF AskedKept, IInv, TypeOK
  <2> QED  BY <2>1, <2>2, <2>3, <2>4, StatusStays, Beside
<1> QED  BY <1>1, <1>2, <1>3, <1>4, <1>5, <1>6, <1>7, <1>8, <1>9, <1>10 DEF Next

\* However the handlers, the faults, the page, the user and the agents
\* interleave, the records, the session, the bridge and the running handler fit
\* together as IInv says.
THEOREM ExecutionInvariant == Spec => []IInv
BY InvariantInit, InvariantStep, PTL DEF Spec

\* Every variable of the execution keeps its type.
THEOREM ExecutionTyped == Spec => []TypeOK
<1>1. IInv => TypeOK
  BY DEF IInv
<1> QED  BY <1>1, ExecutionInvariant, PTL

\* However often a proposal is shown, approved, interrupted and recovered, it
\* is applied to the session once at most.
THEOREM ExecutedOnce == Spec => []AppliedOnce
<1>1. IInv => AppliedOnce
  BY DEF IInv, SessionOK, AppliedOnce
<1> QED  BY <1>1, ExecutionInvariant, PTL

\* What an agent is told is what became of its proposal.
THEOREM AnswersReal == Spec => []AnswersAreReal
<1>1. IInv => AnswersAreReal
  BY DEF IInv
<1> QED  BY <1>1, ExecutionInvariant, PTL

\* Nothing but the write of an approved change is an application.
LEMMA OnlyWriteApplies ==
  ASSUME [Next]_vars, applied' # applied
  PROVE  Write
<1>1. UNCHANGED vars => applied' = applied
  BY DEF vars, session
<1>2. CASE Pair \/ Unpair \/ Share \/ Navigate \/ ChangeLease
  BY <1>2 DEF Pair, Unpair, Share, Navigate, ChangeLease, session
<1>3. CASE WorkerDies \/ BrowserRestarts \/ CallFails \/ ReadNothing \/ BeginRecover
  BY <1>3 DEF WorkerDies, BrowserRestarts, CallFails, ReadNothing, BeginRecover, BeginAll,
              session
<1>4. ~ \E what \in Edits : Edit(what)
  BY DEF Edit
<1>5. ~ \E s \in Submissions : Expire(s)
  BY DEF Expire, session
<1>6. ~ \E o \in Operations :
          Submit(o) \/ BeginRead(o) \/ BeginApprove(o) \/ BeginReject(o)
  BY DEF Submit, BeginRead, BeginApprove, BeginReject, Begin, session
<1>7. ~ \E goal \in {"remove", "clear", "disconnect", "release"} : BeginTerminate(goal)
  BY DEF BeginTerminate, BeginAll, session
<1>8. CASE Continue
  <2>1. ~(SaveDelivery \/ Tidy \/ Refuse \/ Retire \/ Claim \/ SaveApproved \/ Handoff)
    BY DEF SaveDelivery, Tidy, Refuse, Retire, Claim, SaveApproved, Handoff, session
  <2>2. ~(Authorize \/ Commit \/ Publish \/ Ack \/ Fail \/ Nack \/ Drop)
    BY DEF Authorize, Commit, Publish, Ack, Fail, Nack, Drop, Answered, session
  <2>3. ~(AllVisited \/ AllForgotten \/ RemoveItem \/ Disconnect \/ Released)
    BY DEF AllVisited, AllForgotten, RemoveItem, Disconnect, Released, session
  <2>4. ~ \E o \in Operations :
            Visit(o) \/ RejectDelivered(o) \/ ForgetDelivered(o) \/ DeliveryStays(o)
    BY DEF Visit, RejectDelivered, ForgetDelivered, DeliveryStays, session
  <2> QED  BY <1>8, <2>1, <2>2, <2>3, <2>4 DEF Continue
<1> QED  BY <1>1, <1>2, <1>3, <1>4, <1>5, <1>6, <1>7, <1>8 DEF Next

\* The session is changed for an agent only for a proposal the user approved on
\* the page and document that is still shown, within its time, and which the
\* bridge has not settled: whatever happened between the approval and the write.
THEOREM ExecutedAsApproved == Spec => AppliedAsApproved
<1>1. ASSUME IInv, [Next]_vars, NEW s \in Submissions, applied'[s] # applied[s]
      PROVE  /\ exec[s[2]].phase = "approved"
             /\ exec[s[2]].gen = s[1]
             /\ exec[s[2]].doc = document
             /\ s \notin late
             /\ status[s] \in {"claimed", "gone"}
             /\ item.state = asked[s]
  <2>1. Write
    BY <1>1, OnlyWriteApplies
  <2>2. task.step = "write" /\ task.step \in Carrying
    BY <2>1 DEF Write, At, Carrying
  <2>3. /\ Subject \in Submissions /\ item.state = asked[Subject]
        /\ exec[task.op].phase = "approved" /\ status[Subject] \in Claims
    BY <1>1, <2>2, NotAppliedYet
  <2>4. /\ lease = task.doc /\ Subject \notin late
        /\ applied' = [applied EXCEPT ![Subject] = @ + 1]
    BY <1>1, <2>1 DEF Write, session
  <2>5. s = Subject
    BY <1>1, <2>4 DEF IInv, TypeOK
  <2>6. exec[task.op].gen = task.gen /\ exec[task.op].doc = task.doc
        /\ ExecutionOK(task.op, exec[task.op])
    BY <1>1, <2>2, CarryingFacts
  <2>7. exec[task.op].doc = document
    <3>1. task.doc # 0
      BY <2>3, <2>6 DEF ExecutionOK
    <3> QED  BY <1>1, <2>4, <2>6, <3>1 DEF IInv, TypeOK
  <2>8. status[Subject] # "lapsed"
    BY <1>1, <2>3, <2>4 DEF IInv, BridgeOK
  <2> QED  BY <2>3, <2>4, <2>5, <2>6, <2>7, <2>8 DEF Subject, Claims
<1>2. IInv /\ [Next]_vars =>
        [\A s \in Submissions : applied'[s] # applied[s] =>
           /\ exec[s[2]].phase = "approved"
           /\ exec[s[2]].gen = s[1]
           /\ exec[s[2]].doc = document
           /\ s \notin late
           /\ status[s] \in {"claimed", "gone"}
           /\ item.state = asked[s]]_vars
  BY <1>1
<1> QED  BY <1>2, ExecutionInvariant, PTL DEF Spec, AppliedAsApproved

\* What can change an execution record.
LEMMA ExecutionChanges ==
  ASSUME [Next]_vars, exec' # exec
  PROVE  SaveApproved \/ Commit \/ Fail \/ Drop \/ BrowserRestarts
<1>1. UNCHANGED vars => exec' = exec
  BY DEF vars, records
<1>2. CASE Pair \/ Unpair \/ Share \/ Navigate \/ ChangeLease
  BY <1>2 DEF Pair, Unpair, Share, Navigate, ChangeLease, records
<1>3. ~(WorkerDies \/ CallFails \/ ReadNothing \/ BeginRecover)
  BY DEF WorkerDies, CallFails, ReadNothing, BeginRecover, BeginAll, records
<1>4. ~ \E what \in Edits : Edit(what)
  BY DEF Edit, records
<1>5. ~ \E s \in Submissions : Expire(s)
  BY DEF Expire, records
<1>6. ~ \E o \in Operations :
          Submit(o) \/ BeginRead(o) \/ BeginApprove(o) \/ BeginReject(o)
  BY DEF Submit, BeginRead, BeginApprove, BeginReject, Begin, records
<1>7. ~ \E goal \in {"remove", "clear", "disconnect", "release"} : BeginTerminate(goal)
  BY DEF BeginTerminate, BeginAll, records
<1>8. ASSUME Continue PROVE SaveApproved \/ Commit \/ Fail \/ Drop
  <2>1. ~(SaveDelivery \/ Tidy \/ Refuse \/ Retire \/ Claim \/ Handoff)
    BY DEF SaveDelivery, Tidy, Refuse, Retire, Claim, Handoff, records
  <2>2. ~(Authorize \/ Write \/ Publish \/ Ack \/ Nack)
    BY DEF Authorize, Write, Publish, Ack, Nack, Answered, records
  <2>3. ~(AllVisited \/ AllForgotten \/ RemoveItem \/ Disconnect \/ Released)
    BY DEF AllVisited, AllForgotten, RemoveItem, Disconnect, Released, records
  <2>4. ~ \E o \in Operations :
            Visit(o) \/ RejectDelivered(o) \/ ForgetDelivered(o) \/ DeliveryStays(o)
    BY DEF Visit, RejectDelivered, ForgetDelivered, DeliveryStays, records
  <2> QED  BY <1>8, <2>1, <2>2, <2>3, <2>4 DEF Continue
<1> QED  BY <1>1, <1>2, <1>3, <1>4, <1>5, <1>6, <1>7, <1>8 DEF Next

\* As long as a change shows and its agent waits for the answer, its record is
\* given up by nothing but a restart of the browser.
THEOREM ExecutedNotForgotten == Spec => AppliedNotForgotten
<1>1. ASSUME IInv, [Next]_vars, NEW s \in Submissions,
             InEffect(s), status[s] \in {"claimed", "lapsed"},
             exec[s[2]].gen = s[1], exec'[s[2]] = NoExec
      PROVE  BrowserRestarts
  <2>1. s = <<s[1], s[2]>> /\ s[1] # 0 /\ s[2] \in Operations
    BY DEF Submissions, Connections
  <2>2. exec' # exec /\ exec[s[2]] # NoExec
    BY <1>1, <2>1 DEF NoExec
  <2>3. exec[s[2]].phase # "none"
    BY <1>1, <2>1, <2>2 DEF IInv, ExecOK, ExecutionOK
  <2>4. SaveApproved \/ Commit \/ Fail \/ Drop \/ BrowserRestarts
    BY <1>1, <2>2, ExecutionChanges
  <2>5. ~SaveApproved
    <3>1. ASSUME SaveApproved
          PROVE  exec' = exec \/ (exec[task.op] = NoExec /\ \E r \in {exec'[task.op]} :
                                    exec' = [exec EXCEPT ![task.op] = r] /\ r.phase # "none")
      <4>1. task.op \in Operations
        BY <1>1, <3>1, SubjectTyped DEF SaveApproved, At
      <4> QED  BY <1>1, <3>1, <4>1 DEF SaveApproved, NoExec, IInv, TypeOK
    <3> QED  BY <1>1, <2>1, <2>2, <3>1 DEF IInv, TypeOK
  <2>6. ~Commit
    <3>1. ASSUME Commit PROVE exec'[s[2]].phase # "none"
      <4>1. exec[s[2]] \in Exec
        BY <1>1, <2>1 DEF IInv, TypeOK
      <4>2. exec' = [exec EXCEPT ![task.op] = [exec[task.op] EXCEPT
                       !.phase = "committed", !.at = ledger[task.op].at]]
        BY <3>1 DEF Commit
      <4>3. CASE s[2] # task.op
        BY <1>1, <2>1, <2>3, <4>2, <4>3 DEF IInv, TypeOK
      <4>4. CASE s[2] = task.op
        <5>1. exec'[s[2]] = [exec[s[2]] EXCEPT !.phase = "committed",
                                               !.at = ledger[task.op].at]
          BY <1>1, <2>1, <4>2, <4>4 DEF IInv, TypeOK
        <5> QED  BY <4>1, <5>1 DEF Exec
      <4> QED  BY <4>3, <4>4
    <3> QED  BY <1>1, <3>1 DEF NoExec
  <2>7. ~Fail
    <3>1. ASSUME Fail PROVE exec'[s[2]].phase # "none"
      <4>1. exec[s[2]] \in Exec
        BY <1>1, <2>1 DEF IInv, TypeOK
      <4>2. \/ exec' = exec
            \/ exec' = [exec EXCEPT ![task.op] = [exec[task.op] EXCEPT
                          !.phase = "terminal", !.outcome = task.failure]]
        BY <3>1 DEF Fail
      <4>3. CASE s[2] # task.op
        BY <1>1, <2>1, <2>3, <4>2, <4>3 DEF IInv, TypeOK
      <4>4. CASE s[2] = task.op
        <5>1. exec'[s[2]] = exec[s[2]] \/ exec'[s[2]] = [exec[s[2]] EXCEPT
                                !.phase = "terminal", !.outcome = task.failure]
          BY <1>1, <2>1, <4>2, <4>4 DEF IInv, TypeOK
        <5> QED  BY <2>3, <4>1, <5>1 DEF Exec
      <4> QED  BY <4>3, <4>4
    <3> QED  BY <1>1, <3>1 DEF NoExec
  <2>8. ~Drop
    <3>1. ASSUME Drop PROVE FALSE
      <4>1. task.step = "drop" /\ task.step \in Carrying
        BY <3>1 DEF Drop, At, Carrying
      <4>2. exec[task.op].gen = task.gen /\ task.op \in Operations
        BY <1>1, <4>1, CarryingFacts
      <4>3. s[2] = task.op
        BY <1>1, <2>1, <2>2, <3>1, <4>2 DEF Drop, IInv, TypeOK
      <4>4. s = Subject
        BY <1>1, <2>1, <4>2, <4>3 DEF Subject
      <4>5. ~InEffect(Subject) \/ status[Subject] \in Settled
        BY <1>1, <4>1 DEF IInv, CarryingOK
      <4> QED  BY <1>1, <4>4, <4>5 DEF Settled, Outcomes
    <3> QED  BY <3>1
  <2> QED  BY <2>4, <2>5, <2>6, <2>7, <2>8
<1>2. IInv /\ [Next]_vars =>
        [\A s \in Submissions :
           /\ InEffect(s)
           /\ status[s] \in {"claimed", "lapsed"}
           /\ exec[s[2]].gen = s[1]
           /\ exec'[s[2]] = NoExec
           => BrowserRestarts]_vars
  BY <1>1
<1> QED  BY <1>2, ExecutionInvariant, PTL DEF Spec, AppliedNotForgotten
=============================================================================
