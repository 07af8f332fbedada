-------------------------- MODULE BridgeConnection --------------------------
(***************************************************************************)
(* The connection between the extension and the local bridge: the          *)
(* invitation an agent accepts, the snapshots the extension shares, the    *)
(* clears that withdraw them, and the agent's confirmation that it read    *)
(* one.  The extension keeps its side in chrome.storage.session behind one *)
(* lock (`op' is the operation that holds it); reading the status needs no *)
(* lock (`status').  The bridge keeps its side in memory, and handles a    *)
(* request the client gave up on before the next one or never.             *)
(***************************************************************************)
EXTENDS Integers, FiniteSets

CONSTANTS Versions,       \* what there is to share, all of one capture
          ConnRequests,   \* 1..n: the invitations
          MaxBrowserSessions,  \* browser session identities the client may draw
          MaxSequence,    \* snapshots shared over one connection
          MaxApprovals,   \* credentials the bridge may issue
          MaxConnFaults   \* lost requests, lost answers, restarts

ASSUME ConnectionBounds ==
  /\ "none" \notin Versions /\ ConnRequests \subseteq Nat \ {0}
  /\ MaxBrowserSessions \in Nat /\ MaxSequence \in Nat
  /\ MaxApprovals \in Nat /\ MaxConnFaults \in Nat

VARIABLES
  client,   \* LocalAgentBridgeSessionState
  op,       \* the operation under the session lock and its next request
  status,   \* a readStatus on its way
  due,      \* the session storage changed, or the worker started
  alarm,    \* the refresh alarm is set
  inst,     \* the bridge's instance of this extension
  reqs,     \* its connection requests
  trusts,   \* its browserSessionTrust
  dead,     \* the invitations whose time is over
  agent,    \* the snapshot an agent read and has not confirmed
  wanted,   \* what the user shared since the last clear
  told,     \* the last confirmation the user was shown
  issued, faults

extension == <<client, op, status, due, alarm>>
bridge == <<inst, reqs, trusts>>
others == <<dead, agent, wanted, told>>
counts == <<issued, faults>>
connectionVars == <<extension, bridge, others, counts>>

None == "none"
Contents == Versions \cup {None}
Modes == {"ask", "browser_session"}

Snapshots == [latest : Contents, panel : Contents, own : Contents, source : {"panel", "session", None},
              shared : Contents, whole : BOOLEAN]
Nothing == [latest |-> None, panel |-> None, own |-> None, source |-> None,
            shared |-> None, whole |-> FALSE]

Fresh(s) == [session |-> s, trust |-> 0, pending |-> 0, mode |-> "ask", token |-> 0,
             seq |-> 0, cap |-> "unknown", snap |-> Nothing, clear |-> FALSE]

NoInstance == [token |-> 0, session |-> 0, seq |-> 0, of |-> None, whole |-> FALSE, ack |-> None]
NoRequest == [status |-> None, mode |-> "ask", session |-> 0, token |-> 0,
              trust |-> 0, proof |-> 0, delivered |-> FALSE]
NoOperation == [at |-> "idle", does |-> None, token |-> 0, req |-> 0, of |-> None]
NoRead == [of |-> None, seq |-> 0, token |-> 0]
NoStatus == [at |-> "idle", token |-> 0, got |-> None, seq |-> 0, saves |-> Fresh(0)]

ConnectionTypeOK ==
  /\ client.session \in Nat /\ client.trust \in Nat /\ client.token \in Nat
  /\ client.pending \in ConnRequests \cup {0} /\ client.mode \in Modes
  /\ client.seq \in Nat /\ client.cap \in {"unknown", "whole", "reduced"}
  /\ client.snap \in Snapshots /\ client.clear \in BOOLEAN
  /\ op.at \in {"idle", "ask", "poll", "refreshed", "put", "beat", "delete", "read"}
  /\ op.does \in {None, "create", "refresh", "tick", "publish", "clear", "disconnect"}
  /\ op.token \in Nat /\ op.of \in Contents
  /\ status.at \in {"idle", "get", "answered", "save"}
  /\ due \in BOOLEAN /\ alarm \in BOOLEAN
  /\ inst.token \in Nat /\ inst.of \in Contents /\ inst.ack \in Contents \cup {"late"}
  /\ DOMAIN reqs = ConnRequests
  /\ \A r \in ConnRequests : reqs[r].status \in {None, "pending", "approved"}
  /\ dead \subseteq ConnRequests /\ wanted \subseteq Versions
  /\ issued \in 0..MaxApprovals /\ faults \in 0..MaxConnFaults

ConnectionInit ==
  /\ client = Fresh(1) /\ op = NoOperation /\ status = NoStatus
  /\ due = FALSE /\ alarm = FALSE
  /\ inst = NoInstance /\ reqs = [r \in ConnRequests |-> NoRequest]
  /\ trusts = [s \in 1..MaxBrowserSessions |-> 0]
  /\ dead = {} /\ agent = NoRead /\ wanted = {}
  /\ told = [read |-> None, shared |-> None]
  /\ issued = 0 /\ faults = 0

-----------------------------------------------------------------------------
(* The extension's stored state.                                           *)

\* Every save is seen by the background's storage listener.
Save(c) == client' = c /\ due' = (due \/ c # client)

Connected == client.token # 0

\* clearSessionCredentials: what is left of a connection that is over.
WithoutCredentials(c, keepTrust, keepClear) ==
  [Fresh(c.session) EXCEPT !.trust = IF keepTrust THEN c.trust ELSE 0,
                           !.clear = keepClear /\ c.clear]
Rotated(c, keepClear) ==
  [Fresh(c.session + 1) EXCEPT !.clear = keepClear /\ c.clear]

\* The tombstone of a clear: nothing is left to share, and the bridge is owed
\* the news.
Tombstone(c) == [c EXCEPT !.snap = Nothing, !.clear = TRUE]

\* scheduleFromStatus: the alarm runs while a request or a connection stands.
Schedules(c) == c.pending # 0 \/ c.token # 0

-----------------------------------------------------------------------------
(* The bridge's answers.  A request is lost on its way, handled with its   *)
(* answer lost, or handled and answered before the client's timer runs out.*)

Expired == {r \in dead : reqs[r].status # None}

\* pruneExpiredConnectionRequests, and the requests of R with it.
Pruned(R) ==
  LET gone == Expired \cup R
      lost == {r \in gone : reqs[r].status = "approved" /\ ~reqs[r].delivered}
  IN [inst |-> IF \E r \in lost : reqs[r].token = inst.token THEN NoInstance ELSE inst,
      reqs |-> [r \in ConnRequests |-> IF r \in gone THEN NoRequest ELSE reqs[r]],
      trusts |-> [s \in DOMAIN trusts |->
                    IF \E r \in lost : reqs[r].session = s THEN 0 ELSE trusts[s]]]

\* approveConnectionRecord: an instance with a new token replaces the last one.
Approved(b, r, proof, trust) ==
  LET q == b.reqs[r]
      key == IF q.mode = "ask" THEN 0 ELSE IF trust # 0 THEN trust ELSE issued + 1
  IN [inst |-> [NoInstance EXCEPT !.token = issued + 1, !.session = q.session],
      reqs |-> [b.reqs EXCEPT ![r] = [q EXCEPT !.status = "approved", !.token = issued + 1,
                                              !.trust = key, !.proof = proof]],
      trusts |-> IF q.mode = "ask" THEN b.trusts ELSE [b.trusts EXCEPT ![q.session] = key]]

Holds(b) == inst' = b.inst /\ reqs' = b.reqs /\ trusts' = b.trusts

Fault == faults < MaxConnFaults /\ faults' = faults + 1

\* One request of the client: the bridge's Effect, and what the client does
\* with the answer or without one.
Exchange(Effect, Answered, Unanswered) ==
  \/ Effect /\ Answered /\ UNCHANGED faults
  \/ Effect /\ Unanswered /\ Fault
  \/ UNCHANGED <<bridge, issued>> /\ Unanswered /\ Fault

Authorized == op.token # 0 /\ op.token = inst.token

\* The operation that holds the lock is over, and gave the lock back.
Done == op' = NoOperation

\* An alarm's operation ends with its status, and so with the next alarm; one
\* that throws ends with closeIdleState.
Reports(c) == /\ Done
              /\ alarm' = IF op.does = "tick" THEN Schedules(c) ELSE alarm
Throws == Done /\ alarm' = (alarm /\ op.does # "tick")

\* A 401 ends the connection it was sent for.
Denied(c) == IF c.token = op.token THEN WithoutCredentials(c, TRUE, TRUE) ELSE c

-----------------------------------------------------------------------------
(* createConnectionRequest.                                                *)

CreateConnectionRequest(mode) ==
  LET standing == IF client.pending \in dead THEN [client EXCEPT !.pending = 0] ELSE client
      forgets == mode = "ask" /\ standing.trust # 0
  IN /\ op = NoOperation /\ client.token = 0 /\ standing.pending = 0
     /\ client.session + 1 < MaxBrowserSessions
     /\ \E r \in ConnRequests : /\ reqs[r].status = None /\ r \notin dead
                                /\ \A q \in ConnRequests : q < r => q \in dead \/ reqs[q].status # None
     /\ Save([(IF forgets THEN Rotated(standing, TRUE) ELSE standing) EXCEPT !.mode = mode])
     /\ op' = [NoOperation EXCEPT !.at = "ask", !.does = "create"]
     /\ UNCHANGED <<status, alarm, bridge, others, counts>>

\* The bridge's createConnectionRequest: one request of a browser session at a
\* time; a browser session it trusts is approved at once.
Requested(r) ==
  LET same == {q \in ConnRequests : reqs[q].status # None /\ reqs[q].session = client.session}
      b == Pruned(same)
      q == [NoRequest EXCEPT !.status = "pending", !.mode = client.mode,
                             !.session = client.session]
      made == [b EXCEPT !.reqs[r] = q]
      trust == b.trusts[client.session]
  IN IF client.mode = "browser_session" /\ trust # 0 /\ issued < MaxApprovals
     THEN Holds(Approved(made, r, trust, trust)) /\ issued' = issued + 1
     ELSE Holds(made) /\ UNCHANGED issued

Ask(r) ==
  /\ op.at = "ask"
  /\ reqs[r].status = None /\ r \notin dead
  /\ \A q \in ConnRequests : q < r => q \in dead \/ reqs[q].status # None
  /\ client.mode = "browser_session" /\ trusts[client.session] # 0 => issued < MaxApprovals
  /\ Exchange(Requested(r),
             /\ Save([client EXCEPT !.pending = r])
             /\ IF reqs'[r].status = "approved" THEN op' = [op EXCEPT !.at = "poll", !.req = r]
                                                ELSE Done,
             Save(Rotated(client, TRUE)) /\ Done)
  /\ UNCHANGED <<status, alarm, others>>

-----------------------------------------------------------------------------
(* refreshConnection, and the alarm's refreshConnectionAndHeartbeat.       *)

Refresh(does) ==
  /\ op' = [NoOperation EXCEPT !.at = IF client.pending # 0 THEN "poll" ELSE "refreshed",
                        !.does = does, !.req = client.pending]
  /\ UNCHANGED <<client, status, due, bridge, others, counts>>

RefreshConnection == op = NoOperation /\ Schedules(client) /\ Refresh("refresh") /\ UNCHANGED alarm

HandleAlarm == alarm /\ op = NoOperation /\ alarm' = FALSE /\ Refresh("tick")

\* The token is taken when its approval is proved with a key the client knows.
Proved(q) == q.proof = 0 \/ q.proof = client.trust
WithToken(q) == [client EXCEPT !.pending = 0, !.token = q.token, !.seq = 0,
                               !.trust = q.trust, !.cap = "unknown", !.snap.shared = None,
                               !.snap.whole = FALSE]

\* readConnectionRequest, and refreshConnectionInternal with its answer.
PollRequest ==
  LET r == op.req
      b == Pruned({})
      q == b.reqs[r]
      collected == IF q.status = "approved" THEN [b EXCEPT !.reqs[r].delivered = TRUE] ELSE b
      taken == q.status = "approved" /\ Proved(q)
  IN /\ op.at = "poll"
     /\ Exchange(Holds(collected) /\ UNCHANGED issued,
                CASE q.status = None -> /\ Save(WithoutCredentials(client, TRUE, TRUE))
                                        /\ op' = [op EXCEPT !.at = "refreshed"]
                                        /\ UNCHANGED alarm
                  [] q.status = "pending" \/ (taken /\ client.pending # r) -> /\ op' = [op EXCEPT !.at = "refreshed"]
                                                                              /\ UNCHANGED <<client, due, alarm>>
                  [] taken /\ client.pending = r -> /\ Save(WithToken(q))
                                                    /\ op' = [op EXCEPT !.at = "refreshed"]
                                                    /\ UNCHANGED alarm
                  [] OTHER -> Throws /\ UNCHANGED <<client, due>>,
                op' = [op EXCEPT !.at = "refreshed"] /\ UNCHANGED <<client, due, alarm>>)
     /\ UNCHANGED <<status, others>>

\* MUTANT of Owes: the refresh does not look at the clear.
OwesNoClear(c) ==
  IF c.token = 0 \/ op.does # "tick" THEN "read"
  ELSE IF c.snap.latest # None /\ ~(c.snap.latest = c.snap.shared /\ c.snap.whole) THEN "put"
  ELSE "beat"

\* What the state read after the refresh asks for: a clear that is owed first,
\* for an alarm then what is desired and not shared, or a sign of life.
Owes(c) ==
  IF c.token = 0 THEN "read"
  ELSE IF c.clear THEN "delete"
  ELSE IF op.does # "tick" THEN "read"
  ELSE IF c.snap.latest # None /\ ~(c.snap.latest = c.snap.shared /\ c.snap.whole) THEN "put"
  ELSE "beat"

Refreshed ==
  /\ op.at = "refreshed"
  /\ op' = [op EXCEPT !.at = Owes(client), !.token = client.token, !.of = client.snap.latest]
  /\ UNCHANGED <<client, status, due, alarm, bridge, others, counts>>

\* The read of the confirmation with which a refresh ends.
ReadConfirmation ==
  /\ op.at = "read"
  /\ Reports(client)
  /\ UNCHANGED <<client, status, due, bridge, others, counts>>

\* publishInternal from its capability probe on: the state is read again, and
\* a connection that changed or a clear that came in between ends it.
Published(c) == [c EXCEPT !.seq = c.seq + 1, !.snap.shared = op.of,
                          !.snap.whole = c.cap = "whole"]
Accepts == Authorized /\ (inst.of = None \/ client.seq + 1 > inst.seq)
Publishes == inst' = IF Accepts THEN [inst EXCEPT !.of = op.of, !.seq = client.seq + 1, !.ack = None,
                                                  !.whole = client.cap = "whole"]
                     ELSE inst

Unchanged == /\ client.snap.shared = op.of
             /\ client.snap.whole = (client.cap = "whole")

\* The probe of what the bridge understands, when that is not known yet.
ProbeCapability ==
  /\ op.at = "put" /\ client.cap = "unknown"
  /\ \E cap \in IF Authorized THEN {"whole", "reduced"} ELSE {} : Save([client EXCEPT !.cap = cap])
  /\ UNCHANGED <<op, status, alarm, bridge, others, counts>>

Withdrawn == client.token # op.token \/ client.clear

Put ==
  /\ op.at = "put"
  /\ \/ /\ Withdrawn \/ Unchanged
        /\ op' = IF op.does # "tick" THEN NoOperation
                 ELSE [op EXCEPT !.at = IF Withdrawn THEN "read" ELSE "beat"]
        /\ UNCHANGED <<client, due, bridge, counts>>
     \/ /\ ~Withdrawn /\ ~Unchanged
        /\ Exchange(Publishes /\ UNCHANGED <<reqs, trusts, issued>>,
                   IF ~Authorized THEN Save(Denied(client))
                   ELSE IF Accepts THEN Save(Published(client)) ELSE UNCHANGED <<client, due>>,
                   UNCHANGED <<client, due>>)
        /\ op' = IF op.does = "tick" THEN [op EXCEPT !.at = "read"] ELSE NoOperation
  /\ UNCHANGED <<status, alarm, others>>

\* heartbeatInternal.
Beat ==
  /\ op.at = "beat"
  /\ Exchange(UNCHANGED <<bridge, issued>>,
             IF Authorized THEN UNCHANGED <<client, due>> ELSE Save(Denied(client)),
             UNCHANGED <<client, due>>)
  /\ op' = [op EXCEPT !.at = "read"]
  /\ UNCHANGED <<status, alarm, others>>

\* clearSharedCaptureInternal: the tombstone goes when the bridge answered.
Cleared(c) == [c EXCEPT !.snap = Nothing, !.clear = FALSE]
Clears == inst' = IF Authorized THEN [inst EXCEPT !.of = None, !.seq = 0, !.ack = None] ELSE inst

\* MUTANT of Delete: a request that failed counts as done.
DeleteOnce ==
  /\ op.at = "delete"
  /\ Exchange(Clears /\ UNCHANGED <<reqs, trusts, issued>>,
              IF ~Authorized THEN Save(Denied(client))
              ELSE IF client.token = op.token THEN Save(Cleared(client)) ELSE UNCHANGED <<client, due>>,
              Save(Cleared(client)))
  /\ op' = IF op.does = "clear" THEN NoOperation ELSE [op EXCEPT !.at = "read"]
  /\ UNCHANGED <<status, alarm, others>>

Delete ==
  /\ op.at = "delete"
  /\ Exchange(Clears /\ UNCHANGED <<reqs, trusts, issued>>,
             IF ~Authorized THEN Save(Denied(client))
             ELSE IF client.token = op.token THEN Save(Cleared(client)) ELSE UNCHANGED <<client, due>>,
             UNCHANGED <<client, due>>)
  /\ op' = IF op.does = "clear" THEN NoOperation ELSE [op EXCEPT !.at = "read"]
  /\ UNCHANGED <<status, alarm, others>>

-----------------------------------------------------------------------------
(* What the panel and the session publisher share, and what they withdraw. *)

Sends(at, does, of) == op' = IF at = "idle" \/ ~Connected THEN NoOperation
                       ELSE [at |-> at, does |-> does, token |-> client.token, req |-> 0, of |-> of]

\* publish and publishSessionContext: with the other channel showing the same
\* capture, the panel's share keeps the session's words.
Publish(source, v) ==
  /\ op = NoOperation /\ Schedules(client) /\ ~client.clear /\ client.seq < MaxSequence
  /\ \E latest \in IF source = "panel" /\ client.snap.own # None THEN {v, client.snap.own} ELSE {v} :
       /\ Save([client EXCEPT !.snap = [client.snap EXCEPT !.latest = latest, !.source = source,
                  !.panel = IF source = "panel" THEN latest ELSE client.snap.panel,
                  !.own = IF source = "session" THEN v ELSE client.snap.own]])
       /\ Sends("put", "publish", latest)
  /\ wanted' = wanted \cup {v}
  /\ UNCHANGED <<status, alarm, bridge, dead, agent, told, counts>>

\* clearSessionContext and clearPanelContext: a channel that is not the active
\* one just goes; else the other one takes over, or everything is withdrawn.
Withdraw(source) ==
  LET mine == IF source = "panel" THEN "panel" ELSE "session"
      rest == IF source = "panel" THEN client.snap.own ELSE client.snap.panel
      without == [client EXCEPT !.snap = [client.snap EXCEPT
                    !.panel = IF source = "panel" THEN None ELSE client.snap.panel,
                    !.own = IF source = "panel" THEN client.snap.own ELSE None]]
      back == IF source = "panel" THEN "session" ELSE "panel"
  IN /\ op = NoOperation
     /\ \/ /\ client.snap.source # mine
           /\ Save(without) /\ Done /\ UNCHANGED wanted
        \/ /\ client.snap.source = mine /\ rest # None
           /\ Save([without EXCEPT !.snap.latest = rest, !.snap.source = back])
           /\ Sends("put", "publish", rest) /\ UNCHANGED wanted
        \/ /\ client.snap.source = mine /\ rest = None
           /\ Save(Tombstone(client))
           /\ Sends("delete", "clear", None) /\ wanted' = {}
     /\ UNCHANGED <<status, alarm, bridge, dead, agent, told, counts>>

ClearSharedCapture ==
  /\ op = NoOperation
  /\ Save(Tombstone(client))
  /\ Sends("delete", "clear", None)
  /\ wanted' = {}
  /\ UNCHANGED <<status, alarm, bridge, dead, agent, told, counts>>

\* disconnect: the credentials go first, the bridge is told once.
Revoked(r) ==
  LET b == Pruned({})
      q == b.reqs[r]
  IN IF q.status = None THEN b
     ELSE [inst |-> IF q.token # 0 /\ q.token = b.inst.token THEN NoInstance ELSE b.inst,
           reqs |-> [b.reqs EXCEPT ![r] = NoRequest],
           trusts |-> [b.trusts EXCEPT ![q.session] = 0]]
Disconnected ==
  IF Connected /\ client.token = inst.token
  THEN [inst |-> NoInstance,
        reqs |-> [r \in ConnRequests |-> IF reqs[r].session = inst.session THEN NoRequest ELSE reqs[r]],
        trusts |-> [trusts EXCEPT ![inst.session] = 0]]
  ELSE IF ~Connected /\ client.pending # 0 THEN Revoked(client.pending)
  ELSE [inst |-> inst, reqs |-> reqs, trusts |-> trusts]

Disconnect ==
  /\ op = NoOperation /\ client.session < MaxBrowserSessions
  /\ Save(Rotated(client, FALSE))
  /\ Exchange(Holds(Disconnected) /\ UNCHANGED issued, Done, Done)
  /\ UNCHANGED <<status, alarm, others>>

-----------------------------------------------------------------------------
(* readStatus, with no lock: the state, the bridge's answer, the state      *)
(* again.                                                                   *)

ReadStatus ==
  /\ status.at = "idle" /\ Connected /\ client.snap.shared # None /\ client.snap.whole
  /\ status' = [NoStatus EXCEPT !.at = "get", !.token = client.token]
  /\ UNCHANGED <<client, op, due, alarm, bridge, others, counts>>

\* readCaptureReadAcknowledgement: the confirmation of the snapshot it holds.
Acknowledgement ==
  /\ status.at = "get"
  /\ \/ /\ status' = [status EXCEPT !.at = "answered", !.seq = inst.seq,
                      !.got = IF status.token # inst.token THEN "denied" ELSE inst.ack]
        /\ UNCHANGED faults
     \/ status' = NoStatus /\ Fault
  /\ UNCHANGED <<client, op, due, alarm, bridge, others, issued>>

\* MUTANT of FinishStatus: the sequence the answer names is not compared.
FinishStatusAny ==
  /\ status.at = "answered"
  /\ IF status.got = "denied" /\ client.token = status.token
     THEN /\ status' = [status EXCEPT !.at = "save", !.saves = WithoutCredentials(client, TRUE, TRUE)]
          /\ UNCHANGED told
     ELSE /\ status' = NoStatus
          /\ told' = IF /\ status.got \notin {"denied", None}
                        /\ client.token = status.token /\ client.snap.whole
                        /\ client.snap.shared # None
                     THEN [read |-> status.got, shared |-> client.snap.shared] ELSE told
  /\ UNCHANGED <<client, op, due, alarm, bridge, dead, agent, wanted, counts>>

FinishStatus ==
  /\ status.at = "answered"
  /\ IF status.got = "denied" /\ client.token = status.token
     THEN /\ status' = [status EXCEPT !.at = "save", !.saves = WithoutCredentials(client, TRUE, TRUE)]
          /\ UNCHANGED told
     ELSE /\ status' = NoStatus
          /\ told' = IF /\ status.got \notin {"denied", None}
                        /\ client.token = status.token /\ client.snap.whole
                        /\ client.snap.shared # None /\ client.seq = status.seq
                     THEN [read |-> status.got, shared |-> client.snap.shared] ELSE told
  /\ UNCHANGED <<client, op, due, alarm, bridge, dead, agent, wanted, counts>>

SaveStatus ==
  /\ status.at = "save"
  /\ Save(status.saves)
  /\ status' = NoStatus
  /\ UNCHANGED <<op, alarm, bridge, others, counts>>

\* The background's listener reads the status too, between its alarms.
HandleStorageChanged ==
  /\ due /\ op.does # "tick"
  /\ due' = FALSE /\ alarm' = Schedules(client)
  /\ UNCHANGED <<client, op, status, bridge, others, counts>>

\* The worker dies with what it was doing; its next start reads the status.
WorkerRestarts ==
  /\ Fault
  /\ op' = NoOperation /\ status' = NoStatus /\ due' = TRUE
  /\ UNCHANGED <<client, alarm, bridge, others, issued>>

-----------------------------------------------------------------------------
(* The agent's side.                                                       *)

\* approveConnectionRequest with the invitation's own key.
ApproveConnectionRequest(r) ==
  LET b == Pruned({})
  IN /\ b.reqs[r].status # None /\ issued < MaxApprovals
     /\ IF b.reqs[r].status = "pending"
        THEN Holds(Approved(b, r, 0, 0)) /\ issued' = issued + 1
        ELSE Holds(b) /\ UNCHANGED issued
     /\ UNCHANGED <<extension, others, faults>>

\* The fifth wrong key revokes the request.
RejectConnectionApproval(r) ==
  /\ reqs[r].status # None
  /\ Fault
  /\ Holds(Revoked(r))
  /\ UNCHANGED <<extension, others, issued>>

RequestExpires(r) ==
  /\ reqs[r].status # None \/ client.pending = r
  /\ r \notin dead
  /\ dead' = dead \cup {r}
  /\ UNCHANGED <<extension, bridge, agent, wanted, told, counts>>

ReadCapture ==
  /\ inst.of # None /\ inst.whole
  /\ agent' = [of |-> inst.of, seq |-> inst.seq, token |-> inst.token]
  /\ UNCHANGED <<extension, bridge, dead, wanted, told, counts>>

\* acknowledgeCaptureRead: it names the instance, the capture and the sequence,
\* none of which tells one connection from the next.
AcknowledgeCaptureRead ==
  /\ agent.of # None
  /\ agent' = NoRead
  /\ inst' = IF inst.of # None /\ inst.whole /\ inst.seq = agent.seq
             THEN [inst EXCEPT !.ack = IF agent.token = inst.token THEN agent.of ELSE "late"]
             ELSE inst
  /\ UNCHANGED <<extension, reqs, trusts, dead, wanted, told, counts>>

BridgeRestarts ==
  /\ Fault
  /\ inst' = NoInstance
  /\ reqs' = [r \in ConnRequests |-> NoRequest]
  /\ trusts' = [s \in DOMAIN trusts |-> 0]
  /\ UNCHANGED <<extension, others, issued>>

-----------------------------------------------------------------------------

ConnectionWork ==
  \/ \E r \in ConnRequests : Ask(r)
  \/ PollRequest \/ Refreshed \/ ReadConfirmation \/ Put \/ Beat \/ Delete

ConnectionNext ==
  \/ ConnectionWork \/ ProbeCapability
  \/ \E mode \in Modes : CreateConnectionRequest(mode)
  \/ RefreshConnection \/ HandleAlarm
  \/ \E source \in {"panel", "session"} :
       Withdraw(source) \/ \E v \in Versions : Publish(source, v)
  \/ ClearSharedCapture \/ Disconnect
  \/ ReadStatus \/ Acknowledgement \/ FinishStatus \/ SaveStatus
  \/ HandleStorageChanged \/ WorkerRestarts
  \/ \E r \in ConnRequests :
       ApproveConnectionRequest(r) \/ RejectConnectionApproval(r) \/ RequestExpires(r)
  \/ ReadCapture \/ AcknowledgeCaptureRead \/ BridgeRestarts

ConnectionSpec == ConnectionInit /\ [][ConnectionNext]_connectionVars

\* What a clear withdrew is not on the bridge again unless the user shared it
\* again, whatever requests and answers were lost: a clear that is not owed any
\* more has reached the bridge (local-agent-bridge.ts:1162, :616).
ClearHolds ==
  Connected /\ client.token = inst.token /\ ~client.clear => inst.of \in wanted \cup {None}

\* "The agent read this" is said of the snapshot that is shared, though the
\* answer is read without the lock (local-agent-bridge.ts:591): as long as every
\* share was answered, and for a confirmation over the connection it read from.
ConfirmationIsCurrent == faults = 0 => told.read \in {told.shared, "late"}

\* Both: what the bridge and the panel say of the shared capture is so.
ConnectionIsSafe == ClearHolds /\ ConfirmationIsCurrent

\* A clear that is owed is delivered or outlived by the connection: the lock is
\* given back, and the storage listener and the alarm it sets come.
ConnectionFairness ==
  /\ WF_connectionVars(ConnectionWork) /\ WF_connectionVars(HandleStorageChanged)
  /\ WF_connectionVars(HandleAlarm)
ClearIsDelivered == []<>(~client.clear \/ ~Connected)
=============================================================================
