----------------------------- MODULE McpSessions -----------------------------
(***************************************************************************)
(* The sessions of the shared MCP server (local-bridge-mcp-http.ts): who   *)
(* is admitted, how a tool request and its cancellation meet, and when a   *)
(* session left behind gives its capacity back.                            *)
(*                                                                         *)
(* A request has an id of its own in its session.  Timers fire whenever    *)
(* the code's conditions hold.  The transport of the MCP library answers a *)
(* request when its tool ends; a tool that is aborted ends without an      *)
(* answer.  Origin, bearer, framing and body checks refuse a request       *)
(* before anything here happens; the stream of the server's own messages   *)
(* (GET) is one of at most MaxStreams per session.                         *)
(***************************************************************************)
EXTENDS Naturals, FiniteSets

CONSTANTS
  Sessions, ToolRequests,
  MaxSessions,      \* MEANTHIS_MCP_HTTP_DEFAULT_MAX_SESSIONS
  MaxInFlight,      \* ..._MAX_IN_FLIGHT_REQUESTS
  MaxPerSession,    \* ..._MAX_REQUESTS_PER_SESSION
  MaxControls,      \* ..._MAX_CONTROL_REQUESTS_PER_SESSION
  MaxStreams        \* ..._MAX_SSE_CONNECTIONS_PER_SESSION

VARIABLES
  sessions,         \* the sessions and what each retains
  tools,            \* the requests, from admission to answer
  cancels           \* the cancellation of each request, if any

sessionVars == <<sessions, tools, cancels>>

NoSession == [phase |-> "free", streams |-> 0, seen |-> FALSE, gone |-> FALSE, intents |-> {}]
NoTool == [stage |-> "none", session |-> "none", aborted |-> FALSE, intent |-> FALSE]

SessionPhases == {"free", "reading", "opening", "active", "closing"}
ToolStages == {"none", "body", "tracked", "ready", "answered"}
CancelStages == {"none", "sent", "waiting", "delivered", "accepted", "refused"}

SessionTypeOK ==
  /\ sessions \in [Sessions -> [phase : SessionPhases, streams : 0 .. MaxStreams,
       seen : BOOLEAN, gone : BOOLEAN, intents : SUBSET ToolRequests]]
  /\ tools \in [ToolRequests -> [stage : ToolStages, session : Sessions \cup {"none"},
       aborted : BOOLEAN, intent : BOOLEAN]]
  /\ cancels \in [ToolRequests -> CancelStages]

SessionInit ==
  /\ sessions = [s \in Sessions |-> NoSession]
  /\ tools = [r \in ToolRequests |-> NoTool]
  /\ cancels = [r \in ToolRequests |-> "none"]

Retained == {s \in Sessions : sessions[s].phase \in {"opening", "active", "closing"}}
Initializing == {s \in Sessions : sessions[s].phase = "reading"}
InHand == {"body", "tracked", "ready"}
ToolsOf(s) == {r \in ToolRequests : tools[r].session = s /\ tools[r].stage \in InHand}
InFlight == {r \in ToolRequests : tools[r].stage \in InHand}
ControlsOf(s) == {r \in ToolRequests : /\ tools[r].session = s
                                       /\ cancels[r] \in {"sent", "waiting", "delivered"}}
Active(s) == Cardinality(ToolsOf(s)) + sessions[s].streams
Known(s) == sessions[s].phase = "active"
PutSession(s, r) == sessions' = [sessions EXCEPT ![s] = r]
PutStage(r, stage) == tools' = [tools EXCEPT ![r].stage = stage]
PutCancel(r, stage) == cancels' = [cancels EXCEPT ![r] = stage]

\* cleanupSession: the session is no longer found, its streams and requests
\* end, and it counts against the capacity until its transport is closed.
CleanUp(s) ==
  /\ PutSession(s, [sessions[s] EXCEPT !.phase = "closing", !.streams = 0, !.intents = {}])
  /\ tools' = [r \in ToolRequests |->
       IF r \in ToolsOf(s) THEN [tools[r] EXCEPT !.stage = "answered"] ELSE tools[r]]

-----------------------------------------------------------------------------
Initialize(s) ==
  /\ sessions[s].phase = "free"
  /\ Cardinality(Retained) + Cardinality(Initializing) < MaxSessions
  /\ Cardinality(InFlight) < MaxInFlight
  /\ PutSession(s, [NoSession EXCEPT !.phase = "reading"])
  /\ UNCHANGED <<tools, cancels>>

\* The body turns out to be an initialization, or something else.
ReadInitialize(s) ==
  /\ sessions[s].phase = "reading"
  /\ \E next \in {"opening", "free"} : PutSession(s, [NoSession EXCEPT !.phase = next])
  /\ UNCHANGED <<tools, cancels>>

Opened(s) ==
  /\ sessions[s].phase = "opening"
  /\ \E next \in {"active", "closing"} : PutSession(s, [sessions[s] EXCEPT !.phase = next])
  /\ UNCHANGED <<tools, cancels>>

\* GET: the stream of an event listener; how it ends, the session learns too.
OpenStream(s) ==
  /\ Known(s) /\ ~sessions[s].gone
  /\ Active(s) < MaxPerSession /\ sessions[s].streams < MaxStreams
  /\ PutSession(s, [sessions[s] EXCEPT !.streams = @ + 1])
  /\ UNCHANGED <<tools, cancels>>

EndStream(s) ==
  /\ Known(s) /\ sessions[s].streams > 0
  /\ PutSession(s, [sessions[s] EXCEPT !.streams = @ - 1, !.seen = TRUE])
  /\ UNCHANGED <<tools, cancels>>

DeleteSession(s) ==
  /\ Known(s) /\ ~sessions[s].gone /\ CleanUp(s) /\ UNCHANGED cancels

\* A client that is gone: its connections are closed.
ClientGone(s) ==
  /\ Known(s) /\ ~sessions[s].gone
  /\ PutSession(s, [sessions[s] EXCEPT !.gone = TRUE])
  /\ UNCHANGED <<tools, cancels>>

\* Half a minute after the last stream, or half an hour without anything.
Expire(s) ==
  /\ Known(s) /\ sessions[s].streams = 0 /\ ToolsOf(s) = {} /\ ControlsOf(s) = {}
  /\ CleanUp(s) /\ UNCHANGED cancels

TransportClosed(s) ==
  /\ sessions[s].phase = "closing" /\ ControlsOf(s) = {}
  /\ PutSession(s, NoSession)
  /\ tools' = [r \in ToolRequests |->
       IF tools[r].session = s THEN [tools[r] EXCEPT !.session = "none"] ELSE tools[r]]
  /\ UNCHANGED cancels

-----------------------------------------------------------------------------
(* A request for a tool: POST with the session's id.                        *)
Post(r) ==
  /\ tools[r].stage = "none" /\ Cardinality(InFlight) < MaxInFlight
  /\ \E s \in Sessions :
       /\ Known(s) /\ ~sessions[s].gone /\ Active(s) < MaxPerSession
       /\ tools' = [tools EXCEPT ![r] = [NoTool EXCEPT !.stage = "body", !.session = s]]
  /\ UNCHANGED <<sessions, cancels>>

\* The body is read; a cancellation that was faster is remembered.
Track(r) ==
  /\ tools[r].stage = "body"
  /\ LET s == tools[r].session IN
     /\ tools' = [tools EXCEPT ![r].stage = "tracked",
                               ![r].intent = r \in sessions[s].intents]
     /\ PutSession(s, [sessions[s] EXCEPT !.intents = @ \ {r}])
  /\ UNCHANGED cancels

\* MUTANT of Ready: a cancellation that came first is forgotten.
ReadyAnyway(r) ==
  /\ tools[r].stage = "tracked" /\ PutStage(r, "ready")
  /\ UNCHANGED <<sessions, cancels>>

\* A turn of the event loop later the library has the request; an early
\* cancellation is replayed: the tool aborts, and the request is answered.
Ready(r) ==
  /\ tools[r].stage = "tracked"
  /\ tools' = [tools EXCEPT ![r].stage = IF tools[r].intent THEN "answered" ELSE "ready",
                            ![r].aborted = tools[r].intent]
  /\ UNCHANGED <<sessions, cancels>>

ToolEnds(r) ==
  /\ tools[r].stage \in {"tracked", "ready"} /\ ~tools[r].aborted
  /\ PutStage(r, "answered") /\ UNCHANGED <<sessions, cancels>>

\* The client's connection is closed, or the body is unreadable.
ConnectionLost(r) ==
  /\ tools[r].stage \in InHand /\ PutStage(r, "answered")
  /\ UNCHANGED <<sessions, cancels>>

\* The transport throws.
RequestThrows(r) ==
  /\ tools[r].stage \in {"tracked", "ready"} /\ CleanUp(tools[r].session)
  /\ UNCHANGED cancels

-----------------------------------------------------------------------------
(* Its cancellation, on the control lane.                                   *)
\* Sent by a client that has no answer yet, whatever the server knows.
Cancel(r) ==
  /\ tools[r].session # "none" /\ cancels[r] = "none"
  /\ LET s == tools[r].session IN
     /\ Known(s) /\ ~sessions[s].gone
     /\ PutCancel(r, IF Cardinality(ControlsOf(s)) < MaxControls THEN "sent" ELSE "refused")
  /\ UNCHANGED <<sessions, tools>>

\* Its body is read.  A request the session does not track (yet, or any
\* more) leaves an intent; one intent too many ends the session.
ReadCancel(r) ==
  /\ cancels[r] = "sent"
  /\ LET s == tools[r].session IN
     CASE ~Known(s) -> UNCHANGED <<sessions, tools>> /\ PutCancel(r, "accepted")
       [] Known(s) /\ tools[r].stage \in {"tracked", "ready"} ->
            UNCHANGED <<sessions, tools>> /\ PutCancel(r, "waiting")
       [] Known(s) /\ tools[r].stage \notin {"tracked", "ready"} ->
            IF r \notin sessions[s].intents /\ Cardinality(sessions[s].intents) >= MaxControls
              THEN CleanUp(s) /\ PutCancel(r, "refused")
              ELSE /\ PutSession(s, [sessions[s] EXCEPT !.intents = @ \cup {r}])
                   /\ PutCancel(r, "accepted") /\ UNCHANGED tools

\* The library gets it once the request is ready or over.
DeliverCancel(r) ==
  /\ cancels[r] = "waiting" /\ tools[r].stage # "tracked"
  /\ tools' = [tools EXCEPT ![r].aborted = @ \/ tools[r].stage = "ready"]
  /\ PutCancel(r, "delivered") /\ UNCHANGED sessions

\* completeCancelledSessionRequest: the answer the aborted tool does not
\* give, unless that fails: then the session goes.
CompleteCancel(r) ==
  /\ cancels[r] = "delivered" /\ PutCancel(r, "accepted")
  /\ LET s == tools[r].session IN
     IF Known(s) /\ tools[r].stage = "ready"
       THEN \/ PutStage(r, "answered") /\ UNCHANGED sessions
            \/ CleanUp(s)
       ELSE UNCHANGED <<sessions, tools>>

-----------------------------------------------------------------------------
ServerWork ==
  \/ \E s \in Sessions : ReadInitialize(s) \/ Opened(s) \/ TransportClosed(s)
  \/ \E r \in ToolRequests : Track(r) \/ Ready(r) \/ ReadCancel(r)
                             \/ DeliverCancel(r) \/ CompleteCancel(r)

SessionNext ==
  \/ ServerWork
  \/ \E s \in Sessions : \/ Initialize(s) \/ OpenStream(s) \/ EndStream(s)
                         \/ DeleteSession(s) \/ ClientGone(s) \/ Expire(s)
  \/ \E r \in ToolRequests : \/ Post(r) \/ ToolEnds(r) \/ ConnectionLost(r)
                             \/ RequestThrows(r) \/ Cancel(r)

\* The server's own steps happen; connections of a client that is gone close.
SessionFairness ==
  /\ WF_sessionVars(ServerWork)
  /\ \A s \in Sessions : /\ WF_sessionVars(Expire(s))
                         /\ WF_sessionVars(sessions[s].gone /\ EndStream(s))
  /\ \A r \in ToolRequests :
       WF_sessionVars(tools[r].session # "none" /\ sessions[tools[r].session].gone
                      /\ ConnectionLost(r))

SessionSpec == SessionInit /\ [][SessionNext]_sessionVars /\ SessionFairness

-----------------------------------------------------------------------------
(* A request whose cancellation the server has accepted is answered, in    *)
(* whichever order the two came and though its tool says nothing: no       *)
(* cancelled request holds its place in the session for good.              *)
CancelledIsAnswered ==
  []<>(\A r \in ToolRequests : cancels[r] = "accepted" => tools[r].stage = "answered")
=============================================================================
