----------------------------- MODULE StdioBroker -----------------------------
(***************************************************************************)
(* The broker between the standard input and output of one MCP client and  *)
(* the shared MCP server (local-bridge-mcp-stdio-broker.ts).  When the     *)
(* server's process is replaced the broker connects to the new one, as a   *)
(* new generation of its transport, and sends again what it still waits    *)
(* for; what it cannot bring across it must not keep waiting for, so it    *)
(* closes instead, and the client sees its server end.                     *)
(*                                                                         *)
(* A request of the client is its id and a serial number that the code     *)
(* does not have.  Its POST is accepted when the answer's headers arrive;  *)
(* the answer comes later, on the transport of that generation.  An id     *)
(* that is falsy travels under an alias; initialization and the tool list  *)
(* are requests like the others; the lanes of control messages are left    *)
(* out, and so is the content of answers.                                  *)
(***************************************************************************)
EXTENDS Naturals, Sequences, FiniteSets

CONSTANTS
  CallIds,         \* request ids of the client
  MaxCalls,        \* bound on the requests of the client
  MaxPendingCalls, \* ..._MAX_PENDING_CLIENT_REQUESTS
  MaxOutput,       \* ..._MAX_ACTIVE_UPSTREAM_SENDS, of answers to the client
  MaxBrokerFaults  \* bound on failed calls and replaced processes

VARIABLES
  broker,          \* phase, generation of the transport, recovery
  calls,           \* per id: its last request, whether it waits, its POST
  answers,         \* answers on their way: id, serial, generation
  output,          \* answers queued for the client
  asking,          \* a request of the server the client has not answered
  outdated,        \* the desired build or the credential has changed
  brokerFaults,
  crossed          \* the server being replaced has accepted a request that is
                   \* not sent again

brokerVars == <<broker, calls, answers, output, asking, outdated,
                brokerFaults, crossed>>

NoCall == [serial |-> 0, waits |-> "no", post |-> "none", gen |-> 0]
Messages == [id : CallIds, serial : 1 .. MaxCalls, gen : 0 .. MaxBrokerFaults]

BrokerTypeOK ==
  /\ broker \in [phase : {"reading", "checking", "open", "closed"},
                 gen : 0 .. MaxBrokerFaults, recovery : {"none", "preparing", "opening"}]
  /\ calls \in [CallIds -> [serial : 0 .. MaxCalls, waits : {"no", "pending", "cancelled"},
       post : {"none", "queued", "sent", "resent", "failed"}, gen : 0 .. MaxBrokerFaults]]
  /\ answers \subseteq Messages
  /\ Len(output) <= MaxOutput /\ \A k \in DOMAIN output : output[k] \in Messages
  /\ {asking, outdated, crossed} \subseteq BOOLEAN /\ brokerFaults \in 0 .. MaxBrokerFaults

BrokerInit ==
  /\ broker = [phase |-> "reading", gen |-> 0, recovery |-> "none"]
  /\ calls = [i \in CallIds |-> NoCall]
  /\ answers = {} /\ output = <<>> /\ asking = FALSE /\ outdated = FALSE
  /\ brokerFaults = 0 /\ crossed = FALSE

Open == broker.phase = "open"
Pending == {i \in CallIds : calls[i].waits = "pending"}
Posting == {i \in CallIds : calls[i].post # "none"}
PutCall(i, r) == calls' = [calls EXCEPT ![i] = r]
BrokerFault == brokerFaults < MaxBrokerFaults /\ brokerFaults' = brokerFaults + 1

\* beginClose: nothing is tracked any more and the session is ended; what
\* the client has not been told by then it is not told.
CloseBroker ==
  /\ broker' = [broker EXCEPT !.phase = "closed", !.recovery = "none"]
  /\ calls' = [i \in CallIds |-> [calls[i] EXCEPT !.waits = "no", !.post = "none"]]
  /\ answers' = {} /\ output' = <<>> /\ asking' = FALSE

-----------------------------------------------------------------------------
(* The start: credential and desired build are read, the server is found   *)
(* or started, and both are read again.                                    *)
ReadBrokerIdentity ==
  /\ broker.phase = "reading" /\ broker' = [broker EXCEPT !.phase = "checking"]
  /\ UNCHANGED <<calls, answers, output, asking, outdated, brokerFaults, crossed>>

CheckBrokerIdentity ==
  /\ broker.phase = "checking"
  /\ broker' = [broker EXCEPT !.phase = IF outdated THEN "closed" ELSE "open"]
  /\ UNCHANGED <<calls, answers, output, asking, outdated, brokerFaults, crossed>>

BecomeOutdated ==
  /\ broker.phase # "reading" /\ BrokerFault /\ outdated' = TRUE
  /\ UNCHANGED <<broker, calls, answers, output, asking, crossed>>

-----------------------------------------------------------------------------
(* The client.                                                             *)
\* A request; an id in use or once cancelled, or too many requests, close.
\* Its POST waits for a recovery that is under way.
Call(i) ==
  /\ Open
  /\ LET new == 1 + Cardinality(UNION {1 .. calls[j].serial : j \in CallIds}) IN
     /\ new <= MaxCalls
     /\ IF calls[i].waits = "no" /\ Cardinality(Pending) < MaxPendingCalls
          THEN /\ PutCall(i, [serial |-> new, waits |-> "pending", gen |-> broker.gen,
                    post |-> IF broker.recovery = "none" THEN "sent" ELSE "queued"])
               /\ UNCHANGED <<broker, answers, output, asking>>
          ELSE CloseBroker
  /\ UNCHANGED <<outdated, brokerFaults, crossed>>

\* A cancelled id is never used again; its POST goes on.
CancelCall(i) ==
  /\ Open /\ i \in Pending /\ PutCall(i, [calls[i] EXCEPT !.waits = "cancelled"])
  /\ UNCHANGED <<broker, answers, output, asking, outdated, brokerFaults, crossed>>

AnswerServer ==
  /\ Open /\ asking /\ asking' = FALSE
  /\ UNCHANGED <<broker, calls, answers, output, outdated, brokerFaults, crossed>>

\* The end of the input, a signal, a broken output.
EndInput ==
  /\ Open /\ CloseBroker /\ UNCHANGED <<outdated, brokerFaults, crossed>>

\* The writer's thread acknowledges one frame after the other.
WriteFrame ==
  /\ Open /\ output # <<>>
  /\ output' = Tail(output)
  /\ UNCHANGED <<broker, calls, answers, asking, outdated, brokerFaults, crossed>>

-----------------------------------------------------------------------------
(* The server.                                                             *)
\* An accepted POST: the server has the request.  One accepted by a former
\* generation is sent again, if somebody still waits for it.
Accepted(i) ==
  /\ Open /\ calls[i].post \in {"sent", "resent"}
  /\ LET c == calls[i] IN
     /\ answers' = answers \cup {[id |-> i, serial |-> c.serial, gen |-> c.gen]}
     /\ PutCall(i, [c EXCEPT !.post =
          IF c.gen = broker.gen \/ c.post = "resent" THEN "none" ELSE "failed"])
     /\ crossed' = (crossed \/ broker.recovery = "preparing"
                            \/ (c.post = "resent" /\ c.gen # broker.gen))
  /\ UNCHANGED <<broker, output, asking, outdated, brokerFaults>>

\* MUTANT of AnswerArrives: answers of a former generation count.
AnswerOfAnyone(m) ==
  /\ Open /\ m \in answers
  /\ CASE calls[m.id].waits = "cancelled" ->
            /\ answers' = answers \ {m} /\ UNCHANGED <<broker, calls, output, asking>>
       [] calls[m.id].waits = "pending" /\ Len(output) < MaxOutput ->
            /\ answers' = answers \ {m} /\ output' = Append(output, m)
            /\ PutCall(m.id, [calls[m.id] EXCEPT !.waits = "no"])
            /\ UNCHANGED <<broker, asking>>
       [] OTHER -> CloseBroker
  /\ UNCHANGED <<outdated, brokerFaults, crossed>>

\* MUTANT of AnswerArrives: the queue of the client has no end.
AnswerUnbounded(m) ==
  /\ Open /\ m \in answers /\ answers' = answers \ {m}
  /\ IF m.gen = broker.gen /\ calls[m.id].waits = "pending"
       THEN /\ output' = Append(output, m)
            /\ PutCall(m.id, [calls[m.id] EXCEPT !.waits = "no"])
            /\ UNCHANGED <<broker, asking>>
       ELSE UNCHANGED <<broker, calls, output, asking>>
  /\ UNCHANGED <<outdated, brokerFaults, crossed>>

\* Messages of a former generation are ignored; so is what answers a
\* cancelled request.  An answer nobody waits for closes the broker.
AnswerArrives(m) ==
  /\ Open /\ m \in answers
  /\ CASE m.gen # broker.gen \/ calls[m.id].waits = "cancelled" ->
            /\ answers' = answers \ {m} /\ UNCHANGED <<broker, calls, output, asking>>
       [] m.gen = broker.gen /\ calls[m.id].waits = "pending" /\ Len(output) < MaxOutput ->
            /\ answers' = answers \ {m} /\ output' = Append(output, m)
            /\ PutCall(m.id, [calls[m.id] EXCEPT !.waits = "no"])
            /\ UNCHANGED <<broker, asking>>
       [] OTHER -> CloseBroker
  /\ UNCHANGED <<outdated, brokerFaults, crossed>>

ServerAsks ==
  /\ Open /\ ~asking /\ broker.recovery # "opening" /\ asking' = TRUE
  /\ UNCHANGED <<broker, calls, answers, output, outdated, brokerFaults, crossed>>

\* A process that is gone takes its answers along.
ServerGone ==
  /\ BrokerFault /\ \E m \in answers : answers' = {n \in answers : n.gen # m.gen}
  /\ UNCHANGED <<broker, calls, output, asking, outdated, crossed>>

-----------------------------------------------------------------------------
(* The recovery.                                                           *)
\* setRecoveryGuard: the numbers say that every request has a POST of its own.
CanReconnect == ~asking /\ Cardinality(Pending) = Cardinality(Posting)

\* A failed POST, of this generation or a former one; one that was sent
\* again already, or is refused because the credential changed, closes.
PostFails(i) ==
  /\ Open /\ calls[i].post \in {"sent", "resent"} /\ BrokerFault
  /\ LET c == calls[i]
         joins == c.gen # broker.gen \/ broker.recovery # "none"
     IN IF c.post = "resent" \/ (c.gen = broker.gen /\ outdated) \/ ~(joins \/ CanReconnect)
          THEN CloseBroker
          ELSE /\ PutCall(i, [c EXCEPT !.post = "failed"])
               /\ broker' = IF joins THEN broker ELSE [broker EXCEPT !.recovery = "preparing"]
               /\ UNCHANGED <<answers, output, asking>>
  /\ UNCHANGED <<outdated, crossed>>

\* prepareReconnect: credential and build as at the start, a server of that
\* build; then the new generation takes over.
PrepareReconnect ==
  /\ Open /\ broker.recovery = "preparing" /\ UNCHANGED brokerFaults
  /\ IF outdated THEN CloseBroker
     ELSE /\ broker' = [broker EXCEPT !.gen = @ + 1, !.recovery = "opening"]
          /\ UNCHANGED <<calls, answers, output, asking>>
  /\ UNCHANGED <<outdated, crossed>>

\* Initialization and tool list are repeated on the new connection.
OpenReplacement ==
  /\ Open /\ broker.recovery = "opening"
  /\ \/ /\ broker' = [broker EXCEPT !.recovery = "none"] /\ UNCHANGED brokerFaults
        /\ UNCHANGED <<calls, answers, output, asking>>
     \/ CloseBroker /\ BrokerFault
  /\ UNCHANGED <<outdated, crossed>>

\* The sends that waited for the recovery: a new request goes out whatever
\* happened to it, one that had gone out only if somebody still waits for it.
Resend(i) ==
  /\ Open /\ broker.recovery = "none" /\ calls[i].post \in {"queued", "failed"}
  /\ LET c == calls[i] IN
     PutCall(i, CASE c.post = "queued" -> [c EXCEPT !.post = "sent", !.gen = broker.gen]
                  [] c.post = "failed" /\ i \in Pending ->
                       [c EXCEPT !.post = "resent", !.gen = broker.gen]
                  [] OTHER -> [c EXCEPT !.post = "none"])
  /\ UNCHANGED <<broker, answers, output, asking, outdated, brokerFaults, crossed>>

BrokerNext ==
  \/ ReadBrokerIdentity \/ CheckBrokerIdentity \/ BecomeOutdated
  \/ AnswerServer \/ EndInput \/ WriteFrame \/ ServerAsks \/ ServerGone
  \/ PrepareReconnect \/ OpenReplacement
  \/ \E i \in CallIds : Call(i) \/ CancelCall(i) \/ Accepted(i) \/ PostFails(i) \/ Resend(i)
  \/ \E m \in answers : AnswerArrives(m)

BrokerSpec == BrokerInit /\ [][BrokerNext]_brokerVars

-----------------------------------------------------------------------------
(* What the client is told under an id answers the request it made last    *)
(* under that id: no answer of a replaced server process, of a cancelled   *)
(* request or of a request sent twice is taken for another one's.          *)
AnswersAreOwn ==
  Len(output') > Len(output) =>
    LET m == output'[Len(output')] IN
    calls[m.id].waits = "pending" /\ calls[m.id].serial = m.serial

(* A request the broker waits for has been, or is being, given to the      *)
(* server of the present generation: otherwise nobody will ever answer it, *)
(* and the client waits on a broker that is open.                          *)
NoRequestLost ==
  Open /\ broker.recovery # "preparing" =>
    \A i \in Pending : calls[i].post # "none" \/ calls[i].gen = broker.gen

(* That holds unless the server that is being replaced accepts a request   *)
(* after the guard has looked, or a request is cancelled whose POST still  *)
(* counts: the guard compares two numbers, once.                           *)
QuietRecoveryLosesNothing ==
  ~crossed /\ (\A i \in CallIds : calls[i].waits # "cancelled") => NoRequestLost

(* Both together are what a client may rely on while servers are replaced. *)
RecoveryIsSound == [][AnswersAreOwn /\ QuietRecoveryLosesNothing']_brokerVars
=============================================================================
