----------------------------- MODULE BridgeOwner -----------------------------
(***************************************************************************)
(* Who runs the local bridge (local-bridge-owner.ts).  Any number of MCP   *)
(* clients may want it; the first that finds nobody on the fixed port      *)
(* starts a detached owner process.  An identity is the build and the      *)
(* agent credential a process was started with.  The last client to start  *)
(* publishes its identity as the desired one; an owner of any other        *)
(* identity leaves by itself, and a client never takes the port by force.  *)
(*                                                                         *)
(* Deadlines are choices: a wait may end whenever the code looks at the    *)
(* clock.  The probe of a client is a signed status request, which an      *)
(* owner of another credential cannot answer and one of another build      *)
(* answers with its own identity: neither counts.                          *)
(***************************************************************************)
EXTENDS Naturals, FiniteSets

CONSTANTS
  Clients,        \* processes that keep a lease on the bridge
  OwnerSlots,     \* detached processes that may exist at one time
  MaxChanges,     \* bound on upgrades, rotations of the credential, crashes
                  \* and failed reads
  MaxOpen,        \* bound on the requests an owner has in hand
  MaxStarts       \* bound on the client processes started

ASSUME OwnerConstantsOK ==
  {MaxChanges, MaxOpen, MaxStarts} \subseteq Nat

VARIABLES
  build,       \* the files at the entry path
  agentKey,    \* the credential file
  desired,     \* the protected build marker
  owners,      \* the detached processes
  clients,     \* the clients and where their ensureLocalBridgeOwner is
  spawned,
  ownerFaults

ownerVars == <<build, agentKey, desired, owners, clients, spawned, ownerFaults>>

Identity == [build : 1 .. MaxChanges + 1, key : 1 .. MaxChanges + 1]
NoIdentity == [build |-> 0, key |-> 0]
Installed == [build |-> build, key |-> agentKey]

NoOwner == [phase |-> "free", id |-> NoIdentity, open |-> 0, recent |-> FALSE]
NoClient == [pc |-> "off", id |-> NoIdentity]

OwnerPhases == {"free", "starting", "checked", "serving", "draining", "closing"}
ClientPlaces == {"off", "marker", "publish", "check", "probe", "port",
                 "holding", "reprobe", "spawn", "poll", "rest"}

OwnerTypeOK ==
  /\ {build, agentKey} \subseteq 1 .. MaxChanges + 1
  /\ desired \in Identity \cup {NoIdentity}
  /\ owners \in [OwnerSlots -> [phase : OwnerPhases, id : Identity \cup {NoIdentity},
                                open : 0 .. MaxOpen, recent : BOOLEAN]]
  /\ clients \in [Clients -> [pc : ClientPlaces, id : Identity \cup {NoIdentity}]]
  /\ spawned \in 0 .. MaxStarts /\ ownerFaults \in 0 .. MaxChanges

OwnerInit ==
  /\ build = 1 /\ agentKey = 1
  /\ desired = NoIdentity
  /\ owners = [o \in OwnerSlots |-> NoOwner]
  /\ clients = [c \in Clients |-> NoClient]
  /\ spawned = 0 /\ ownerFaults = 0

Listening == {o \in OwnerSlots : owners[o].phase \in {"serving", "draining"}}
Testing == {c \in Clients : clients[c].pc = "holding"}
PortFree == Listening = {} /\ Testing = {}

SetOwner(o, r) == owners' = [owners EXCEPT ![o] = r]
Left(o) == [NoOwner EXCEPT !.phase = "closing", !.open = owners[o].open]
Leave(o) == SetOwner(o, Left(o))
Goto(c, place) == clients' = [clients EXCEPT ![c].pc = place]
At(c, place) == clients[c].pc = place
Current(c) == desired = clients[c].id

(* The world around: an upgrade of the package, a rotated credential.      *)
MayChange == build + agentKey + ownerFaults < MaxChanges + 2

Upgrade ==
  /\ MayChange /\ build' = build + 1
  /\ UNCHANGED <<agentKey, desired, owners, clients, spawned, ownerFaults>>

RotateAgentKey ==
  /\ MayChange /\ agentKey' = agentKey + 1
  /\ UNCHANGED <<build, desired, owners, clients, spawned, ownerFaults>>

OwnerFault == MayChange /\ ownerFaults' = ownerFaults + 1
KeepWorld == UNCHANGED <<build, agentKey, spawned>>

-----------------------------------------------------------------------------
(* The owner process.                                                      *)

\* It reads the credential, its own files and the marker, and gives up
\* unless they belong together.
ReadIdentity(o) ==
  /\ owners[o].phase = "starting"
  /\ IF desired = Installed
       THEN SetOwner(o, [owners[o] EXCEPT !.phase = "checked", !.id = Installed])
       ELSE SetOwner(o, NoOwner)
  /\ UNCHANGED <<desired, clients, ownerFaults>> /\ KeepWorld

Bind(o) ==
  /\ owners[o].phase = "checked" /\ PortFree
  /\ SetOwner(o, [owners[o] EXCEPT !.phase = "serving", !.recent = TRUE])
  /\ UNCHANGED <<desired, clients, ownerFaults>> /\ KeepWorld

\* EADDRINUSE: another owner, or a client that tests the port just then; such
\* a coincidence is counted with the faults.
BindRefused(o) ==
  /\ owners[o].phase = "checked"
  /\ \/ Listening # {} /\ UNCHANGED ownerFaults
     \/ Listening = {} /\ Testing # {} /\ OwnerFault
  /\ SetOwner(o, NoOwner)
  /\ UNCHANGED <<desired, clients>> /\ KeepWorld

StartRequest(o) ==
  /\ owners[o].phase = "serving" /\ owners[o].open < MaxOpen
  /\ SetOwner(o, [owners[o] EXCEPT !.open = @ + 1])
  /\ UNCHANGED <<desired, clients, ownerFaults>> /\ KeepWorld

\* A request that turns out to be authorised counts as activity, also when
\* the owner has begun to drain meanwhile.
RecordActivity(o) ==
  /\ owners[o].phase \in {"serving", "draining"} /\ owners[o].open > 0
  /\ SetOwner(o, [owners[o] EXCEPT !.phase = "serving", !.recent = TRUE])
  /\ UNCHANGED <<desired, clients, ownerFaults>> /\ KeepWorld

EndRequest(o) ==
  /\ owners[o].open > 0
  /\ SetOwner(o, IF owners[o].phase = "draining" /\ owners[o].open = 1
                   THEN [Left(o) EXCEPT !.open = 0]
                   ELSE [owners[o] EXCEPT !.open = @ - 1])
  /\ UNCHANGED <<desired, clients, ownerFaults>> /\ KeepWorld

\* Half an hour without activity.
GoIdle(o) ==
  /\ owners[o].phase = "serving" /\ owners[o].recent
  /\ SetOwner(o, [owners[o] EXCEPT !.recent = FALSE])
  /\ UNCHANGED <<desired, clients, ownerFaults>> /\ KeepWorld

\* The idle timer: an upgraded owner leaves, an idle one takes no further
\* requests and leaves when those in hand are answered.
IdleTick(o) ==
  /\ owners[o].phase \in {"serving", "draining"}
  /\ \/ /\ build # owners[o].id.build
        /\ Leave(o)
     \/ /\ build = owners[o].id.build
        /\ owners[o].phase = "serving" /\ ~owners[o].recent
        /\ SetOwner(o, IF owners[o].open = 0 THEN Left(o)
                         ELSE [owners[o] EXCEPT !.phase = "draining"])
  /\ UNCHANGED <<desired, clients, ownerFaults>> /\ KeepWorld

\* MUTANT of CheckDesired: an owner that was used lately is left alone.
CheckDesiredIdle(o) ==
  /\ owners[o].phase \in {"serving", "draining"} /\ desired # owners[o].id
  /\ ~owners[o].recent
  /\ Leave(o)
  /\ UNCHANGED <<desired, clients, ownerFaults>> /\ KeepWorld

\* The one-second checks of the marker and of the credential.
CheckDesired(o) ==
  /\ owners[o].phase \in {"serving", "draining"} /\ desired # owners[o].id
  /\ Leave(o)
  /\ UNCHANGED <<desired, clients, ownerFaults>> /\ KeepWorld

CheckAgentKey(o) ==
  /\ owners[o].phase \in {"serving", "draining"} /\ agentKey # owners[o].id.key
  /\ Leave(o)
  /\ UNCHANGED <<desired, clients, ownerFaults>> /\ KeepWorld

\* A check fails or times out, the inspection finds other permissions, or
\* the process gets a signal: it closes in every case.
CheckFails(o) ==
  /\ owners[o].phase \in {"serving", "draining"} /\ OwnerFault
  /\ Leave(o)
  /\ UNCHANGED <<desired, clients>> /\ KeepWorld

\* A closing owner has left the port; it ends with its last request.
Closed(o) ==
  /\ owners[o].phase = "closing" /\ owners[o].open = 0
  /\ SetOwner(o, NoOwner)
  /\ UNCHANGED <<desired, clients, ownerFaults>> /\ KeepWorld

OwnerDies(o) ==
  /\ owners[o].phase # "free" /\ OwnerFault
  /\ SetOwner(o, NoOwner)
  /\ UNCHANGED <<desired, clients>> /\ KeepWorld

-----------------------------------------------------------------------------
(* The client: ensureLocalBridgeOwner, and the lease that repeats it.      *)

\* The status request of a client is answered by the owner that listens,
\* is not draining, and has the client's identity.
Answering(c) == {o \in OwnerSlots : /\ owners[o].phase = "serving"
                                    /\ owners[o].id = clients[c].id}
Probe(c, no) ==
  \/ /\ \E o \in Answering(c) : SetOwner(o, [owners[o] EXCEPT !.recent = TRUE])
     /\ Goto(c, "rest")
  \/ Answering(c) = {} /\ UNCHANGED owners /\ Goto(c, no)

StartClient(c) ==
  /\ At(c, "off") /\ spawned < MaxStarts /\ spawned' = spawned + 1
  /\ clients' = [clients EXCEPT ![c] = [pc |-> "marker", id |-> Installed]]
  /\ UNCHANGED <<build, agentKey, desired, owners, ownerFaults>>

StopClient(c) ==
  /\ At(c, "rest") /\ spawned < MaxStarts
  /\ clients' = [clients EXCEPT ![c] = NoClient]
  /\ UNCHANGED <<desired, owners, ownerFaults>> /\ KeepWorld

\* The lease: every 15 seconds, and without publishing anything.
RefreshLease(c) ==
  /\ At(c, "rest") /\ Goto(c, "check")
  /\ UNCHANGED <<desired, owners, ownerFaults>> /\ KeepWorld

ReadMarker(c) ==
  /\ At(c, "marker") /\ Goto(c, IF Current(c) THEN "check" ELSE "publish")
  /\ UNCHANGED <<desired, owners, ownerFaults>> /\ KeepWorld

PublishDesired(c) ==
  /\ At(c, "publish")
  /\ \/ desired' = clients[c].id /\ Goto(c, "check") /\ UNCHANGED ownerFaults
     \/ OwnerFault /\ Goto(c, "rest") /\ UNCHANGED desired
  /\ UNCHANGED owners /\ KeepWorld

CheckCurrent(c) ==
  /\ At(c, "check") /\ Goto(c, IF Current(c) THEN "probe" ELSE "rest")
  /\ UNCHANGED <<desired, owners, ownerFaults>> /\ KeepWorld

FirstProbe(c) ==
  /\ At(c, "probe") /\ Probe(c, "port")
  /\ UNCHANGED <<desired, ownerFaults>> /\ KeepWorld

\* Whether the port is free is found out by listening on it for a moment.
TestPort(c) ==
  /\ At(c, "port")
  /\ Goto(c, IF ~Current(c) THEN "rest" ELSE IF PortFree THEN "holding" ELSE "reprobe")
  /\ UNCHANGED <<desired, owners, ownerFaults>> /\ KeepWorld

ReleasePort(c) ==
  /\ At(c, "holding") /\ Goto(c, "spawn")
  /\ UNCHANGED <<desired, owners, ownerFaults>> /\ KeepWorld

\* Nothing is done to whoever has the port: wait for it to leave.
Reprobe(c) ==
  /\ At(c, "reprobe") /\ \E no \in {"port", "rest"} : Probe(c, no)
  /\ UNCHANGED <<desired, ownerFaults>> /\ KeepWorld

SpawnOwner(c) ==
  /\ At(c, "spawn")
  /\ \/ /\ Current(c)
        /\ \E o \in OwnerSlots : /\ owners[o].phase = "free"
                                 /\ SetOwner(o, [NoOwner EXCEPT !.phase = "starting"])
        /\ Goto(c, "poll") /\ UNCHANGED ownerFaults
     \/ ~Current(c) /\ Goto(c, "rest") /\ UNCHANGED <<owners, ownerFaults>>
     \/ OwnerFault /\ Goto(c, "rest") /\ UNCHANGED owners
  /\ UNCHANGED desired /\ KeepWorld

Poll(c) ==
  /\ At(c, "poll") /\ \E no \in {"poll", "rest"} : Probe(c, no)
  /\ UNCHANGED <<desired, ownerFaults>> /\ KeepWorld

-----------------------------------------------------------------------------
OwnerWork(o) ==
  ReadIdentity(o) \/ BindRefused(o) \/ CheckDesired(o) \/ Closed(o)

ClientWork(c) ==
  \/ ReadMarker(c) \/ PublishDesired(c) \/ CheckCurrent(c) \/ FirstProbe(c)
  \/ TestPort(c) \/ ReleasePort(c) \/ Reprobe(c) \/ SpawnOwner(c)
  \/ Poll(c) \/ RefreshLease(c)

OwnerNext ==
  \/ Upgrade \/ RotateAgentKey
  \/ \E o \in OwnerSlots :
       \/ OwnerWork(o) \/ Bind(o) \/ IdleTick(o) \/ CheckAgentKey(o) \/ StartRequest(o) \/ RecordActivity(o)
       \/ EndRequest(o) \/ GoIdle(o) \/ CheckFails(o) \/ OwnerDies(o)
  \/ \E c \in Clients : ClientWork(c) \/ StartClient(c) \/ StopClient(c)

\* Timers and promises go on; requests end (their timeout is 5 seconds); a
\* started owner tries the port.
OwnerFairness ==
  /\ \A o \in OwnerSlots :
       /\ WF_ownerVars(OwnerWork(o)) /\ WF_ownerVars(EndRequest(o))
       /\ WF_ownerVars(Bind(o))
  /\ \A c \in Clients : WF_ownerVars(ClientWork(c))

OwnerSpec == OwnerInit /\ [][OwnerNext]_ownerVars /\ OwnerFairness

\* Some client of the installed build and credential is the one whose
\* identity is desired.
OwnerWanted == \E c \in Clients : /\ clients[c].pc # "off"
                             /\ clients[c].id = desired /\ desired = Installed
Served == \E o \in OwnerSlots : owners[o].phase = "serving" /\ owners[o].id = desired

\* An upgrade, a rotated credential, a dying owner or a lost race for the
\* port never leaves a client whose identity is the desired one without a
\* bridge for good: the lease brings it back.
DesiredServed == <>[]OwnerWanted => []<>Served
=============================================================================
