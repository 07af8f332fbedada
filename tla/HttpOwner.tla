------------------------------ MODULE HttpOwner ------------------------------
(***************************************************************************)
(* Who runs the shared MCP server (local-bridge-mcp-http-owner.ts).  A     *)
(* client first sees to the browser bridge (its desired build is published *)
(* with it), then publishes its own build in the marker of the MCP owner   *)
(* and asks whoever listens for a proof of build and bearer.  The owner    *)
(* compares bearer, marker, files and access list over and over, keeps a   *)
(* lease on the browser bridge without publishing anything, and leaves at  *)
(* the first difference.                                                   *)
(*                                                                         *)
(* The browser bridge is its desired build and whether it can be reached.  *)
(* A client that fails is started again by its user and then reads build   *)
(* and bearer anew.  Deadlines are choices.                                *)
(***************************************************************************)
EXTENDS Naturals, FiniteSets

CONSTANTS
  HttpClients, HttpSlots,
  MaxTurnovers,    \* bound on upgrades, rotations and exposures of the bearer
  MaxHttpFaults    \* bound on crashes and failed calls

VARIABLES
  files,           \* the installed build
  bearer,          \* the stored bearer: which one, and whether it is protected
  httpMarker,      \* the desired build of the MCP owner
  bridgeBuild,     \* the desired build of the browser bridge
  httpOwners,
  httpClients,
  httpFaults

httpVars == <<files, bearer, httpMarker, bridgeBuild, httpOwners, httpClients, httpFaults>>

Builds == 1 .. MaxTurnovers + 1
NoHttpOwner == [phase |-> "free", build |-> 0, key |-> 0]
HttpPlaces == {"off", "bridge", "rename", "readback", "probe", "port", "spawn", "poll", "ready"}

HttpTypeOK ==
  /\ files \in Builds /\ {httpMarker, bridgeBuild} \subseteq Builds \cup {0}
  /\ bearer \in [key : Builds, safe : BOOLEAN]
  /\ httpOwners \in [HttpSlots -> [phase : {"free", "started", "identified", "bridged",
       "serving", "closing"}, build : Builds \cup {0}, key : Builds \cup {0}]]
  /\ httpClients \in [HttpClients -> [pc : HttpPlaces, build : Builds, key : Builds]]
  /\ httpFaults \in 0 .. MaxHttpFaults

HttpInit ==
  /\ files = 1 /\ bearer = [key |-> 1, safe |-> TRUE] /\ httpMarker = 0 /\ bridgeBuild = 0
  /\ httpOwners = [o \in HttpSlots |-> NoHttpOwner]
  /\ httpClients = [c \in HttpClients |-> [pc |-> "off", build |-> 1, key |-> 1]]
  /\ httpFaults = 0

KeepHttp == UNCHANGED <<files, bearer>>
HttpFault == httpFaults < MaxHttpFaults /\ httpFaults' = httpFaults + 1
HttpAt(c, place) == httpClients[c].pc = place
HttpGo(c, place) == httpClients' = [httpClients EXCEPT ![c].pc = place]
PutOwner(o, r) == httpOwners' = [httpOwners EXCEPT ![o] = r]
OwnerIn(o, phase) == httpOwners[o].phase = phase
Serving == {o \in HttpSlots : OwnerIn(o, "serving")}
\* The files are updated, the bearer is replaced or shown to others.
Turnovers == files + bearer.key < MaxTurnovers + 2
ChangeFiles ==
  /\ Turnovers /\ files' = files + 1
  /\ UNCHANGED <<bearer, httpMarker, bridgeBuild, httpOwners, httpClients, httpFaults>>
RotateBearer ==
  /\ Turnovers /\ bearer' = [key |-> bearer.key + 1, safe |-> TRUE]
  /\ UNCHANGED <<files, httpMarker, bridgeBuild, httpOwners, httpClients, httpFaults>>
\* Access lists are changed, and changed back.
ExposeBearer ==
  /\ HttpFault /\ bearer' = [bearer EXCEPT !.safe = ~@]
  /\ UNCHANGED <<files, httpMarker, bridgeBuild, httpOwners, httpClients>>

-----------------------------------------------------------------------------
(* The owner process.                                                      *)
\* Verified reads of the bearer; the marker must name the build.
IdentifyOwner(o) ==
  /\ OwnerIn(o, "started")
  /\ PutOwner(o, IF bearer.safe /\ httpMarker = files
                   THEN [phase |-> "identified", build |-> files, key |-> bearer.key]
                   ELSE NoHttpOwner)
  /\ UNCHANGED <<httpMarker, bridgeBuild, httpClients, httpFaults>> /\ KeepHttp

\* refreshBridgeOwner: it fails unless its build is the desired one there.
EnsureBridge(o) ==
  /\ OwnerIn(o, "identified")
  /\ \/ /\ UNCHANGED httpFaults
        /\ PutOwner(o, IF bridgeBuild = httpOwners[o].build
                         THEN [httpOwners[o] EXCEPT !.phase = "bridged"] ELSE NoHttpOwner)
     \/ PutOwner(o, NoHttpOwner) /\ HttpFault
  /\ UNCHANGED <<httpMarker, bridgeBuild, httpClients>> /\ KeepHttp

Listen(o) ==
  /\ OwnerIn(o, "bridged")
  /\ PutOwner(o, IF Serving = {} THEN [httpOwners[o] EXCEPT !.phase = "serving"]
                                 ELSE NoHttpOwner)
  /\ UNCHANGED <<httpMarker, bridgeBuild, httpClients, httpFaults>> /\ KeepHttp

StopOwner(o) == PutOwner(o, [httpOwners[o] EXCEPT !.phase = "closing"])
SameBearer(o) == httpOwners[o].key = bearer.key
\* MUTANT of CheckCurrentOwner: only the marker is looked at.
CheckMarkerOnly(o) ==
  /\ OwnerIn(o, "serving") /\ httpMarker # httpOwners[o].build /\ StopOwner(o)
  /\ UNCHANGED <<httpMarker, bridgeBuild, httpClients, httpFaults>> /\ KeepHttp

\* verifyCurrentOwner, every second; verifyBuild; verifyCredential; the lease.
CheckCurrentOwner(o) ==
  /\ OwnerIn(o, "serving") /\ ~(SameBearer(o) /\ httpMarker = httpOwners[o].build)
  /\ StopOwner(o)
  /\ UNCHANGED <<httpMarker, bridgeBuild, httpClients, httpFaults>> /\ KeepHttp
CheckBuild(o) ==
  /\ OwnerIn(o, "serving") /\ httpOwners[o].build # files /\ StopOwner(o)
  /\ UNCHANGED <<httpMarker, bridgeBuild, httpClients, httpFaults>> /\ KeepHttp
CheckCredential(o) ==
  /\ OwnerIn(o, "serving") /\ ~(bearer.safe /\ SameBearer(o)) /\ StopOwner(o)
  /\ UNCHANGED <<httpMarker, bridgeBuild, httpClients, httpFaults>> /\ KeepHttp
RenewBridgeLease(o) ==
  /\ OwnerIn(o, "serving") /\ bridgeBuild # httpOwners[o].build /\ StopOwner(o)
  /\ UNCHANGED <<httpMarker, bridgeBuild, httpClients, httpFaults>> /\ KeepHttp
\* A check that fails or lasts too long, a signal, or the bridge away.
StopForFault(o) ==
  /\ OwnerIn(o, "serving") /\ HttpFault /\ StopOwner(o)
  /\ UNCHANGED <<httpMarker, bridgeBuild, httpClients>> /\ KeepHttp
EndOwner(o) ==
  /\ OwnerIn(o, "closing") /\ PutOwner(o, NoHttpOwner)
  /\ UNCHANGED <<httpMarker, bridgeBuild, httpClients, httpFaults>> /\ KeepHttp

-----------------------------------------------------------------------------
(* The client: ensureInstalledLocalBridgeOwners,                           *)
(* ensureDetachedLocalBridgeMcpHttpOwner.                                  *)
Answers(c) == {o \in Serving : /\ httpOwners[o].build = httpClients[c].build
                               /\ httpOwners[o].key = httpClients[c].key}
MarkerCurrent(c) == httpMarker = httpClients[c].build
\* What counts is the proof, and that the marker still asks for this build.
HttpProbe(c, no) ==
  HttpGo(c, IF Answers(c) = {} THEN no ELSE IF MarkerCurrent(c) THEN "ready" ELSE "off")

StartAsking(c) ==
  /\ httpClients[c].pc \in {"off", "ready"} /\ bearer.safe
  /\ httpClients' = [httpClients EXCEPT ![c] =
       [pc |-> "bridge", build |-> files, key |-> bearer.key]]
  /\ UNCHANGED <<httpMarker, bridgeBuild, httpOwners, httpFaults>> /\ KeepHttp

AskBridge(c) ==
  /\ HttpAt(c, "bridge")
  /\ \/ bridgeBuild' = httpClients[c].build /\ HttpGo(c, "rename") /\ UNCHANGED httpFaults
     \/ HttpGo(c, "off") /\ HttpFault /\ UNCHANGED bridgeBuild
  /\ UNCHANGED <<httpMarker, httpOwners>> /\ KeepHttp

\* writeLocalBridgeProtectedBuildMarker renames the marker, and reads it.
RenameMarker(c) ==
  /\ HttpAt(c, "rename")
  /\ \/ httpMarker' = httpClients[c].build /\ HttpGo(c, "readback") /\ UNCHANGED httpFaults
     \/ HttpGo(c, "off") /\ HttpFault /\ UNCHANGED httpMarker
  /\ UNCHANGED <<bridgeBuild, httpOwners>> /\ KeepHttp
ReadMarkerBack(c) ==
  /\ HttpAt(c, "readback") /\ HttpGo(c, IF MarkerCurrent(c) THEN "probe" ELSE "off")
  /\ UNCHANGED <<httpMarker, bridgeBuild, httpOwners, httpFaults>> /\ KeepHttp

ProbeOwner(c) ==
  /\ HttpAt(c, "probe") /\ HttpProbe(c, "port")
  /\ UNCHANGED <<httpMarker, bridgeBuild, httpOwners, httpFaults>> /\ KeepHttp

\* Never a replacement beside an occupied port: the old owner leaves first.
TryPort(c) ==
  /\ HttpAt(c, "port")
  /\ \/ ~MarkerCurrent(c) /\ HttpGo(c, "off")
     \/ MarkerCurrent(c) /\ Serving = {} /\ HttpGo(c, "spawn")
     \/ MarkerCurrent(c) /\ Serving # {} /\ \E no \in {"port", "off"} : HttpProbe(c, no)
  /\ UNCHANGED <<httpMarker, bridgeBuild, httpOwners, httpFaults>> /\ KeepHttp

SpawnHttpOwner(c) ==
  /\ HttpAt(c, "spawn")
  /\ \/ /\ MarkerCurrent(c) /\ HttpGo(c, "poll") /\ UNCHANGED httpFaults
        /\ \E o \in HttpSlots : OwnerIn(o, "free")
             /\ PutOwner(o, [NoHttpOwner EXCEPT !.phase = "started"])
     \/ ~MarkerCurrent(c) /\ HttpGo(c, "off") /\ UNCHANGED <<httpOwners, httpFaults>>
     \/ HttpGo(c, "off") /\ HttpFault /\ UNCHANGED httpOwners
  /\ UNCHANGED <<httpMarker, bridgeBuild>> /\ KeepHttp

PollOwner(c) ==
  /\ HttpAt(c, "poll") /\ \E no \in {"poll", "off"} : HttpProbe(c, no)
  /\ UNCHANGED <<httpMarker, bridgeBuild, httpOwners, httpFaults>> /\ KeepHttp

-----------------------------------------------------------------------------
HttpOwnerWork(o) ==
  \/ IdentifyOwner(o) \/ EnsureBridge(o) \/ Listen(o) \/ EndOwner(o)
  \/ CheckCurrentOwner(o) \/ RenewBridgeLease(o)

HttpNext ==
  \/ ChangeFiles \/ RotateBearer \/ ExposeBearer
  \/ \E o \in HttpSlots : HttpOwnerWork(o) \/ CheckBuild(o) \/ CheckCredential(o)
                          \/ StopForFault(o)
  \/ \E c \in HttpClients :
       \/ StartAsking(c) \/ AskBridge(c) \/ RenameMarker(c) \/ ReadMarkerBack(c)
       \/ ProbeOwner(c) \/ TryPort(c) \/ SpawnHttpOwner(c) \/ PollOwner(c)

\* Timers fire in the owner, and promises go on; of the clients nothing is
\* asked.
HttpFairness == \A o \in HttpSlots : WF_httpVars(HttpOwnerWork(o))

HttpSpec == HttpInit /\ [][HttpNext]_httpVars /\ HttpFairness

-----------------------------------------------------------------------------
(* A bearer that was replaced is not accepted for ever by a server that    *)
(* knew it, nor by one that was being started when it was replaced.        *)
OldBearerDies == []<>(\A o \in Serving : SameBearer(o))
=============================================================================
