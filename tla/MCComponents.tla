---------------------------- MODULE MCComponents ----------------------------
(***************************************************************************)
(* The components that share no state with one another, checked side by    *)
(* side: each behaviour moves one of them, `part', and leaves the others   *)
(* where they begin.                                                       *)
(***************************************************************************)
EXTENDS BridgeOwner, ProfileLock, BridgeInstall, CredentialFile, McpSessions,
        StdioBroker, HttpOwner, ElementSelection, BridgeConnection,
        WidgetLease, WidgetActions, OverlayRegistry, PanelSession

CONSTANT Parts   \* the components this run moves

VARIABLE part

vars == <<part, ownerVars, lockVars, installVars, credentialVars, sessionVars,
          brokerVars, httpVars, selectionVars, connectionVars, widgetVars,
          actionVars, overlayVars, panelVars>>

Init ==
  /\ part \in Parts
  /\ OwnerInit /\ LockInit /\ InstallInit /\ CredentialInit
  /\ SessionInit /\ BrokerInit /\ HttpInit /\ SelectionInit
  /\ ConnectionInit /\ WidgetInit /\ ActionInit /\ OverlayInit /\ PanelInit
  /\ part # "install" => cmd = Idle /\ running = keys /\ regs = Idle.first
  /\ part # "credential" => style = "agent" /\ folder = NoFolder
  /\ part # "marking" => syncs = {}

Rests(P, v) == IF part \in P THEN TRUE ELSE UNCHANGED v
Moves(p, Action) ==
  /\ part = p /\ Action /\ UNCHANGED part
  /\ Rests({"owner"}, ownerVars)
  /\ Rests({"lock"}, lockVars)
  /\ Rests({"install"}, installVars)
  /\ Rests({"credential"}, credentialVars)
  /\ Rests({"sessions"}, sessionVars)
  /\ Rests({"broker"}, brokerVars)
  /\ Rests({"http"}, httpVars)
  /\ Rests({"selection"}, selectionVars)
  /\ Rests({"sharing", "confirming"}, connectionVars)
  /\ Rests({"widget"}, widgetVars)
  /\ Rests({"actions"}, actionVars)
  /\ Rests({"storing", "marking"}, overlayVars)
  /\ Rests({"panel"}, panelVars)

\* The connection is looked at from two sides: how shares and clears survive
\* faults, and how a confirmation finds its way, without faults.
SharingNext ==
  /\ ConnectionNext
  /\ agent' = agent /\ Cardinality(wanted') < 2
ConfirmingNext ==
  /\ ConnectionNext
  /\ faults' = 0 /\ client'.snap.panel = None /\ issued' <= 1 /\ dead' = {} /\ client'.session <= 2

\* So are the markers of a page: how the registry of their projections is
\* stored, with faults, and how clicks meet what changes.
StoringNext ==
  /\ OverlayNext
  /\ place' = place /\ tombstones' = {} /\ click' = NoClick
  /\ Cardinality(syncs') < 2 /\ Cardinality(asks') < 2 /\ Cardinality(acks') < 2
MarkingNext ==
  /\ OverlayNext
  /\ numbers'.faults = 0 /\ numbers'.events < 2 /\ Cardinality(asks') < 2 /\ Cardinality(acks') < 2

\* The tabs of the selection are alike: what happens first is on one of them.
SelectingNext ==
  /\ SelectionNext /\ (selFaults' = 0 \/ selEvents' < MaxSelEvents)
  /\ selEvents = 0 => \E t \in SelTabs : /\ t = CHOOSE u \in SelTabs : TRUE
                                        /\ \A o \in SelTabs \ {t} :
                                             /\ pages'[o] = pages[o]
                                             /\ \A s \in Starts : starts'[s].tab # o

\* Not every fault is combined with the most of everything else.
CreatingNext == CredentialNext /\ (fileFaults' = 0 \/ requests' < MaxRequests)
ActingNext == ActionNext /\ (moves' = 0 \/ actFaults' = 0 \/ Len(frameOf') < MaxActions)
NotingNext == PanelNext /\ (panelFaults' = 0 \/ typed' < MaxTyped)

Next ==
  \/ Moves("owner", OwnerNext)
  \/ Moves("lock", LockNext)
  \/ Moves("install", InstallNext)
  \/ Moves("credential", CreatingNext)
  \/ Moves("sessions", SessionNext)
  \/ Moves("broker", BrokerNext)
  \/ Moves("http", HttpNext)
  \/ Moves("selection", SelectingNext)
  \/ Moves("sharing", SharingNext)
  \/ Moves("confirming", ConfirmingNext)
  \/ Moves("widget", WidgetNext)
  \/ Moves("actions", ActingNext)
  \/ Moves("storing", StoringNext)
  \/ Moves("marking", MarkingNext)
  \/ Moves("panel", NotingNext)

Spec == Init /\ [][Next]_vars

\* The fairness of each component that this sum is asked to make progress.
FairSpec ==
  /\ Spec
  /\ \A o \in OwnerSlots : /\ WF_vars(Moves("owner", OwnerWork(o)))
                           /\ WF_vars(Moves("owner", EndRequest(o)))
                           /\ WF_vars(Moves("owner", Bind(o)))
  /\ \A c \in Clients : WF_vars(Moves("owner", ClientWork(c)))
  /\ WF_vars(Moves("lock", TimePasses))
  /\ \A c \in Commands : WF_vars(Moves("lock", CommandWork(c)))
  /\ WF_vars(Moves("sessions", ServerWork))
  /\ \A s \in Sessions : /\ WF_vars(Moves("sessions", Expire(s)))
                         /\ WF_vars(Moves("sessions", sessions[s].gone /\ EndStream(s)))
  /\ \A r \in ToolRequests :
       WF_vars(Moves("sessions", /\ tools[r].session # "none"
                                 /\ sessions[tools[r].session].gone /\ ConnectionLost(r)))
  /\ \A o \in HttpSlots : WF_vars(Moves("http", HttpOwnerWork(o)))
  /\ WF_vars(Moves("sharing", ConnectionWork)) /\ WF_vars(Moves("sharing", HandleStorageChanged))
  /\ WF_vars(Moves("sharing", HandleAlarm))
  /\ WF_vars(Moves("actions", ActionWork))

\* A component that rests is as its Init left it.
Typed(P, OK) == part \in P => OK
TypeOK ==
  /\ Typed({"owner"}, OwnerTypeOK)
  /\ Typed({"lock"}, LockTypeOK)
  /\ Typed({"install"}, InstallTypeOK)
  /\ Typed({"credential"}, CredentialTypeOK)
  /\ Typed({"sessions"}, SessionTypeOK)
  /\ Typed({"broker"}, BrokerTypeOK)
  /\ Typed({"http"}, HttpTypeOK)
  /\ Typed({"selection"}, SelectionTypeOK)
  /\ Typed({"sharing", "confirming"}, ConnectionTypeOK)
  /\ Typed({"widget"}, WidgetTypeOK)
  /\ Typed({"actions"}, ActionTypeOK)
  /\ Typed({"storing", "marking"}, OverlayTypeOK)
  /\ Typed({"panel"}, PanelTypeOK)

(* Two commands never change the profile at the same time unless a crashed *)
(* one had taken the reclaim guard along, commands that create or rotate   *)
(* the bridge's credential end with the one token that is stored, and an   *)
(* installation ends or is undone without touching what is not its own:    *)
(* see ProfileLock, CredentialFile and BridgeInstall.                      *)
CommandsAreSafe == [](OneCommandWithoutLostGuard /\ CredentialSafe) /\ InstallIsSafe

(* What a page shows of a session, its widget and its markers, keeps to the *)
(* worker's word: see WidgetLease and OverlayRegistry.                     *)
PagesAreSafe == WidgetIsSafe /\ OverlayIsSafe

(* A client whose identity is the desired one gets a bridge, and a bridge  *)
(* does not take a bearer that was replaced for ever: see BridgeOwner and  *)
(* HttpOwner.                                                              *)
OwnersServe == DesiredServed /\ OldBearerDies
=============================================================================
