SPECIFICATION Spec
CONSTANTS
  Parts = {"owner", "lock", "install", "credential", "sessions", "broker", "http", "selection",
           "sharing", "confirming", "widget", "actions", "storing", "marking", "panel"}
  Clients = {c1, c2}  OwnerSlots = {o1, o2}
  MaxChanges = 1  MaxOpen = 1  MaxStarts = 2
  Commands = {d1, d2}  MaxLockCrashes = 2  MaxLockFaults = 1
  MaxOutside = 1  MaxCodexFaults = 1
  Users = {u1, u2}  MaxRequests = 3  MaxAttempts = 2  MaxFileFaults = 1
  Sessions = {s1, s2}  ToolRequests = {r1, r2}
  MaxSessions = 1  MaxInFlight = 2  MaxPerSession = 2  MaxControls = 1  MaxStreams = 1
  CallIds = {i1, i2}  MaxCalls = 3  MaxPendingCalls = 2  MaxOutput = 2  MaxBrokerFaults = 2
  HttpClients = {h1}  HttpSlots = {w1, w2}  MaxTurnovers = 1  MaxHttpFaults = 1
  Starts = {a1, a2}  SelTabs = {t1, t2}  MaxSelEvents = 3  MaxSelFaults = 1
  Versions = {v1, v2}  ConnRequests = {1, 2}
  MaxBrowserSessions = 3  MaxSequence = 2  MaxApprovals = 1  MaxConnFaults = 1
  WidgetTasks = {k1, k2}  MaxSurfaces = 2  MaxWidgetEvents = 4  MaxWidgetFaults = 1
  MaxActions = 3  MaxQueued = 2  MaxPorts = 3  MaxMoves = 1  MaxActFaults = 1
  OverlayPaths = {q1, q2}  OverlayIds = {j1}  MaxOverlayRecords = 1  MaxProjections = 3
  MaxOverlaySent = 2  MaxOverlayAsks = 2  MaxOverlayEvents = 2  MaxOverlayClicks = 1
  MaxOverlayFaults = 1
  Sites = {p1, p2}  PanelItems = {m1, m2}  NoteTexts = {n1}
  MaxTyped = 2  MaxPanelEvents = 2  MaxElsewhere = 1  MaxPanelFaults = 1
INVARIANTS
  TypeOK
  ConnectionIsSafe
  PagesAreSafe
  ActionsAreSafe
  PanelIsSafe
PROPERTIES
  CommandsAreSafe
  RecoveryIsSound
  SelectionObeys
CHECK_DEADLOCK FALSE
