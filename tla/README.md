# meanthis: a TLA+ verification development

meanthis lets a user point at parts of web pages and hand them to a coding
agent.  An MV3 browser extension captures elements and keeps them in sessions,
one per web origin; a local bridge process (the CLI) shares the session of a
paired browser with agents over MCP and carries an agent's proposals ("this
annotation is resolved") back to the user, who approves or rejects them.
Everything is local; what is hard is that a browser kills the background worker
at any moment, that storage calls fail one by one, that pages navigate, tabs
close and agents, bridges and browsers reconnect.

The modules here model the parts of the program where those things meet
durable state, and where processes of the command line meet each other.  TLC
checks them on small instances, and TLAPS proves for every value of the constants
what matters most of seven of them: the session store, the durable clear, the
bridge's mailbox, the execution of agents' changes, the actions asked of the page's
widget, the connection to the bridge and the side panel.

1. Inventory of the system
2. What is modelled, and how it corresponds to the code
3. The runs: questions, bounds, results
4. Fairness
5. The proofs
6. Findings
7. What is not modelled
8. Plan

Paths are relative to `src/`; `ext/` is short for `apps/extension-mv3/src/`.

## 1. Inventory

| component | state | operations | talks to |
|---|---|---|---|
| Capture session store (`ext/session-store.ts`, `session-state.ts`, `clear-operation.ts`) | per origin in `chrome.storage.local`: session file, meta (epoch, clear in progress, last completed clear, 64 receipts), annotation ledger, a compatibility projection; one projection for all origins; the clear authority | `beginCapture`, `commitCapture`, `removeItem`, `clear`, `clearOrigins`, `finalizeClearOperation`, `clearAll`, label, note and lifecycle edits | called by the background worker, under one exclusive lock |
| Capture leases (`ext/background-controller.ts`) | the current lease generation, per frame tokens; volatile | issue, invalidate on navigation, selection change and clear | guard every commit at the moment of its write |
| Clear projection journal (`ext/clear-projection-store.ts`) | per clear operation: targets (documents showing an origin) pending, delivered, acknowledged, superseded; attempt counts; durable | prepare, commitOrigins, markDelivered, acknowledge, supersede, replace, remove | durable clear coordinator |
| Durable clear coordinator (`ext/background-controller.ts` 9132-10486) | drains in flight, alarms | execute, resume, drain, deliver, acknowledge, reconcile, finalize | store, journal, pages, `chrome.alarms` |
| Selection intents and element selection (`ext/selection-intent-store.ts`, `background-controller.ts`, `content.ts`) | which page may pick elements: a lease in the worker, a durable intent, the pages' lifecycle ports | start, stop, resume, navigation, settings broadcast, expiry | leases, overlays |
| In-page widget: leases of its surfaces (`ext/in-page-widget-lease-store.ts`, `background-controller.ts`) | the surfaces the worker trusts; per tab a stored lease, and tombstones of released surfaces in another storage area | show, release, reject, restore, revoke, navigation, disconnect | bridge client, lifecycle execution |
| In-page widget: actions asked of it (`background-controller.ts`, `in-page-widget-entry.ts`) | a queue per surface, a drain, the port of the widget | accept, hand over, acknowledge, time out, reconnect | overlays, widget |
| In-page widget: view and host frame (`in-page-widget-view.ts`, `in-page-widget-host.ts`) | layout only | render, position | widget leases |
| Overlay projection registry (`ext/background-controller.ts`, `content.ts`) | the projections of the session that documents show as markers, acknowledged or not; in memory, written to session storage under a generation kept in local storage | restore, sync, acknowledge, resolve or remove by a click, invalidate | session store, pages, clears |
| Lifecycle mailbox of the bridge (`apps/cli/src/local-bridge.ts`, `annotation-lifecycle-control-state.ts`) | per paired browser: token, generation, shared snapshot, operations; all in memory | pair, disconnect, publish, submit, read, claim, reject, finalize | agents over MCP, browsers over HTTP |
| Lifecycle execution in the extension (`ext/background-controller.ts` 2632-3961, execution, delivery and ledger stores) | delivered proposals, approved executions, committed receipts; durable | read next, approve, continue, recover, terminate | session store, bridge |
| Local agent bridge client (`ext/local-agent-bridge*.ts`, `apps/cli/src/local-bridge.ts`) | in the extension, in session storage: connection request, token, what is shared, the clear that is owed; in the bridge, in memory: requests, trust, instances | ask, approve, refresh, share, withdraw, disconnect, read confirmation | bridge |
| Local bridge owner (`apps/cli/src/local-bridge-owner.ts`) | the port; a marker file with the desired build; activity of the owner | ensure, probe, spawn, poll, check, close | clients of the bridge |
| Credential files (`local-bridge-agent-token.ts`, `local-bridge-mcp-http-token.ts`) | one token file each, in a directory of its own | load or create, inspect, rotate, remove what failed | all processes of the command line |
| MCP over HTTP (`local-bridge-mcp-http.ts`) | sessions, requests in flight, early cancellations; in memory | initialise, post, cancel, stream, delete, expire | MCP clients |
| MCP stdio broker (`local-bridge-mcp-stdio-broker.ts`) | what the client waits for, generation of the transport | forward, cancel, answer, recover, close | one MCP client, the MCP owner |
| MCP HTTP owner (`local-bridge-mcp-http-owner.ts`) | the port, a marker file | ensure, verify, renew the bridge's lease, close | bridge owner, brokers |
| Installation and rotation (`bridge-cli.ts`) | registrations of the Codex command line, both credentials | install, uninstall, start, rotate, roll back | Codex, both owners |
| Profile lock (`bridge-cli.ts` 2483-2800) | a lock file and a reclaim guard | acquire, take over, release | concurrent commands |
| Native host | none | frame, print | browser |
| Side panel session controller (`ext/panel-session-controller.ts`) | snapshot of the session on screen, the typed note and its debounce, a recovery, three revision counters | initialise, refresh, select, type, save, resolve, remove, clear, retry, discard, export | background |
| Side panel rendering, options page, content script views | none | render | background |
| Hub core, extraction, schema, prompt, replay | none (pure) | select, normalise, format | everybody |
| Source map tools, demo | none | look up | |

The behaviours that are hard, per component, and the properties that make it
correct:

* **Session store.**  A mutation is several storage calls, and the worker may
  die between any two.  Tokens handed to pages outlive clears.  Clears of one
  and of several origins compete, and are resumed by whoever finds them
  unfinished.  Correct means: a capture is stored at most once, a deleted one
  stays deleted, a resumed clear never deletes what was captured after it
  began, no tombstone is left that nobody can finish, and no projection shows
  an item that is gone.
* **Leases.**  Checks are made before `await`s and the lease may be gone after
  them.  Correct means: nothing is stored under a lease that was revoked.
* **Clear journal and coordinator.**  Two records of one operation (journal and
  authority) are written by separate calls; instructions to pages and their
  answers are lost, late or repeated; tabs navigate in between.  Correct means:
  every page that showed a cleared origin is told, or is gone, before the
  operation is forgotten, and the alarm never stops while something is left.
* **Mailbox.**  Operation ids are chosen by agents and may be reused and sent
  twice; browsers reconnect with receipts of their earlier connection; the
  clock expires operations that are executing and may be set back.  Correct
  means: what enters was shown by the browser as the agent describes it, and
  each operation is settled at most once, only by a claim of its own
  connection, and never after it was refused.
* **Lifecycle execution.**  Ledger, execution record, published snapshot and
  acknowledgement are four effects with a crash between any two.  Correct
  means: an approved change is applied at most once and what the bridge calls
  applied was applied.
* **Element selection.**  A start awaits injection, the store, the page's mode
  and its confirmation, and stops, other starts and navigations come between.
  Correct means: no page goes on picking after its user stopped it, and nothing
  resumes what was stopped.
* **Widget leases and actions.**  Memory, a stored lease and tombstones are
  written one after the other, and the worker ends between them; a port is lost
  while an action is on its way.  Correct means: a released surface never speaks
  for its tab again, at most one does, and actions are answered in order.
* **Overlay registry.**  A projection is read, numbered, written, sent, applied and
  acknowledged, each at another await; captures, clears, navigations and a restart
  come between.  Correct means: a reference never names two contents, nothing is
  shown from before a clear, and a click changes what its marker showed.
* **Bridge client.**  Requests and answers are lost, either side restarts, a
  status is read outside the lock.  Correct means: what was withdrawn stays
  withdrawn and what is owed arrives, and the panel's "the agent read this" is
  about what is shared.
* **Side panel.**  Every request is an await: answers come after newer requests,
  after newer notes, after the page or the session changed.  Correct means: no
  typed note is lost, and an exported file is complete.
* **Owners.**  Several clients of several builds start processes for one port.
  Correct means: the desired build comes to serve, and an owner with a replaced
  bearer goes.
* **Credential files, profile lock, installation.**  Files written by several
  processes that die anywhere.  Correct means: one token for everybody, one
  command at a time and no lock left for good, and what a command reports is
  what is registered.
* **MCP sessions and broker.**  Cancellations, answers and the replacement of
  the server cross.  Correct means: a cancelled request gives its place back,
  and a recovered broker loses and mixes up no answer.

`PROJECT.json` lists under `hazards` each place where these bite, with the
property that covers it or the reason why none does yet.

## 2. What is modelled

### `SessionStore` (with `CaptureLog`): the store and the leases

| module | code |
|---|---|
| `meta`, `file`, `proj`, `latest` | the V3 keys of an origin and the projections |
| `clearOp`, `generation` | the clear authority record (`clear-operation.ts`) |
| `job` | the remaining storage calls of whoever holds the store's lock |
| `begin`, `lease`, `asked` | the worker's volatile state: a token request in flight, the one lease that is current, the user's clear waiting for the lock |
| `token`, `issued` | what capturing pages hold |
| `BeginCapture`, `IssueToken`, `RefuseToken` | `beginCapture` and its caller in the worker |
| `CommitNew`, `CommitReplacement`, `ReplayCommit` | the three ways of `commitCapture`/`commitSessionCapture` |
| `RemoveItem`, `RemoveWrite` | `removeItem`: projections first, then the file |
| `SavedClear`, `Purge`, `Complete` | `clear` and the sweep both kinds of clear share |
| `PrepareClear`, `ResumeClear`, `AlreadyCleared`, `ResumeOrigin`, `StartOrigin`, `ConflictOrigin`, `RecordOrigin`, `FinalizeClear` | `clearOrigins` with its durable authority |
| `ClearAll` | `clearAll` |
| `StorageError`, `WorkerDeath` | a rejected storage call; the browser ending the worker |

Abstractions, each chosen so that every control path stays:

* All mutations run under one exclusive Web Lock, so one that makes one storage
  call is one action, and one that makes several is split at each; `set` or
  `remove` of several keys is one atomic write, as Chrome documents.
* An item version is named by the capture that wrote it; that stands for the
  pair createdAt/capturedAt the code compares.  Item ids are numbers which,
  like the code's, are given again after a removal.
* Epochs are random UUIDs in the code and counters per origin here: the model
  never draws one twice, as the code practically does not, and the order only
  serves to state properties.
* The lease guard (`isCurrent`, `refresh`, `beforeWrite`) is evaluated last
  before the write, so the model evaluates it there.  `InvalidateLeases` may
  occur between any two actions.
* The content script does not send a commit again by itself
  (`ext/capture-selection-controller.ts` 70-110); `ReplayCommit` is the retry
  the store promises to answer, and needs a current lease like every commit.
* The background worker also refuses the clear of a saved origin that a durable
  clear owns.  The store does not, and the model has what the store does: more
  behaviours than the program.

`CaptureLog` is the promise: each capture is unused, open, live or dead; only
the newest one can become live, and dead is for good.  `ImplementsCaptureLog`
is the refinement, with `StatusOf` as the mapping.

### `LifecycleMailbox` (with `LifecycleOutcome`): the bridge's operations

| module | code |
|---|---|
| `link` | the registered browser instance: connection generation, `lastSeenAt`, shared snapshot |
| `owner` | `operationOwners`, kept beside the mailboxes |
| `mailbox` | `AnnotationLifecycleControlState` per instance |
| `claims` | claims browsers were handed; they keep them across reconnects |
| `Pair`, `Disconnect`, `Revoke` | `connect`, `disconnect`, the end of an approved connection request |
| `Publish`, `ClearSharedCapture`, `Heartbeat` | the browser's calls of the same names |
| `Submit`, `Read`, `ReadNext`, `Claim`, `Reject`, `Finalize` | the handlers of the mailbox |
| `SetClock` | `Date.now()`, in either direction |

* The bridge is one Node process and no handler awaits between its reads and
  its writes: each is one action.  A handler that refuses changes at most what
  its look at the clock changes (`expireActive`), which is action `Read`.
* A claim reads the clock for the approval and again for the execution; the
  model keeps both readings (`Claim(i, o, t)`).  A finalisation reads it more
  than once without a state in between that anybody sees, and has one.
* Snapshots are arbitrary: the model lets a browser publish anything newer.
* The "approved" phase exists only inside a claim.  The receipt statuses
  failed, cancelled, stale and conflict all give the phase "unknown".
* A process that restarts loses every connection and mailbox at once; that is
  not modelled, nothing of it is durable.

`LifecycleOutcome` is the promise: each submission over a connection is
offered, claimed, possibly lapsed, and then settled, once; refused and gone are
final.  `Became` maps the bridge's records to it.

### `LifecycleExecution`: carrying out what agents propose

| module | code |
|---|---|
| `status`, `asked`, `late` | the bridge's mailbox, as `LifecycleOutcome` promises it; what a submission proposes to leave, and whether its time is over |
| `connection`, `shared` | the pairing and the snapshot the bridge has |
| `item`, `version`, `ledger` | the annotated item and `session.updatedAt` in the session file, the receipts of `annotation-lifecycle-operation-ledger.ts` |
| `delivery`, `exec` | the delivery and execution stores in `chrome.storage.session` |
| `document`, `lease` | what the tab shows, and the widget lease that is current |
| `task` | what the handler that holds `annotationLifecycleControlExecutionTail` has left to do |
| `BeginRead`, `SaveDelivery`, `Tidy`, `Retire`, `ReadNothing` | `readWidgetAnnotationLifecycleControlProposal` |
| `BeginReject`, `Refuse` | `rejectWidgetAnnotationLifecycleControlProposal` |
| `BeginApprove`, `Claim`, `SaveApproved`, `Handoff` | `approveWidgetAnnotationLifecycleControlProposal` |
| `Authorize`, `Write`, `Commit`, `Publish`, `Ack`, `Drop` | `continueWidgetAnnotationLifecycleControlExecution` and `applyAnnotationLifecycleOperation` |
| `Fail`, `Nack` | `finalizeAnnotationLifecycleControlFailure` |
| `BeginRecover`, `Recovery`, `Judged`, `Visit` | `recoverAnnotationLifecycleControlExecutions` |
| `BeginTerminate`, `Termination`, `RejectDelivered` ... `AllForgotten` | `terminateAnnotationLifecycleControlForCanonicalRemoval` |
| `RemoveItem`, `Disconnect`, `Released` | what its callers do once it succeeded: remove, clear (which empties the ledger), disconnect, release of the widget |
| `WorkerDies`, `BrowserRestarts`, `CallFails` | the faults |

* A handler is split at every call to the bridge and every storage write.  The
  publication is one action: its read of the session and its call to the bridge
  have no write of ours between them, and a stale snapshot is refused at `Ack`.
* There is one annotation in one origin and one frame.  A surface and a document
  are one notion: the widget of a new document has a new surface.  A lease that
  is lost and gained again in one document counts as the same one, which gives
  the model more behaviours than the code has.
* A fingerprint is the submission it was computed from.  The code computes it
  without the connection, so that an id sent again with the same content has the
  same one; `Retries` says whether agents do that.
* An effect whose answer is lost is the effect, followed by a failure of the
  step after it.
* `Retries` and `Edits` divide the state between the runs, and so does the focus
  of `MCLifecycleExecution`; the module with everything in it (two connections and
  documents, all edits, one fault) has passed the safety properties as well,
  4 262 242 states.

### `ClearJournal` and `DurableClear`: clearing a page

Two stores say how far a clear is: the session store's authority (which origins
were cleared, and the epoch each has since) and the projection journal (which
documents still have to take their markers down).  Requests, the drain, the
reconcile pass, finalisations and the handlers of navigations and restore
requests all work on both, one at a time per operation (`LeaseFree`).

| module | code |
|---|---|
| `ClearJournal` | `ext/clear-projection-store.ts`: one action per operation, since each reads, changes and writes the journal under one lock |
| `canon`, `epoch`, `last`, `saved` | the session store seen from outside: `clearOrigins`, `finalizeClearOperation`, `clearAll` |
| `req`: `Look`, `Ask`, `Resume` ... `Settle` | a request of the panel: `clearActivePageSessions`, `resumeExistingDurableClearProjection`, `executeDurableClearProjection` |
| `barrier`, `loaded` | `clearActionBarriersByOperationId` (1159-1358) |
| `Deliver`, `Timeout`, `Acknowledged`, `Disbelieved` | `deliverClearProjectionTarget`, `acknowledgeClearProjection` |
| `HandleNavigation`, `HandleRestore`, `TaskStep` | `replaceClearProjectionTargetsForLiveSubject` and its two callers |
| `Finalize`, `Forget` | `finalizeClearProjectionOperation`, its two writes |
| `ReconStart` ... `ReconEnd`, `DrainStart`, `DrainEnd`, `Reschedule`, `AlarmFires` | `reconcileClearProjectionJournal`, `requestClearProjectionDrain`, the alarm decisions |
| `TakeDown`, `Fenced`, `ShowMarkers` | the page: `applyClearProjectionTombstone` and `violatesClearProjectionFence` of `ext/content.ts` |
| `Capture`, `ClearAll`, `Navigate`, `ChangeRoute`, `CloseFrame` | the user and the browser |
| `WorkerDies`, `LoseMessage`, `PassError`, `RequestError`, `BarrierError` | the faults |

* A subject is a frame, its document, origin and path.  A target's projection id
  and revision are one number.  Attempts are not counted and due times not kept:
  an open target may be delivered whenever a drain or a request comes to it.
* `SessionStore` is not instantiated: what `DurableClear` needs of it is the
  epoch of each origin and how far each clear got, and `SessionStore` shows that
  an interrupted clear of its origins can be resumed.  An origin is cleared in
  one step here.  The rule that a clear of an id that completed at an origin is
  in conflict there (`last`) is the store's `lastCompletedClearOperationId`.
* A finalisation is asked for and waits for the lease, even where the code
  still holds it: more interleavings than the code has.  The drain asks at each
  accepted answer and the code after the whole batch.
* A page that moved on while its acknowledgement was under way may be believed
  or not: the sender is compared with the browser's frames before the write.
* A failed read in a handler that moves targets is a handler that moved none.
* The barrier is per operation; that it names origins and tabs, and its
  generation number, are left out, and a capture is refused by any barrier.  A
  request that ends reads the journal first and takes its barrier down in a later
  step (`Settle`), so that others come in between.

### `MCComponents`: thirteen components side by side

The modules below share no state with one another.  `MCComponents` extends all
of them; `part` says which one a behaviour moves, and the others rest where
their Init left them, so that the states add up and do not multiply.  Each
module also has a specification of its own (`OwnerSpec`, `WidgetSpec`, ...).
The connection is moved from two sides: `sharing` (shares, withdrawals and
faults) and `confirming` (agents that read and confirm, two sessions, no
faults), the markers too: `storing` (how the registry is kept, with faults) and
`marking` (how clicks and tombstones meet what changes, without faults).
`SelectingNext`, `CreatingNext`, `ActingNext` and `NotingNext` keep four of them small:
the first event of the selection is on one tab, and a fault is not combined with
the largest number of everything else.

#### `BridgeOwner`

| module | code |
|---|---|
| `build`, `agentKey` | what is installed at the entry path, the credential file |
| `desired` | the build marker that clients publish |
| `owners` | detached processes, from spawn to close, with their requests in hand |
| `clients` | where each `ensureLocalBridgeOwner` is |
| `ReadMarker`, `PublishDesired`, `CheckCurrent`, `FirstProbe`, `TestPort`, `ReleasePort`, `Reprobe`, `SpawnOwner`, `Poll` | `ensureLocalBridgeOwner`, await by await |
| `ReadIdentity`, `Bind`, `BindRefused`, `CheckDesired`, `CheckAgentKey`, `CheckFails`, `IdleTick`, `RecordActivity`, `GoIdle`, `Closed` | `runDetachedLocalBridgeOwner` and `createLocalBridgeOwnerLifecycle` |
| `StartClient`, `RefreshLease`, `StopClient` | `startLocalBridgeOwnerLease` |
| `Upgrade`, `RotateAgentKey`, `OwnerDies` | the world around |

#### `HttpOwner`

The same for the shared MCP server, whose clients first see to the browser
bridge and whose owner compares bearer, marker and files over and over.

| module | code |
|---|---|
| `files`, `bearer`, `httpMarker` | the installed build, the bearer and its access rights, the marker |
| `AskBridge`, `RenameMarker`, `ReadMarkerBack`, `ProbeOwner`, `TryPort`, `SpawnHttpOwner`, `PollOwner` | `ensureInstalledLocalBridgeOwners`, `ensureLocalBridgeMcpHttpOwner` |
| `IdentifyOwner`, `EnsureBridge`, `Listen`, `CheckCurrentOwner`, `CheckBuild`, `CheckCredential`, `RenewBridgeLease`, `StopForFault`, `EndOwner` | `runDetachedLocalBridgeMcpHttpOwner` |
| `ChangeFiles`, `RotateBearer`, `ExposeBearer` | the world around |

#### `ProfileLock`

| module | code |
|---|---|
| `lockFile`, `guardFile` | the lock and the reclaim guard, by nonce, with whether the record is written and its process runs |
| `CreateLock` ... `DropLock` | `acquireMeanThisBridgeProfileLock` and its helpers, one action per file operation |
| `CommandDies`, `TimePasses` | a process that ends anywhere; a file without a record that gets old |

#### `BridgeInstall`

| module | code |
|---|---|
| `regs` | the three registrations of the Codex command line |
| `cmd` | the one command under the profile lock |
| `late` | changes of Codex processes that could not be confirmed dead |
| `ReadFirst`, `DecideInstall`, `BackUp`, `ReadLatest`, `Change`, `Verify`, `ReadFinal` | `runInstallLocked`; `DecideUninstall`, `DecideRotation` for its siblings |
| `Undoing`, `UndoRead`, `UndoChange`, `UndoVerify` | `rollbackRegistrationMutations`, `restoreRegistration` |
| `RotateMcp`, `RotateAgent`, `VerifyKeys`, `VerifyTurnover`, `EnsureBrowser`, `EnsureHttp` | the rotations and the turnover of both owners |
| `ChangeFromOutside`, `LateProcessWrites`, `OwnerEnds` | writers that ignore the lock |

#### `CredentialFile`

| module | code |
|---|---|
| `style` | the agent's credential or the MCP bearer, which do it differently |
| `folder`, `disk` | the directory and the file: who made them, token, mode, stamp |
| `Exists` ... `ReadBack` | creation in `loadOrCreate...`; `Stat`, `Inspect`, `Read`, `VerifyRead`: reuse |
| `Check`, `Recheck`, `Remove`, `RemoveFolder` | `removeCreatedCredentialIfUnchanged`, `removeOwnedDirectoryIfEmpty` |
| `Temporary`, `Prepared`, `Rename` | the rotations |

#### `McpSessions` and `StdioBroker`

| module | code |
|---|---|
| `sessions`, `tools`, `cancels` | sessions and what they retain, requests from admission to answer, early cancellations |
| `Initialize` ... `Opened`, `Post`, `Track`, `Ready`, `ToolEnds`, `Cancel`, `DeliverCancel`, `CompleteCancel`, `Expire`, `DeleteSession` | `handleAuthorizedMcpRequest`, `beginSessionRequest`, `trackSessionRequestResponses`, `cleanupSession` |
| `broker`, `calls`, `answers`, `output` | phase and generation of the transport, what the client waits for, answers on their way |
| `Call`, `CancelCall`, `AnswerArrives`, `Accepted`, `PostFails`, `PrepareReconnect`, `OpenReplacement`, `Resend`, `CheckBrokerIdentity`, `CloseBroker` | `startLocalBridgeMcpStdioBroker` and its recovery |

#### `ElementSelection`

| module | code |
|---|---|
| `lease`, `keptPort` | the worker's lease of the selection and the leased page's port |
| `starts` | a start and the await it is at (`setElementSelectionLease`) |
| `intent`, `storeQueue` | `selection-intent-store.ts`: the durable intent, its queue and its poison |
| `deliveries` | content settings on their way to pages: all off, then one on |
| `pages`, `wire`, `cut` | what each page does, ports opened and closed by pages or by the worker |
| `TellOff`, `TellOn`, `Arm`, `AnswerPage`, `ApplyAnswer`, `PortOpened`, `PortClosed`, `PageCut` | `broadcastContentSettings`, `content.ts`, `selection-lifecycle.ts` |

#### `BridgeConnection`

| module | code |
|---|---|
| `client` | `LocalAgentBridgeSessionState` in session storage |
| `op` | the operation that holds the session lock and the request it waits for |
| `status` | a status that is read without the lock |
| `inst`, `reqs`, `trusts` | the bridge's instance, connection requests and trust |
| `CreateConnectionRequest`, `PollRequest`, `Proved`, `WithToken`, `ProbeCapability` | the way from the invitation to a token |
| `Publish`, `Put`, `Withdraw`, `ClearSharedCapture`, `Delete`, `Beat` | sharing and the three ways to withdraw |
| `HandleAlarm`, `HandleStorageChanged`, `WorkerRestarts` | what takes an owed clear up again |
| `ReadStatus` ... `SaveStatus`, `ReadCapture`, `AcknowledgeCaptureRead` | the confirmation that an agent read the capture |
| `ApproveConnectionRequest`, `RejectConnectionApproval`, `RequestExpires`, `BridgeRestarts` | the bridge's side |

A request the client gave up on is handled by the bridge before the next one
or never; so a lost answer is a change of the bridge alone.

#### `WidgetLease` and `WidgetActions`

| module | code |
|---|---|
| `live`, `bad` | `inPageWidgetLeasesBySurfaceId`, and those marked as released |
| `record` | the stored lease of the tab |
| `tombs`, `poison`, `loaded`, `authority` | tombstones in the other storage area, and whether they can be relied upon |
| `tasks`, `waiting` | what is under way, and the storage requests in the order they were made |
| `BeginShow`, `ShowNew`, `ShowAgain`, `ShowAnswer` | `showInPageWidget`, `showInPageWidgetOnce` |
| `BeginEnd`, `EndMarks`, `Discard`, `RevokeTab` | release, rejection, revocation of a tab |
| `BeginRestore`, `RestoreChecks`, `Restores` | `resolveInPageWidgetLease` |
| `StoreAnswers`, `TombsWritten`, `Poisons`, `Saved`, `Forgotten`, `Found` | the answers of storage |
| `Navigates`, `Committed`, `DisconnectExpires`, `RecordLapses`, `WidgetWorkerDies` | the world around |
| `queue`, `queueId`, `drain` | `pendingInPageWidgetActionsBySurfaceId` of the surface and the one task that hands them over |
| `actPort`, `newPort`, `widgetPort`, `down`, `up` | the lifecycle port as each side sees it, and its messages |
| `Accept`, `Prepare`, `Acknowledged`, `AckTimeout`, `Settled`, `DrainEnds`, `Retain`, `GoesDormant` | the worker |
| `Connect`, `Receive`, `CarryOut`, `Acknowledge`, `SeesPortClosed` | the widget's consumer (`in-page-widget-entry.ts`) |
| `FrameMoves`, `Asked` | `clearPendingInPageWidgetActionsForNavigation`, with its await |

* What follows an await of a settled promise happens at once (`AtOnce`); the
  tasks interleave where the code waits for storage or a page.
* A page is one that has a widget or has not; what an action does is left out.

#### `OverlayRegistry`

| module | code |
|---|---|
| `registry`, `issuedHere`, `registryOK` | `overlayProjectionRegistry` of the worker, which of its records this worker made, whether it could be read |
| `kept`, `writer` | what storage has, and `overlayProjectionRegistryWriteTail` |
| `turn` | the request the origin's queue runs, and its await |
| `syncs`, `cleanups` | changes the page has to be told of; navigations and tombstones that drop records |
| `page`, `asks`, `states`, `tombstones`, `acks`, `click` | what `content.ts` shows and has acknowledged, the restores it asks for, messages on their way, the marker that was clicked |
| `LoadOverlayRegistry`, `WriteGeneration`, `WriteRecords` | `ensureOverlayProjectionRegistryLoaded`, `persistOverlayProjectionRegistry` |
| `StartRestore`, `RestoreCreates`, `RestoreWritten`, `StartSync`, `SyncCreates`, `SyncWritten` | the two ways a projection is made and sent |
| `StartClick`, `DecideClick`, `ChangeItem` | a click on a marker: which record owns it, and the change it asks for |
| `AckReads`, `AckMarks`, `AckWritten`, `CleanupReads` ... `ForgetCleared` | acknowledgements and invalidations in the worker |
| `GetState`, `GetRestore`, `BindTargets`, `AckAnswered`, `ClickMarker`, `ClickAnswered`, `TombstoneArrives` | the page |
| `PageMoves`, `ItemCaptured`, `ItemRemoved`, `OverlaySessionCleared`, `RestoreAskedAgain`, `OverlayWorkerStops` | the world around |

* `CreateProjection` gives a place the next revision of the reference it has, or a
  new reference, and evicts the oldest records above the capacity.
* The generation only grows, and so only whether the stored records have the
  current one is kept (`kept.agrees`).
* `sentOnce`, `shown` and `acted` are history variables of the properties.

#### `PanelSession`

| module | code |
|---|---|
| `snap` | `PanelSessionSnapshot`: session, chosen item, note and `intentDirty`, recovery |
| `task` | the newest request and the await it is at; `calm` and `same` are `stateRevision` and `intentRevision` compared with what the request remembered |
| `saves`, `mutation` | updates and the removal, resolution or clear on their way to the background |
| `timer`, `front`, `stored` | the debounce; the page in front; the sessions as the background has them |
| `draft` | what the user typed last (history variable of the property) |
| `Type`, `SetViewMode`, `Flush`, `Debounced`, `SelectItem`, `SetAnnotationLifecycle`, `RemoveItem`, `ClearSession`, `RefreshActiveOrigin`, `RetryDirtyIntent`, `DiscardDirtyIntent`, `ReadExport` | the operations of the controller, up to their first await |
| `FlushThen`, `GoOn`, `Mutate`, `Send` | `flushCurrentIntent` and what its caller goes on with |
| `BackgroundReads`, `BackgroundSaves`, `BackgroundMutates`, `Elsewhere` | the answers of the worker, failed and lost ones too, and what others do |
| `RefreshRead` ... `Reconciled` | the operations after an await |

`snapshotRequestRevision` makes an older request drop its answer, so there is one
`task`; what an older one had sent still arrives.  The page stands for its
origin, and the item chosen when the code names none is any.

## 3. The runs

| run | constants | properties | distinct states |
|---|---|---|---|
| `session_items` | 1 origin, 3 captures, 2 items, window 1, 3 epochs, 1 fault, `OverlapClearAll` FALSE | `TypeOK`, `ProjectionBacked`, `ImplementsCaptureLog` | 832 301 |
| `session_clears` | 2 origins, one saved and one durable clear, 1 capture, 1 item, 2 epochs, 1 fault, `FairSpec` | `EpochFence`, `TombstoneOwned`, `CommittedIsCleared`, `ClearTerminates` | 487 556 |
| `session_retry` | 1 origin, one durable clear, 1 capture, 2 epochs | `RetryRefused`: violated | |
| `mailbox` | lifetime 2, clock 0..2, a mailbox for 1, 3 pairings, 2 snapshots; either 2 browsers and 2 ids ("owners") or 1 of each ("outcomes") | `TypeOK`, `OwnersKnown`, `ReceiptsAnswerClaims`, `SubmittedAsShown`, `ImplementsOutcome` | 465 841 |
| `execution` | 2 documents, 1 fault; either 1 id sent again over 2 connections ("again") or 2 operations beside any edit ("beside") | `TypeOK`, `AppliedOnce`, `AnswersAreReal`, `AppliedAsApproved`, `AppliedNotForgotten` | 3 722 332 |
| `execution_progress` | 1 operation, 2 connections, 2 documents, no edits, 2 faults, `FairSpec` | `AppliedIsAnswered`, `ClearHappens` | 153 854 |
| `execution_stuck` | as above with an edit of the note and 1 fault | `ClearHappens`: violated | |
| `clear_pages` | 1 clear, 1 request, 1 frame, 2 origins and paths, 1 move of the user, symmetry | `SnapshotConsistent`, `AckMeansClean`, `WorkKept`, `ReplyIsReal` | 1 974 393 |
| `clear_retries` | 1 clear, 2 requests, 1 frame and document, 1 fault of any kind, `FairSpec` | `StoresReadable`, `BarrierHolds`, `NoStranded`, `ClearCompletes` | 351 209 |
| `clear_refused` | 1 clear, 2 requests, no fault and no move | `RetryIsTaken`: violated | |
| `components_safety` | every part of `MCComponents`, bounds below | `TypeOK`, `CommandsAreSafe`, `ConnectionIsSafe`, `PagesAreSafe`, `ActionsAreSafe`, `PanelIsSafe`, `RecoveryIsSound`, `SelectionObeys` | 1 592 075 |
| `components_progress` | owner, lock, sessions, http, sharing, actions, `FairSpec` | `OwnersServe`, `LockRecovers`, `CancelledIsAnswered`, `ClearIsDelivered`, `ActionsAreServed` | 110 613 |

The properties of the two `components` runs, by module:

| property | says |
|---|---|
| `CommandsAreSafe` | `OneCommandWithoutLostGuard` (`ProfileLock`): two commands never change the profile at once unless a second process died with the guard.  `CredentialSafe` (`CredentialFile`): creators agree on the stored token, and a rotated one stays.  `InstallIsSafe` (`BridgeInstall`): a command that says it left things as they were did, nothing is changed beside a process that may still write, and a foreign registration is overwritten only if it came after the last reading |
| `RecoveryIsSound` | `StdioBroker`: every answer belongs to the client's last request of that id, and a quiet recovery loses none |
| `SelectionObeys` | `ElementSelection`: a page that picks is the leased one or is about to be told, and a resumption never undoes a stop |
| `ConnectionIsSafe` | `BridgeConnection`: what a clear withdrew is not on the bridge again, and "the agent read this" is said of what is shared (`ClearHolds`, `ConfirmationIsCurrent`) |
| `PagesAreSafe` | `WidgetLease`: a released surface is never trusted again, by this worker or a later one; at most one surface speaks for a tab; a restart would trust the one the page has (`ReleaseIsFinal`, `OneSurface`, `RestartFindsLive`).  `OverlayRegistry`: a reference names one projection (`OneContent`); what counts as acknowledged was shown, and would be found by the next worker (`AckedWasShown`, `AckedIsStored`); a click names what is shown (`ClickNamesShown`); nothing from before a clear is shown after its tombstone (`NothingClearedShown`); a click changed an item of the projection that was shown, in its session, with nothing newer sent (`ActedAsShown`) |
| `ActionsAreSafe` | `WidgetActions`: an answer is the one to that action, and no action overtakes an older one while nothing navigates (`AnswersFit`, `NoOvertaking`) |
| `PanelIsSafe` | `PanelSession`: a typed note that was neither saved nor discarded is in the field of its item or put aside with it (`DraftIsKept`), and an exported file has it (`ExportIsComplete`) |
| `OwnersServe` | `BridgeOwner` and `HttpOwner`: the desired build comes to serve, and an owner whose bearer was replaced ends (`DesiredServed`, `OldBearerDies`) |
| `LockRecovers` | no crash locks the profile for good |
| `CancelledIsAnswered` | a cancelled tool request gives its place back |
| `ClearIsDelivered` | a clear that is owed reaches the bridge, or its connection ends |
| `ActionsAreServed` | the queue of the widget is empty again and again |

Why these bounds are enough to be interesting:

* Three captures with two ids are needed for the id-reuse cases: remove the
  first, capture the second under its id, replace it by the third.  A receipt
  window of 1 makes every second commit push a receipt out, so a retry meets a
  list that has forgotten it.
* Two origins make a durable clear stop between them, and let another clear
  take one of them.  Three epochs are one capture epoch and two clears.
* One fault puts a failure between any two writes of any mutation; what was
  interrupted is then met by every later operation.  A second fault would
  interrupt a resumed clear, which has the same states as an interrupted first
  one; the proofs have no such bound.
* `OverlapClearAll` FALSE keeps "clear all" out of the time a durable clear is
  unfinished.  That is the one place where the store breaks the capture log
  (finding below); with it FALSE the refinement holds, and the runs that do not
  depend on it have it TRUE.
* The mailbox run asks one of two questions in each behaviour (`focus`): who owns
  an id, with two browsers and ids and a frozen clock (ownership does not depend
  on time), or how one operation ends, with a clock that moves both ways.  A
  lifetime of 2 leaves an instant for approval, execution and expiry each.
* The execution run does the same: "again" has two connections (an execution of an
  earlier one) and two documents (an approval on a page that is gone) while the
  user changes the state; "beside" has two operations and every kind of edit,
  one of which can fall between any two steps.  One fault is enough to leave
  every durable prefix of an execution; `execution_progress` has a second one,
  which interrupts the recovery of the first.
* Sessions are named by their change number, so "not changed since" is equality
  of numbers; the code compares timestamps in milliseconds, and `advanceTimestamp`
  (`ext/session-state.ts` 659-673) makes each later than the one before, whatever
  the clock says.

* The session store with two captures and the three safety properties of
  `session_clears` has 4 079 987 states and passes as well; one capture is enough
  for the clears, which race each other and not the captures.
* The clear runs divide what disturbs a clear: in `clear_pages` the user moves
  once (navigates, changes the route, closes the page, clears all) and captures
  whenever the barrier allows it; in `clear_retries` the page stays and a second
  request or a fault meets the first at every step.  Between them every action
  fires.  One move and one fault in one run, or a second frame, is more than
  TLC finishes in reasonable time.  Two clear operations with two requests and
  one fault (no moves) have 819 473 states and pass the safety properties, so that
  two ids compete for one page; that is not kept as a run.

* Of the components: two processes and two slots make every race for a port, a
  file or a lock; `MaxChanges` 1 is one upgrade, rotation or crash, `MaxTurnovers` 1
  one change of the MCP owner's build or bearer.  `MaxLockCrashes` 2 lets one
  command die with the lock and the next with the guard.  `MaxCodexFaults` 1 is a
  change that fails and is rolled back (with 2 the rollback may fail too: 207 624 states
  by itself, which pass).  `MaxRequests` 3 is two creators and a
  rotation.  One session is admitted and a second refused or waits
  (`MaxSessions` 1), with two requests and one cancellation of each.
  `MaxCalls` 3 reuses one of two call ids, and `MaxBrokerFaults` 2 lets a recovery
  be interrupted.  Two tabs, two starts and three events let a stop and a
  navigation fall between any two awaits of a start.
* The connection has two versions and three browser sessions, so that what was
  withdrawn can be shared again and a trust outlives its session; one lost
  request, answer or process falls anywhere.  Confirmations are looked at
  without faults, with two sequence numbers.
* The widget has two tasks, so that any two of show, release, navigation and
  restoration cross, two surfaces, four events and one storage request that
  fails.  `WidgetLease` by itself with three tasks and five events has 5 367 392 states
  and passes as well.  Three actions (two where progress is asked) with two
  places in the queue, three ports and one fault put a lost, replaced or silent
  port between any two messages.
* The markers have two paths, one item and one record (so that every second place
  evicts the first), three projections, two that are sent, two restores, two events,
  one click and one fault.  With two faults the storing side has 251 457 states by
  itself, which pass.
* The side panel has two sites, two items, two edits, two requests, one change
  elsewhere and one failed answer: a second request, or a page that changed, meets
  every await of the first.  By itself it has passed with three requests (1 116 620
  states); the proof has no bound.
* `MaxMoves` is 0 in `components_progress`: a navigation whose scan crosses the drain
  can leave an action queued (section 6).

Every property of a passing run is shown to depend on the code by a mutant (in
`PROJECT.json`): the definition of one step is replaced by one with a
plausible bug, and TLC must then find the property violated.

## 4. Fairness

`session_clears`: weak fairness of the job's steps is the
promise chain: JavaScript runs the continuation of a settled call.  Weak
fairness of `ResumeClear` is the reconcile alarm: a drain ends by scheduling
the next one as long as an operation is unfinished
(`ext/background-controller.ts` 10087-10284).  No fairness is assumed of the
user, of pages, of a lease, or of the absence of faults: the bound on faults
says that there are finitely many.  No liveness is claimed of the mailbox,
since the widget's polling is not periodic.

`execution_progress` and `execution_stuck`: weak fairness of `Continue` is again
the promise chain.  Strong fairness of `BeginRecover` and of the termination
before a clear is the queue: both wait in `annotationLifecycleControlExecutionTail`
and get their turn whatever the handlers before them do; a recovery is asked for
at every start of the worker, every connection of a widget and every read of the
widget, and the clear is asked for again by the user whose captures are still
there.  The bridge is paired again when it is gone, since a clear with an
unacknowledged execution needs it, and the time of every proposal passes.  The
number of faults, pairings and edits is bounded; none of them is required to
happen.

`clear_retries`: weak fairness of the requests' steps, of the pass, of the drain
and of the handlers is the promise chain, that of `AlarmFires` is
`chrome.alarms`, that of `TakeDown` is the delivery of a message to a page that is
there.  Strong fairness of the acknowledgement and of `Finalize` is the lease:
waiters queue (`withClearProjectionOperationLease`), so each gets its turn
although others take the lease meanwhile.  Nothing is assumed of the user, nor of
the faults, whose number is bounded.  `ClearCompletes` has two exceptions, stated in
`Abandoned`: a clear that was never begun in the store waits for its user as long as
its page stays, and a document that was closed without a successor acknowledges
nothing.

`components_progress` assumes weak fairness only, of:

* the processes' own steps, which are promise chains and timers: `OwnerWork`, `Bind`
  and `ClientWork`, `HttpOwnerWork`, `CommandWork`, `ServerWork`;
* `EndRequest`, since every request of the bridge has a timeout of five seconds;
* `TimePasses` of the profile lock: a file without a record gets old; and of a
  command that is started again;
* `Expire` of a session that is left behind, and the end of streams and requests of a
  client that is gone, which is the closing of its sockets;
* `ConnectionWork`, the promise chain of the client, with `HandleStorageChanged` and
  `HandleAlarm`, which the browser delivers;
* `ActionWork`: the drain, the widget's consumer, messages of a port that is open, the
  four second timer and the reconnection of the widget.

Nothing is assumed of users, of agents, of other programs, of releases, of
upgrades or of faults, whose number is bounded.

## 5. The proofs

Eight modules hold the theorems, and TLAPS checks every step of them:
`SessionStoreProofs`, `DurableClearProofs`, `ClearPagesProofs` (which extends it),
`LifecycleMailboxProofs`, `LifecycleExecutionProofs`, `WidgetActionsProofs`,
`BridgeConnectionProofs` and `PanelSessionProofs`.  The assumptions are those on
the constants, which TLC evaluates in the runs: `ConstantsOK` of the store, and of
the clear with `JournalConstantsOK`, `MailboxConstantsOK`, `ExecutionConstantsOK`,
`ActionConstantsOK`, `ConnectionBounds`, `PanelConstantsOK` and `PanelNamesOK`.  They say that names are disjoint, bounds
natural, and the operations of the store and the frames of a tab finite.  Nothing
else is assumed but where a theorem says so (`StoreRefines`), and every bound of
the models is a constant, so the theorems hold for the capacities of the code.

**Session store.**  `InvariantHolds` proves `Spec => []IInv`.  The safety
properties are not inductive as they stand: between two writes they rely on
what the lock holder knows.  `IInv` adds

* `BeginOK`, `TokenOK`: what a request or token may name;
* `ItemsOK`: ids of an origin are unique, versions were issued;
* `EpochBound`: no epoch in use is above the counter it was drawn from;
* `DisjointOwners`, `OwnersActive`: no origin is owned by two recorded clears
  (the state in which the code's parser rejects the whole authority), and an
  owned origin belongs to a recorded operation;
* `JobOK`: for each step of the lock holder, what it has already written - the
  tombstone of the sweep, the epoch of the origin being recorded, the
  projections a removal has purged;
* `LatestOK`: the shared projection's capture and its origin.

From it follow `TypeCorrect`, `EpochsFence`, `TombstonesOwned`,
`CommittedCleared`, `ProjectionsBacked` and `OwnersDisjoint`.

`StoreRefines` proves that the store implements `CaptureLog`.  The refinement needs
more than `IInv`: that a capture, once stored, cannot be stored again although its
lease is still current and its request is repeated.  `LeaseOK` says why: a stored
capture is fenced off (`Fenced`), by its receipt as long as the epoch it was begun in
lasts, by a later epoch afterwards, and, where "clear all" has left no epoch at all,
because every clear that is still to be finished gives a later one.  The last case
is where the theorem needs its hypothesis `OverlapClearAll = FALSE`: a "clear all"
between two origins of a durable clear gives an origin an old epoch back, which
`session_retry` shows.  No other result depends on the hypothesis.

**Durable clear.**  Four kinds of processes write the journal and the store, and
each relies after a write on what it read before.  `ClearInvariant` proves
`Spec => []IInv`, where `IInv` is

* `Typed`: the types, stronger than `TypeOK` (what a request carries, the messages
  on their way, the subjects a handler is about);
* `JournalOK`: the journal's types and the rules of its parser, and finite sets, since
  the parser counts operations and targets;
* `LeaseOK`: requests, the reconcile pass and finalisations never run under the same
  operation's lease;
* `HolderOK`: what its holder relies on.  A request that clears has its operation
  in the journal, unbound and with the epochs it was prepared with, until it binds it;
  one that gives it up, and a finalisation between its two writes, has taken it out
  of the store;
* `CanonOK`: a clear is in the journal before it is in the store, and longer, and no
  generation of an authority is given twice;
* `SnapshotConsistent`, the property itself.

Every operation of the journal has a lemma (`PrepareKeeps`, `CommitOriginsKeeps`,
`ReplaceTargetKeeps` ...) that says it keeps `JournalOK` and loses no work; so has every
operation of the store what it does to `SnapshotConsistent`.  `OpKeeps`, `HolderKeeps` and
`PassKeeps` combine them with what a lease holder may change, `StepKeeps` covers all
actions.  From it follow `StoresCanBeRead`, `StoresAgree`, `LeaseIsExclusive`,
`NoWorkLost`, and `UsesJournal`: `Spec => JournalSpec`, so that the whole coordinator
uses the journal within its preconditions.

**Durable clear and the pages.**  What a page shows depends on messages that were sent
long before, by handlers that are gone and for documents that are gone.
`PagesInvariant` proves `Spec => []PageInv` on top of `IInv`: whatever is written down
anywhere stays true for good.

* `KnownOK`: nobody knows a document that a frame has not shown yet;
* `FenceOK`: on the path it was put up for, a fence lets only the epoch of its clear
  through;
* `EpochOK`: while an origin is to be cleared, it is given no epoch but the one its
  clear has reserved;
* `PromisesOK`: wherever an epoch is written down that an origin has after a clear (in
  a tombstone, an acknowledgement, the journal, the store or a request), the origin
  has no session, or that one or a later one;
* `AuthorityOK`: no page has heard of a later authority than the one that clears its
  origin now, so the fence of that clear has not been taken over;
* `AcksOK`: of an acknowledgement, on its way or in the journal: its document is fenced
  by that clear or a later one, and neither a later document of that origin in the frame nor a
  message to one has markers from before the clear.

`JournalStep`, `RequestMoves`, `EpochStep`, `CanonStep`, `FrameStep` and `NetMoves` say once
what any step may do to each part of the state, and the six parts are kept by
`KnownStep`, `FenceStep`, `EpochKeeps`, `PromisesKeep`, `AuthorityStep` and `AcksStep`.
`AcknowledgedIsClean` (`AckMeansClean`) follows from `AcksOK`, `FenceOK` and
`AuthorityOK`, and `RepliesAreReal` (`ReplyIsReal`) from `PromisesOK` and what a step does to
a request.

`NoStranded` speaks of a worker at rest, which says nothing of how it came to rest.
`NoClearStranded` proves it from `AlarmOK`: while an operation is in the journal,
something is going to read it again (`Awake`: the alarm, its decision, a pass, the drain),
or a request carries it (`Carries`), which arms the alarm or asks for the finalisation
when it is done.  `FlagMoves` shows that one reason to be awake ends in another or in
the alarm's decision, `RequestsHandOn` that a request lets an operation go only when
something is awake, and `NewIsCarried` that a request puts an operation into the journal
and carries it then.

`BarriersHold` proves `BarrierHolds` from the types alone: an attempt's name is what keeps its
late end from taking down the barrier of a newer one (`AttemptEnds`).  That an operation
in the journal always has a barrier, the obvious invariant, is false (section 6).

**Mailbox.**  `Inv` is `TypeOK`, `LinksOK` (each pairing has its own number, so
a connection identifies its browser), `OwnersKnown` and `RecordsOK` (each record
is of one of the shapes its phase allows, and its receipt answers a claim).
`MailboxTyped`, `MailboxOwners`, `MailboxReceipts` and `MailboxSubmissions`
follow.  `MailboxRefines` proves the whole refinement
`Spec => ImplementsOutcome`: the lemmas `SameConnections`, `LookBecame`,
`OneBecame`, `UnlinkBecame` and `MoveBecame` say what a step that changes no
connection, one record, or one connection does to the mapping, and each action
then is a step of `LifecycleOutcome` or a stutter.

**Execution of agents' changes.**  A task reads the bridge, the record, the user's
authority and the session at different moments, and may die between any two.
`ExecutionInvariant` proves `Spec => []IInv`; besides `TypeOK` and `AnswersAreReal` it has

* `BridgeOK`: only submissions of the newest connection have anything to do;
* `SessionOK`: the ledger has the receipt of exactly what was applied, until the
  captures are cleared, and a change that shows is the one its agent asked for;
* `ExecOK`: what each phase of a record stands for (approved: the bridge has not
  settled it; committed: it was applied; terminal: it does not show);
* `ApprovingOK`, `CarryingOK`: what the running task relies on at each of its steps,
  most of all that at the write the ledger has no receipt and the item is as expected;
* `AuthorityOK`: no record is of a newer connection than the one the task was told.

`ExecutedOnce`, `AnswersReal`, `ExecutedAsApproved`, `ExecutedNotForgotten` and
`ExecutionTyped` follow.

**Actions asked of the widget.**  `ActionsSafe` proves `ActionSpec => []ActionsAreSafe` and
`ActionsTyped` the types.  What the task takes when it settles was decided earlier, on
wires that may have been cut since, so `IInv` (`ActionsInvariant`) adds

* `AnswersOK`: every acknowledgement on its way says what the widget made of its
  action, which is final once it is consumed or rejected; the action the task waits for
  is fixed, so an acknowledgement that fits (`AckFits`) settles it with the truth;
* `OrderOK`: as long as no frame has navigated, the queue is in the order of asking,
  and an action behind the first, or not asked for yet, is neither with the widget nor
  on any port.  That is why a retry on a new port cannot overtake.

A navigation puts another array in the queue's place between two awaits; `LooksKeeps`
shows that what it keeps are actions that were asked for.

**Connection to the bridge.**  `ConnectionSafe` proves `ConnectionSpec =>
[]ConnectionIsSafe`.  `ClearHolds` alone says nothing of a token the client has not taken
yet, and the confirmation compares sequences that two connections may share, so `IInv`
(`ConnectionInvariant`) adds

* `TokensOK`, `PendingOK`: no token is younger than the last one issued; an approval the
  client still waits for has a token that no reader and no status has seen, and its
  instance holds no snapshot.  So a connection starts with nothing on the bridge;
* `SharedOK`: what is desired, and the snapshot on its way, is what the user shared
  since the last clear.  A clear that comes in between is seen by `Withdrawn`;
* `SequencesOK`, while every share was answered: client and bridge agree on the
  sequence of what is shared, and no reader or status of this connection is ahead of
  the client;
* `ReadsOK`: an equal sequence over the same connection is the same snapshot, for the
  agent's confirmation and for the answer the user is shown.

Most steps take no token, share nothing and read nothing; `Kept` proves the invariant for
all of these from what they leave alone (`ClientOld`, `PendingOld`, `InstOld`,
`ReadersOld`).  The bridge's own losses (`Pruned`, `Revoked`, `Disconnected`) are `Older`.

**Side panel.**  `PanelSafety` proves `PanelSpec => []PanelIsSafe`.  That a note is
kept is not inductive: whether an answer may replace the field depends on what its
request relied on when it was sent.  `IInv` adds

* `SnapshotOK`: nothing is typed or put aside without a session, and a note that is
  put aside while the field is edited is that of the field;
* `SavesOK`: only the last update on its way is waited for, by the request that is
  at this await, and it is what that request sent;
* `WaitingOK`: what each request may count on at its await.  The most important
  part: once a save has succeeded and nothing was typed since, the note typed last
  is not the one that was sent, so an answer that passes `StillCurrent` finds nothing
  unsaved.

Each action is a lemma; `GoOnFacts`, `FlushThenFacts`, `Ended` and `Assembled` are what
they share.  `MCComponents` moves the same `PanelNext`, so the run and the theorem
are about the same steps.

**Only model-checked**: the properties of the other ten modules of `MCComponents`, and
what shows a counterexample (`RetryRefused`, `RetryIsTaken`).  `ClearTerminates`, `ClearCompletes`, `ClearHappens`, `AppliedIsAnswered` and the
properties of `components_progress` say that something happens: liveness under fairness and
ENABLED are out of this prover's reach, as are recursive computations over data.

## 6. Findings

* `session_retry`: `session-store.test.ts` line 476 says the store "rejects an ABA
  retry after hard delete and same-item recreation"; it accepts one when
  "clear all" runs while a durable clear of an origin that had no epoch is
  unfinished.  `clearAll` (`session-store.ts` 307-330) deletes the sessions and
  their epochs but not the clear authority; the resumed clear finds no epoch,
  which is what it recorded as its starting point, and installs its fixed epoch
  a second time, now with an empty receipt list.  A token of a capture stored
  and deleted under that epoch is then current again.
* `execution_stuck`: `PRIVACY.md` line 51 promises that **Remove**, **Saved captures** and
  **Clear all saved captures** clear what the user asks for.  When the
  user edits the note of an annotation whose agent's change was applied and is
  not acknowledged yet, all of them are refused from then on: the durable
  readback wants `item.updatedAt` to be the receipt's `appliedAt`
  (`ext/background-controller.ts` 3532), no later edit makes it so again, and the
  termination they wait for returns false at that execution (3870-3961).  Only a
  restart of the browser, which empties `chrome.storage.session`, ends it.
  `execution_progress` shows that without the edit every clear happens.
* `clear_refused`: `packages/web-picker/src/annotation-surface-controller.ts` line 138
  tells the user "Clearing page annotations is still pending. Retry to confirm
  completion."  Once the store has committed the clear, the retry is refused as
  stale: the panel has read the session again and sends the new epoch, and
  `resumeExistingDurableClearProjection` (`ext/background-controller.ts` 9197)
  wants the one from before the clear.  The alarm finishes the clear without the
  user (`clear_retries` shows that it always does).
* Seen in the clear and not claimed as findings.  A retry that waits for the lease
  while its clear is finalised has its barrier taken down by that (10453) and then
  starts a clear of its own under the finished id, which is in conflict with itself
  and clears nothing, without a barrier.  So does one of two retries of a clear that was
  withdrawn meanwhile: the barrier is that of the later one, and falls when that one
  ends (three requests; its clear is a real one).  A retry from the panel that cannot
  stop the selection, since the storage fails, takes down its barrier while the clear
  it retries is in the journal (5149-5152; the widget's own retry, 4591, does not).  In the three
  cases captures and edits are let in until the worker restarts, and the store alone
  keeps them from an origin that it is clearing; `BarrierHolds` excludes that a barrier
  falls in any other way.  A request that cannot read the journal at its end leaves its barrier up until
  then (1335).  A request whose epoch went stale
  after `prepare` leaves an unbound operation, and its barrier, until the page
  navigates.  A closed tab or frame with an open target leaves its operation for
  ever: nothing listens to `tabs.onRemoved`.
* Seen in the components and not claimed as findings; each property says what it
  excludes for that reason.
  - *Profile lock.*  Two crashes, the second with the reclaim guard, let two
    commands hold the profile: the guard of the dead one is compared and
    unlinked in two calls (`bridge-cli.ts` 2630-2652), and a third process may
    have taken it in between.  Hence `OneCommandWithoutLostGuard`.
  - *Broker.*  A server that is being replaced may accept a request after the
    recovery's guard has looked, or a request is cancelled whose POST still
    counts; that request is then waited for and never answered.  Hence
    `QuietRecoveryLosesNothing`.
  - *Connection.*  A snapshot the bridge accepted and whose answer was lost
    leaves `client.sequence` behind: every later snapshot is refused as stale
    (`local-bridge.ts` 917) until something is cleared or disconnected.  After a
    disconnect and a new pairing sequences start at 1 again, and an agent's late
    confirmation of the old version 1 counts for the new one (`told.read = "late"`).
    An approval in browser session mode whose trust key was not delivered can
    be rejected again and again.  A poll answer that cannot be read stops the alarm while
    the request is still pending.
  - *Widget leases.*  More than 64 tombstones over all tabs poison the tombstones,
    and nothing takes the poison back.  After a release whose storage failed the lease stays
    in memory and is invalid, and a new show reports success while its widget
    is refused.  Two failures of storage and a restart undo the revocation
    of a tab; hence `MaxWidgetFaults` 1.
  - *Widget actions.*  The scan of a navigation awaits each marker and then puts
    its list back (`background-controller.ts` 6530): an action the drain consumed
    meanwhile is queued again, and until the next action nobody takes it out,
    while `hasPendingInPageWidgetAction` refuses changes of the selection.  Hence
    `NoOvertaking` without navigations, and `MaxMoves` 0 for progress.  An action
    handed over twice on one port is acknowledged once (`acknowledgedPorts`); the
    second costs four seconds and a reconnection.
  - *Side panel.*  Text typed between the end of a failed clear and the answer to
    what is read then (`panel-session-controller.ts` 977, 508), or after a recovered
    note was saved (756), would be overwritten by that answer.  Only the disabled
    field keeps the user from it, and `setViewMode` shows the panel anew and enables
    it; hence the guard of `Type`.  A refresh that crosses the panel's own removal can
    show the removed item until the next refresh.
* Also of the clear, and a hazard only: a success does not mean that no document
  shows an old marker.  `replaceClearProjectionTargetsForLiveSubject`
  (`ext/background-controller.ts` 10286) moves targets to the subject its handler was
  started with and does not ask again what the frame shows by then.  With two
  requests, two frames and two navigations (an embedded frame goes to another origin
  and back before the worker hears of it) the target is given up for the other
  origin while the frame already shows the first one again, with a marker from
  before the clear, and the clear succeeds.  The run is too large to be kept here.
  So `ReplyIsReal` speaks of the sessions that were cleared, and `AckMeansClean` of
  the documents that acknowledged and of those after them.
* Listed as hazards only.  A change that was applied and undone by the user
  before its execution was marked is reported "blocked" by one path (2911) and
  left alone by the other (2976-3014).  Two changes applied one after the
  other before the first is acknowledged strand the first in the same way as an
  edit does.
* Also a hazard only: `applyAnnotationLifecycleOperation` dates the item by
  `advanceTimestamp` and the receipt by the clock (`ext/session-store.ts`
  642-668).  When the clock is not past `session.updatedAt` (it was set back, or
  the last change is less than a millisecond old) the two differ, the atomic
  payload is refused as stale, and an approved change is reported "blocked".
  Nothing is written; `Write` has this as a fault.
* Part of a hazard and not yet a finding: `clear` with a null epoch that
  stops after its tombstone cannot be retried as sent (`STALE_SESSION`).

## 7. What is not modelled

* In the session store: migration of V1/V2 files, corrupt storage, label and
  note edits, and annotation lifecycle edits with their ledger.
* In the execution: several annotations, origins and frames, the barrier that
  keeps handlers out while a clear runs (the model lets them in), malformed
  answers of the bridge and of storage, and the capacities of the stores.
* In the bridge: the handshake of connection requests, browser trust and
  expiry of requests (represented by `Pair` and `Revoke`), the inbox,
  `approve`, `reject` and `rotateGenerations` of the mailbox, which no handler
  calls.
* In the clear: the widget's own clear of one origin and its scope, the generation
  numbers and per-tab scope of the barriers, the due times and attempt counts of
  deliveries, discovery in several steps (`upsertTarget`, which nothing calls), and
  operations stored by an earlier version without their request.
* In the components: what `PROJECT.json` names in the note of each, mainly the
  safety checks of paths and access lists, headers and bodies of HTTP, the older
  pairing by code, frames of the element selection below the top one, what an
  action does in the widget, and the capacities of stores with 64 places.
* Pairs of components that meet only through one fact have that fact as a
  choice of the environment: `BridgeOwner` does not know which commands rotate its
  credential, `BridgeConnection` not what the session store commits.
* In the overlay registry: embedded frames, several tabs and origins, the rebinding
  of targets to elements, drawing, and previews of relations.
* The parts listed as `not_modelled` in `PROJECT.json`: view code, pure
  conversions, process start and printing.  They are most of the repository's
  lines.  One of them holds state that would be worth a model (plan below): the
  mode and intent barriers of the widget.

## 8. Plan

In order of importance.

1. `SessionStore`, `CaptureLog`, proofs.  Done.
2. `LifecycleMailbox`, `LifecycleOutcome`, proofs with the refinement.  Done.
3. `LifecycleExecution`, with proofs.  Done.
4. `ClearJournal`, 5. `DurableClear`, with proofs of the types, of the journal's use and of
   what journal and store say of each other, and of what pages show after a clear.  An abstract specification of the
   clear (forgotten only when every document was told or is gone) belongs here too.
6. `WidgetActions`, with proofs; `WidgetLease`, `ElementSelection`, modelled and checked.
7. `BridgeConnection`, with proofs.  The session publisher's own queue is left.
8. `BridgeOwner`, `HttpOwner`, `CredentialFile`, `ProfileLock`, `BridgeInstall`, `McpSessions`,
   `StdioBroker`.  Modelled and checked.
9. `OverlayRegistry`.  Modelled and checked; embedded frames are left.
10. `PanelSession`, proof.  Done.  The mode and intent barriers of
   `in-page-widget-entry.ts` are left.
11. Pure algorithms of hub core and labels against reference definitions.

Proofs to add: `WidgetLease`
(`ReleaseIsFinal` from an invariant over tombstones, record and waiting requests)
and `CredentialFile` (`CreatorsAgree` for any number of
processes).
