---------------------------- MODULE SessionStore ----------------------------
(***************************************************************************)
(* The capture session store of the MV3 extension (session-store.ts,       *)
(* session-state.ts, clear-operation.ts) with the capture leases of the    *)
(* background worker that guard its writes.                                *)
(*                                                                         *)
(* Every mutation runs under one exclusive lock, so a mutation that makes  *)
(* one storage write is one action here.  A mutation that makes several    *)
(* writes is split at each of them: `job' is what the lock holder still    *)
(* has to do, and a storage error or the death of the worker may end it    *)
(* between any two writes.                                                 *)
(*                                                                         *)
(* Captures are numbered in the order their tokens are issued.  An         *)
(* annotation is named by the capture that created it, a version of an     *)
(* item by the capture that wrote it (`by' stands for createdAt and        *)
(* capturedAt), the n-th epoch of an origin by n; 0 is "none" in all three.*)
(***************************************************************************)
EXTENDS Naturals, FiniteSets, Sequences

CONSTANTS
  Origins,         \* web origins, naturals: clearOrigins visits them in order
  SavedClears,     \* operation ids used by clear (one saved origin)
  DurableClears,   \* operation ids used by clearOrigins (several origins)
  NoClear,         \* null, where an operation id may stand
  MaxItems,        \* EXTENSION_SESSION_MAX_ITEMS, 26
  ReceiptWindow,   \* receipts kept per origin, 64
  MaxActive,       \* CAPTURE_CLEAR_MAX_ACTIVE_OPERATIONS, 16
  MaxCaptures,     \* bound on the tokens ever issued
  MaxEpoch,        \* bound on the epochs ever allocated per origin
  MaxFaults,       \* bound on storage errors and worker deaths
  AllStored,       \* the request "clear all saved captures"
  OverlapClearAll  \* TRUE: it may come while a durable clear is unfinished

ClearIds == SavedClears \cup DurableClears

ASSUME ConstantsOK ==
  /\ Origins \subseteq Nat \ {0}
  /\ SavedClears \cap DurableClears = {}
  /\ NoClear \notin ClearIds
  /\ AllStored \notin ClearIds \cup {NoClear}
  /\ OverlapClearAll \in BOOLEAN
  /\ MaxItems \in Nat \ {0}
  /\ ReceiptWindow \in Nat \ {0}
  /\ {MaxActive, MaxCaptures, MaxEpoch, MaxFaults} \subseteq Nat

Captures == 1 .. MaxCaptures
Epochs   == 1 .. MaxEpoch

VARIABLES
  \* Durable, in chrome.storage.local.
  meta,      \* per origin: epoch, clear in progress, last completed, receipts
  file,      \* per origin: the items of the session file
  proj,      \* per origin: the capture in the compatibility projection
  latest,    \* the capture in the projection shared by all origins
  clearOp,   \* per durable clear: its record in the clear authority
  generation,\* the authority's generation
  \* Volatile, in the worker.
  job,       \* what the holder of the store's lock has left to write
  begin,     \* the beginCapture request in flight (they are serialised)
  lease,     \* the only capture whose runtime lease is current
  asked,     \* the user's clear that waits for the lock
  \* In the page that captures.
  token,     \* per capture: its token
  issued,    \* how many tokens were issued
  \* Bookkeeping of the model.
  landed,    \* captures whose commit was ever written
  epochs,    \* per origin: how many epochs were allocated
  faults     \* storage errors and worker deaths so far

vars == <<meta, file, proj, latest, clearOp, generation, job, begin, lease,
          asked, token, issued, landed, epochs, faults>>

authority   == <<clearOp, generation>>
captureVars == <<begin, lease, asked, token, issued, landed>>

Item    == [id : 1 .. MaxItems, ann : Captures, by : Captures]
Receipt == [op : Captures, item : 1 .. MaxItems, ann : Captures]
Meta    == [epoch : Nat, clearing : ClearIds \cup {NoClear},
            done : ClearIds \cup {NoClear}, receipts : Seq(Receipt)]
Token   == [origin : Origins \cup {0}, epoch : Nat, replace : SUBSET Item]
Entry   == [before : Nat, after : Nat,
            state : {"none", "pending", "committed", "conflict"}]
ClearOp == [gen : Nat, entry : [Origins -> Entry]]

NoMeta  == [epoch |-> 0, clearing |-> NoClear, done |-> NoClear,
            receipts |-> <<>>]
NoEntry == [before |-> 0, after |-> 0, state |-> "none"]
NoOp    == [gen |-> 0, entry |-> [o \in Origins |-> NoEntry]]
NoToken == [origin |-> 0, epoch |-> 0, replace |-> {}]
NoBegin == [origin |-> 0, replace |-> {}, current |-> FALSE]
Idle    == [step |-> "idle", clear |-> NoClear, origin |-> 0, item |-> 0]

TypeOK ==
  /\ meta \in [Origins -> Meta]
  /\ \A o \in Origins : Len(meta[o].receipts) <= ReceiptWindow
  /\ file \in [Origins -> SUBSET Item]
  /\ proj \in [Origins -> Captures \cup {0}]
  /\ latest \in Captures \cup {0}
  /\ clearOp \in [DurableClears -> ClearOp]
  /\ generation \in Nat
  /\ job \in [step : {"idle", "enter", "purge", "complete", "record", "remove"},
              clear : ClearIds \cup {NoClear}, origin : Origins \cup {0},
              item : 0 .. MaxItems]
  /\ begin \in [origin : Origins \cup {0}, replace : SUBSET Item,
                current : BOOLEAN]
  /\ lease \in Captures \cup {0}
  /\ asked \in ClearIds \cup {AllStored, NoClear}
  /\ issued \in 0 .. MaxCaptures
  /\ token \in [Captures -> Token]
  /\ landed \subseteq Captures
  /\ epochs \in [Origins -> Nat]
  /\ faults \in Nat

Init ==
  /\ meta = [o \in Origins |-> NoMeta]
  /\ file = [o \in Origins |-> {}]
  /\ proj = [o \in Origins |-> 0]
  /\ latest = 0
  /\ clearOp = [x \in DurableClears |-> NoOp]
  /\ generation = 0
  /\ job = Idle
  /\ begin = NoBegin
  /\ lease = 0
  /\ asked = NoClear
  /\ token = [c \in Captures |-> NoToken]
  /\ issued = 0
  /\ landed = {}
  /\ epochs = [o \in Origins |-> 0]
  /\ faults = 0

-----------------------------------------------------------------------------
\* Capturing: the background worker's leases around beginCapture/commitCapture.

\* A capture begins: all earlier leases die at once; for a recapture the item
\* to replace is read, outside the lock, before the store is asked.
BeginCapture(o, replace) ==
  /\ begin = NoBegin
  /\ issued < MaxCaptures
  /\ begin' = [origin |-> o, replace |-> replace, current |-> TRUE]
  /\ lease' = 0
  /\ UNCHANGED <<meta, file, proj, latest, authority, job, asked, token, issued,
                 landed, epochs, faults>>

\* An origin captured from for the first time (or after "clear all") gets a
\* fresh epoch; any other keeps its own.
EnsureEpoch(o) ==
  IF meta[o].epoch = 0
  THEN /\ epochs[o] < MaxEpoch
       /\ epochs' = [epochs EXCEPT ![o] = @ + 1]
       /\ meta' = [meta EXCEPT ![o] = [NoMeta EXCEPT !.epoch = epochs[o] + 1]]
  ELSE UNCHANGED <<meta, epochs>>

\* The store grants a token in the origin's epoch, and the lease becomes current.
IssueToken ==
  LET o == begin.origin
      c == issued + 1
  IN
  /\ job = Idle
  /\ begin.current
  /\ meta[o].clearing = NoClear
  /\ begin.replace \subseteq file[o]
  /\ EnsureEpoch(o)
  /\ token' = [token EXCEPT ![c] = [origin |-> o, epoch |-> meta'[o].epoch,
                                    replace |-> begin.replace]]
  /\ issued' = c
  /\ lease' = c
  /\ begin' = NoBegin
  /\ UNCHANGED <<file, proj, latest, authority, job, asked, landed, faults>>

\* The request fails: a clear is in progress (nothing is written), or the item
\* is gone or rewritten, or the lease generation moved while it waited (a fresh
\* epoch may have been written).
RefuseToken ==
  LET o == begin.origin IN
  /\ begin # NoBegin
  /\ job = Idle
  /\ \/ /\ meta[o].clearing # NoClear
        /\ UNCHANGED <<meta, epochs>>
     \/ /\ meta[o].clearing = NoClear
        /\ ~begin.current \/ ~(begin.replace \subseteq file[o])
        /\ EnsureEpoch(o)
  /\ begin' = NoBegin
  /\ UNCHANGED <<file, proj, latest, authority, job, lease, asked, token, issued,
                 landed, faults>>

\* A request in flight whose generation has moved.
Revoked(b) == [origin |-> b.origin, replace |-> b.replace, current |-> FALSE]

\* Navigation, a stopped selection or a revoked permission ends every lease,
\* and bumps the generation that a request in flight compares.
InvalidateLeases ==
  /\ lease' = 0
  /\ begin' = Revoked(begin)
  /\ UNCHANGED <<meta, file, proj, latest, authority, job, asked, token, issued,
                 landed, epochs, faults>>

-----------------------------------------------------------------------------
\* Committing a capture.

HasReceipt(o, c) == \E k \in DOMAIN meta[o].receipts : meta[o].receipts[k].op = c

\* The newest ReceiptWindow receipts (slice(-64)).
Trim(s) == IF Len(s) <= ReceiptWindow THEN s
           ELSE SubSeq(s, Len(s) - ReceiptWindow + 1, Len(s))

\* MUTANT of AppendReceipt: the list is never cut.
AppendReceiptUncut(s, r) == Append(s, r)

AppendReceipt(s, r) == Trim(Append(s, r))

\* The receipt at position k moves to the end: what filtering the operation's
\* receipt out and appending it again does.
RefreshReceipt(s, k) ==
  AppendReceipt(SubSeq(s, 1, k - 1) \o SubSeq(s, k + 1, Len(s)), s[k])

\* nextAttachmentId: the first suffix no item of the session has.
FreeId(o, n) ==
  LET taken == {i.id : i \in file[o]}
  IN n \notin taken /\ 1 .. (n - 1) \subseteq taken

\* MUTANTS of MayCommit: no lease check, no epoch check.
MayCommitUnleased(c) ==
  /\ c <= issued
  /\ job = Idle
  /\ meta[token[c].origin].clearing = NoClear
  /\ meta[token[c].origin].epoch = token[c].epoch

MayCommitAnyEpoch(c) ==
  /\ lease = c
  /\ job = Idle
  /\ meta[token[c].origin].clearing = NoClear

\* Guards shared by a first commit and a replay: the lease, the lock, the epoch.
MayCommit(c) ==
  /\ lease = c
  /\ job = Idle
  /\ meta[token[c].origin].clearing = NoClear
  /\ meta[token[c].origin].epoch = token[c].epoch

\* One write: session file, meta with the receipt, and both projections.
WriteCapture(c, o, item, items) ==
  /\ file' = [file EXCEPT ![o] = items]
  /\ meta' = [meta EXCEPT ![o].receipts =
                AppendReceipt(@, [op |-> c, item |-> item.id, ann |-> item.ann])]
  /\ proj' = [proj EXCEPT ![o] = c]
  /\ latest' = c
  /\ landed' = landed \cup {c}
  /\ UNCHANGED <<authority, job, begin, lease, asked, token, issued, epochs,
                 faults>>

\* A new item, with an id that may have belonged to a removed one.
CommitNew(c) ==
  LET o == token[c].origin IN
  /\ MayCommit(c)
  /\ ~HasReceipt(o, c)
  /\ token[c].replace = {}
  /\ Cardinality(file[o]) < MaxItems
  /\ \E n \in 1 .. MaxItems :
       LET item == [id |-> n, ann |-> c, by |-> c] IN
       /\ FreeId(o, n)
       /\ WriteCapture(c, o, item, file[o] \cup {item})

\* A recapture keeps the item's id and annotation; the version the token names
\* must still be the one stored.
CommitReplacement(c) ==
  LET o == token[c].origin IN
  /\ MayCommit(c)
  /\ ~HasReceipt(o, c)
  /\ token[c].replace \subseteq file[o]
  /\ \E old \in token[c].replace :
       LET item == [old EXCEPT !.by = c] IN
       WriteCapture(c, o, item, (file[o] \ {old}) \cup {item})

\* The same token again: its receipt answers, if the item is still the same
\* annotation; only the receipt's age changes and no projection is written.
ReplayCommit(c) ==
  LET o == token[c].origin IN
  /\ MayCommit(c)
  /\ \E k \in DOMAIN meta[o].receipts :
       LET r == meta[o].receipts[k] IN
       /\ r.op = c
       /\ \E i \in file[o] : i.id = r.item /\ i.ann = r.ann
       /\ meta' = [meta EXCEPT ![o].receipts = RefreshReceipt(@, k)]
  /\ UNCHANGED <<file, proj, latest, authority, job, begin, lease, asked, token,
                 issued, landed, epochs, faults>>

-----------------------------------------------------------------------------
\* Removing one item: projections first, then the session file.

Shows(p, o, i) == p = i.by \/ file[o] = {i}

\* MUTANT of PurgeItem: the projection shared by all origins is forgotten.
PurgeItemOfOrigin(o, i) ==
  /\ proj' = [proj EXCEPT ![o] = IF Shows(@, o, i) THEN 0 ELSE @]
  /\ UNCHANGED latest

\* A projection goes when it shows the item, or when the item is the last one.
PurgeItem(o, i) ==
  /\ proj' = [proj EXCEPT ![o] = IF Shows(@, o, i) THEN 0 ELSE @]
  /\ latest' = IF latest # 0 /\ token[latest].origin = o /\ Shows(latest, o, i)
               THEN 0 ELSE latest

RemoveItem(o, epoch, n) ==
  /\ job = Idle
  /\ meta[o].clearing = NoClear
  /\ meta[o].epoch = epoch
  /\ \E i \in file[o] : i.id = n /\ PurgeItem(o, i)
  /\ job' = [step |-> "remove", clear |-> NoClear, origin |-> o, item |-> n]
  /\ UNCHANGED <<meta, file, authority, captureVars, epochs, faults>>

RemoveWrite ==
  /\ job.step = "remove"
  /\ file' = [file EXCEPT ![job.origin] = {i \in @ : i.id # job.item}]
  /\ job' = Idle
  /\ UNCHANGED <<meta, proj, latest, authority, captureVars, epochs, faults>>

-----------------------------------------------------------------------------
\* A clear the user asks for revokes the element selection, and every capture
\* lease with it, before anything is awaited; selection may be enabled again
\* while the clear waits for the lock.
RequestClear(x) ==
  /\ asked = NoClear
  /\ asked' = x
  /\ lease' = 0
  /\ begin' = Revoked(begin)
  /\ UNCHANGED <<meta, file, proj, latest, authority, job, token, issued,
                 landed, epochs, faults>>

\* The request ends without a write: its epoch is stale, it has already
\* completed, another clear owns the origin, or a step before the store failed.
DropRequest ==
  /\ asked # NoClear
  /\ asked' = NoClear
  /\ UNCHANGED <<meta, file, proj, latest, authority, job, begin, lease, token,
                 issued, landed, epochs, faults>>

-----------------------------------------------------------------------------
\* Clearing one saved origin, and the steps both kinds of clear share.

\* The tombstone: a new epoch, the operation that owns it, no receipts.
StartClear(o, x, after) ==
  meta' = [meta EXCEPT ![o] = [epoch |-> after, clearing |-> x,
                               done |-> @.done, receipts |-> <<>>]]

\* MUTANT of Sweep: the clear completes without deleting anything.
SweepNothing(o, x) ==
  [step |-> "complete", clear |-> x, origin |-> o, item |-> 0]

Sweep(o, x) == [step |-> "purge", clear |-> x, origin |-> o, item |-> 0]

\* A first attempt must name the current epoch (0, "never had one", included);
\* the operation that owns the tombstone resumes whatever epoch it names, but
\* not if it still says that there is none.
SavedClear(o, epoch, x) ==
  /\ job = Idle
  /\ asked = x
  /\ \/ /\ meta[o].clearing = NoClear
        /\ meta[o].done # x
        /\ meta[o].epoch = epoch
        /\ epochs[o] < MaxEpoch
        /\ epochs' = [epochs EXCEPT ![o] = @ + 1]
        /\ StartClear(o, x, epochs[o] + 1)
     \/ /\ meta[o].clearing = x
        /\ epoch # 0
        /\ UNCHANGED <<meta, epochs>>
  /\ job' = Sweep(o, x)
  /\ asked' = NoClear
  /\ UNCHANGED <<file, proj, latest, authority, begin, lease, token, issued,
                 landed, faults>>

\* One storage.remove: the file, the origin's projection, and the shared one
\* when it holds a capture of this origin.
Purge ==
  LET o == job.origin IN
  /\ job.step = "purge"
  /\ file' = [file EXCEPT ![o] = {}]
  /\ proj' = [proj EXCEPT ![o] = 0]
  /\ latest' = IF latest # 0 /\ token[latest].origin = o THEN 0 ELSE latest
  /\ job' = [job EXCEPT !.step = "complete"]
  /\ UNCHANGED <<meta, authority, captureVars, epochs, faults>>

Complete ==
  LET o == job.origin IN
  /\ job.step = "complete"
  /\ meta' = [meta EXCEPT ![o] = [epoch |-> @.epoch, clearing |-> NoClear,
                                  done |-> job.clear, receipts |-> <<>>]]
  /\ job' = IF job.clear \in DurableClears
            THEN [job EXCEPT !.step = "record"] ELSE Idle
  /\ UNCHANGED <<file, proj, latest, authority, captureVars, epochs, faults>>

-----------------------------------------------------------------------------
\* Clearing several origins durably, under the clear authority.

Active(x)      == clearOp[x].gen > 0
Owns(x)        == {o \in Origins : clearOp[x].entry[o].state # "none"}
PendingOf(x)   == {o \in Origins : clearOp[x].entry[o].state = "pending"}
ActiveClears   == {x \in DurableClears : Active(x)}
Loop(x)        == [step |-> "enter", clear |-> x, origin |-> 0, item |-> 0]

\* The operation is recorded, with the epoch each origin will get, before
\* anything is deleted.  Refused when a named epoch is not current, when an
\* active operation owns one of the origins, or when too many are active.
PrepareClear(x, origins, epoch) ==
  /\ job = Idle
  /\ asked = x
  /\ ~Active(x)
  /\ origins # {}
  /\ \A y \in ActiveClears : Owns(y) \cap origins = {}
  /\ Cardinality(ActiveClears) < MaxActive
  /\ \A o \in origins : meta[o].epoch = epoch[o] /\ epochs[o] < MaxEpoch
  /\ generation' = generation + 1
  /\ clearOp' = [clearOp EXCEPT ![x] =
       [gen   |-> generation + 1,
        entry |-> [o \in Origins |->
                     IF o \in origins
                     THEN [before |-> epoch[o], after |-> epochs[o] + 1,
                           state |-> "pending"]
                     ELSE NoEntry]]]
  /\ epochs' = [o \in Origins |->
                  IF o \in origins THEN epochs[o] + 1 ELSE epochs[o]]
  /\ job' = Loop(x)
  /\ asked' = NoClear
  /\ UNCHANGED <<meta, file, proj, latest, begin, lease, token, issued, landed,
                 faults>>

\* MUTANT of ResumeClear: only an operation with nothing committed resumes.
ResumeClearPrepared(x) ==
  /\ job = Idle
  /\ Active(x)
  /\ PendingOf(x) # {}
  /\ PendingOf(x) = Owns(x)
  /\ job' = Loop(x)
  /\ UNCHANGED <<meta, file, proj, latest, authority, captureVars, epochs,
                 faults>>

\* The same request again: the recorded operation goes on where it stopped.
ResumeClear(x) ==
  /\ job = Idle
  /\ Active(x)
  /\ PendingOf(x) # {}
  /\ job' = Loop(x)
  /\ UNCHANGED <<meta, file, proj, latest, authority, captureVars, epochs,
                 faults>>

\* The pending origin the loop visits next.
Visits(o) ==
  /\ job.step = "enter"
  /\ o \in PendingOf(job.clear)
  /\ \A p \in PendingOf(job.clear) : o <= p

\* clearOriginWithPreparedEpoch has already completed on this origin.
AlreadyCleared(o) ==
  /\ Visits(o)
  /\ meta[o].clearing = NoClear
  /\ meta[o].done = job.clear
  /\ meta[o].epoch = clearOp[job.clear].entry[o].after
  /\ job' = [job EXCEPT !.step = "record", !.origin = o]
  /\ UNCHANGED <<meta, file, proj, latest, authority, captureVars, epochs,
                 faults>>

\* It had stopped between the tombstone and the end.
ResumeOrigin(o) ==
  /\ Visits(o)
  /\ meta[o].clearing = job.clear
  /\ meta[o].epoch = clearOp[job.clear].entry[o].after
  /\ job' = Sweep(o, job.clear)
  /\ UNCHANGED <<meta, file, proj, latest, authority, captureVars, epochs,
                 faults>>

StartOrigin(o) ==
  LET entry == clearOp[job.clear].entry[o] IN
  /\ Visits(o)
  /\ meta[o].clearing = NoClear
  /\ meta[o].done # job.clear
  /\ meta[o].epoch = entry.before
  /\ StartClear(o, job.clear, entry.after)
  /\ job' = Sweep(o, job.clear)
  /\ UNCHANGED <<file, proj, latest, authority, captureVars, epochs, faults>>

SetEntry(x, o, state) ==
  clearOp' = [clearOp EXCEPT ![x].entry[o].state = state]

\* MUTANT of Conflicts: any tombstone counts as another clear's.
ConflictsWithTombstone(o, x) ==
  \/ meta[o].clearing # NoClear
  \/ /\ meta[o].clearing = NoClear
     /\ meta[o].epoch # IF meta[o].done = x THEN clearOp[x].entry[o].after
                                            ELSE clearOp[x].entry[o].before

\* The origin moved on since the operation was prepared (STALE_SESSION), or
\* another clear owns its tombstone (CLEAR_IN_PROGRESS).
Conflicts(o, x) ==
  IF meta[o].clearing # NoClear
  THEN ~(meta[o].clearing = x /\ meta[o].epoch = clearOp[x].entry[o].after)
  ELSE meta[o].epoch # IF meta[o].done = x THEN clearOp[x].entry[o].after
                                           ELSE clearOp[x].entry[o].before

\* The call ends at a conflict; the remaining origins stay pending.
ConflictOrigin(o) ==
  /\ Visits(o)
  /\ Conflicts(o, job.clear)
  /\ SetEntry(job.clear, o, "conflict")
  /\ job' = Idle
  /\ UNCHANGED <<meta, file, proj, latest, generation, captureVars, epochs,
                 faults>>

\* The origin is committed in the authority; the loop goes on.
RecordOrigin ==
  /\ job.step = "record"
  /\ SetEntry(job.clear, job.origin, "committed")
  /\ job' = IF PendingOf(job.clear) = {job.origin} THEN Idle ELSE Loop(job.clear)
  /\ UNCHANGED <<meta, file, proj, latest, generation, captureVars, epochs,
                 faults>>

\* Only a terminal operation leaves the authority, and only by its generation.
FinalizeClear(x, gen) ==
  /\ job = Idle
  /\ Active(x)
  /\ clearOp[x].gen = gen
  /\ PendingOf(x) = {}
  /\ clearOp' = [clearOp EXCEPT ![x] = NoOp]
  /\ UNCHANGED <<meta, file, proj, latest, generation, job, captureVars,
                 epochs, faults>>

\* "Clear all": one storage.remove of every session, meta and projection key;
\* the clear authority stays.
ClearAll ==
  /\ job = Idle
  /\ asked = AllStored
  /\ OverlapClearAll \/ \A x \in DurableClears : PendingOf(x) = {}
  /\ meta' = [o \in Origins |-> NoMeta]
  /\ file' = [o \in Origins |-> {}]
  /\ proj' = [o \in Origins |-> 0]
  /\ latest' = 0
  /\ asked' = NoClear
  /\ UNCHANGED <<authority, job, begin, lease, token, issued, landed, epochs,
                 faults>>

-----------------------------------------------------------------------------
\* Failures between two writes.

\* A storage call rejects: the mutation returns and the lock is released.
StorageError ==
  /\ job # Idle
  /\ faults < MaxFaults
  /\ faults' = faults + 1
  /\ job' = Idle
  /\ UNCHANGED <<meta, file, proj, latest, authority, captureVars, epochs>>

\* The worker dies: the lock, the leases and the requests in flight go with it.
WorkerDeath ==
  /\ faults < MaxFaults
  /\ faults' = faults + 1
  /\ job' = Idle
  /\ lease' = 0
  /\ begin' = NoBegin
  /\ asked' = NoClear
  /\ UNCHANGED <<meta, file, proj, latest, authority, token, issued, landed,
                 epochs>>

-----------------------------------------------------------------------------

CaptureNext ==
  \/ \E o \in Origins :
       \E replace \in {{}} \cup {{i} : i \in file[o]} : BeginCapture(o, replace)
  \/ IssueToken
  \/ RefuseToken
  \/ InvalidateLeases
  \/ \E c \in Captures :
       \/ CommitNew(c)
       \/ CommitReplacement(c)
       \/ ReplayCommit(c)

RemoveNext ==
  \/ \E o \in Origins, epoch \in Epochs, n \in 1 .. MaxItems :
       RemoveItem(o, epoch, n)
  \/ RemoveWrite

ClearNext ==
  \/ \E x \in ClearIds \cup {AllStored} : RequestClear(x)
  \/ DropRequest
  \/ \E o \in Origins, epoch \in Epochs \cup {0}, x \in SavedClears :
       SavedClear(o, epoch, x)
  \/ Purge
  \/ Complete
  \/ \E x \in DurableClears :
       \/ \E origins \in SUBSET Origins,
            epoch \in [Origins -> Epochs \cup {0}] :
            PrepareClear(x, origins, epoch)
       \/ ResumeClear(x)
       \/ \E gen \in 1 .. generation : FinalizeClear(x, gen)
  \/ \E o \in Origins :
       \/ AlreadyCleared(o)
       \/ ResumeOrigin(o)
       \/ StartOrigin(o)
       \/ ConflictOrigin(o)
  \/ RecordOrigin
  \/ ClearAll

Next == CaptureNext \/ RemoveNext \/ ClearNext \/ StorageError \/ WorkerDeath

Spec == Init /\ [][Next]_vars

\* The lock holder's promise chain runs on, and the alarm that reconciles clears
\* retries every operation that still has a pending origin.
Fairness ==
  /\ WF_vars(Purge)
  /\ WF_vars(Complete)
  /\ WF_vars(RecordOrigin)
  /\ WF_vars(RemoveWrite)
  /\ WF_vars(\E o \in Origins : \/ AlreadyCleared(o) \/ ResumeOrigin(o)
                                \/ StartOrigin(o) \/ ConflictOrigin(o))
  /\ \A x \in DurableClears : WF_vars(ResumeClear(x))

FairSpec == Spec /\ Fairness

-----------------------------------------------------------------------------
\* Correctness.

\* An epoch fences the captures of an origin: every stored item was captured in
\* the origin's current epoch, or, while a clear is in progress, in an earlier
\* one - so a clear that resumes after a crash never deletes what was captured
\* after it began, and a token from before it never stores anything.
EpochFence ==
  \A o \in Origins : \A i \in file[o] :
    /\ token[i.by].origin = o
    /\ IF meta[o].clearing = NoClear
       THEN token[i.by].epoch = meta[o].epoch
       ELSE token[i.by].epoch < meta[o].epoch

\* A compatibility projection never outlives the item it shows: whatever step a
\* removal, a clear or a recapture stopped at, the capture in an origin's
\* projection, and in the one all origins share, is still in its session file.
ProjectionBacked ==
  /\ \A o \in Origins : proj[o] # 0 => \E i \in file[o] : i.by = proj[o]
  /\ latest # 0 => \E i \in file[token[latest].origin] : i.by = latest

\* A tombstone a durable clear left in an origin can always be finished: the
\* authority still holds the operation, with that origin pending and the very
\* epoch the tombstone carries.  (Otherwise captures there are refused forever.)
TombstoneOwned ==
  \A o \in Origins, x \in DurableClears :
    meta[o].clearing = x =>
      /\ Active(x)
      /\ clearOp[x].entry[o].state = "pending"
      /\ clearOp[x].entry[o].after = meta[o].epoch

\* An origin recorded as committed really was cleared: nothing captured before
\* the epoch the operation gave it is stored, and no older epoch is current.
CommittedIsCleared ==
  \A x \in DurableClears, o \in Origins :
    clearOp[x].entry[o].state = "committed" =>
      /\ meta[o].epoch = 0 \/ meta[o].epoch >= clearOp[x].entry[o].after
      /\ \A i \in file[o] : token[i.by].epoch >= clearOp[x].entry[o].after

\* Every durable clear ends: each of its origins becomes committed or conflict.
ClearTerminates ==
  \A x \in DurableClears : PendingOf(x) # {} ~> PendingOf(x) = {}

\* The store implements the promise CaptureLog makes of each capture.
Stored == {i.by : i \in UNION {file[o] : o \in Origins}}

StatusOf(c) ==
  IF c > issued THEN "unused"
  ELSE IF c \in Stored THEN "live"
  ELSE IF c \notin landed /\ lease = c THEN "open"
  ELSE "dead"

\* A retry of a capture that was stored and then deleted is refused: it stores
\* nothing, whatever was deleted in between and by whom.
RetryRefused == [][\A c \in landed \ Stored : c \notin Stored']_vars

Log == INSTANCE CaptureLog WITH status <- [c \in Captures |-> StatusOf(c)]

ImplementsCaptureLog == Log!Spec

=============================================================================
