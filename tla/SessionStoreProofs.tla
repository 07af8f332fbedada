------------------------- MODULE SessionStoreProofs -------------------------
(***************************************************************************)
(* Safety of the capture session store for every value of its constants.   *)
(***************************************************************************)
EXTENDS SessionStore, SequenceTheorems, TLAPS

\* A request in flight names an origin, and a token is left to answer it.
BeginOK == begin # NoBegin => begin.origin \in Origins /\ issued < MaxCaptures

\* Issued tokens name an origin and an epoch allocated there; the lease is one
\* of them.
TokenOK ==
  /\ lease \in 0 .. issued
  /\ \A c \in 1 .. issued :
       /\ token[c].origin \in Origins
       /\ token[c].epoch \in 1 .. epochs[token[c].origin]

\* Items were written by issued captures, and their ids are unique.
ItemsOK ==
  \A o \in Origins : \A i \in file[o] :
    /\ i.by <= issued
    /\ \A j \in file[o] : i.id = j.id => i = j

\* Epochs are allocated upwards: no meta and no clear entry is ahead.
EpochBound ==
  \A o \in Origins :
    /\ meta[o].epoch <= epochs[o]
    /\ \A x \in DurableClears :
         /\ clearOp[x].entry[o].after <= epochs[o]
         /\ clearOp[x].entry[o].state = "pending" =>
              clearOp[x].entry[o].before < clearOp[x].entry[o].after

\* No origin is owned by two active operations (parseCaptureClearAuthority
\* rejects the whole authority otherwise, and every clear with it).
DisjointOwners ==
  \A x, y \in DurableClears, o \in Origins :
    x # y => clearOp[x].entry[o].state = "none" \/ clearOp[y].entry[o].state = "none"

\* Only an active operation owns origins.
OwnersActive ==
  \A x \in DurableClears, o \in Origins :
    clearOp[x].entry[o].state # "none" => clearOp[x].gen > 0

\* What the lock holder relies on between two writes.
JobOK ==
  /\ job.step \in {"purge", "complete", "record", "remove"} => job.origin \in Origins
  /\ job.step \in {"enter", "record"} => job.clear \in DurableClears
  /\ job.step \in {"purge", "complete"} =>
       /\ job.clear \in ClearIds
       /\ meta[job.origin].clearing = job.clear
  /\ job.step = "complete" => file[job.origin] = {}
  /\ job.step = "record" =>
       /\ meta[job.origin].clearing = NoClear
       /\ meta[job.origin].epoch = clearOp[job.clear].entry[job.origin].after
       /\ clearOp[job.clear].entry[job.origin].state = "pending"
  /\ job.step = "remove" =>
       \A i \in file[job.origin] :
         i.id = job.item => i.by # proj[job.origin] /\ i.by # latest

LatestOK == latest <= issued /\ \A o \in Origins : proj[o] <= issued

IInv ==
  /\ TypeOK /\ BeginOK /\ TokenOK /\ ItemsOK /\ EpochBound /\ DisjointOwners
  /\ OwnersActive /\ JobOK /\ LatestOK
  /\ EpochFence /\ TombstoneOwned /\ CommittedIsCleared /\ ProjectionBacked

-----------------------------------------------------------------------------
\* Receipts.

\* Cutting a receipt list keeps receipts, at most ReceiptWindow of them.
LEMMA TrimReceipts ==
  ASSUME NEW s \in Seq(Receipt)
  PROVE  /\ Trim(s) \in Seq(Receipt)
         /\ Len(Trim(s)) <= ReceiptWindow
<1>1. ReceiptWindow \in Nat \ {0} /\ Len(s) \in Nat
  BY ConstantsOK, LenProperties
<1>2. CASE Len(s) <= ReceiptWindow
  BY <1>2 DEF Trim
<1>3. CASE Len(s) > ReceiptWindow
  <2> DEFINE n == Len(s)
  <2>1. /\ n - ReceiptWindow + 1 \in 1 .. n + 1
        /\ n \in n - ReceiptWindow .. n
    BY <1>1, <1>3
  <2>2. /\ SubSeq(s, n - ReceiptWindow + 1, n) \in Seq(Receipt)
        /\ Len(SubSeq(s, n - ReceiptWindow + 1, n)) = ReceiptWindow
    BY <1>1, <1>3, <2>1, SubSeqProperties
  <2> QED BY <1>1, <1>3, <2>2 DEF Trim
<1> QED BY <1>1, <1>2, <1>3

\* Appending a receipt, or moving one to the end, keeps the list well formed.
LEMMA AppendReceiptOK ==
  ASSUME NEW s \in Seq(Receipt), NEW r \in Receipt
  PROVE  /\ AppendReceipt(s, r) \in Seq(Receipt)
         /\ Len(AppendReceipt(s, r)) <= ReceiptWindow
BY TrimReceipts, AppendProperties DEF AppendReceipt

LEMMA RefreshReceiptOK ==
  ASSUME NEW s \in Seq(Receipt), NEW k \in DOMAIN s
  PROVE  /\ RefreshReceipt(s, k) \in Seq(Receipt)
         /\ Len(RefreshReceipt(s, k)) <= ReceiptWindow
<1>1. k \in 1 .. Len(s) /\ Len(s) \in Nat /\ s[k] \in Receipt
  BY LenProperties, ElementOfSeq
<1>2. /\ SubSeq(s, 1, k - 1) \in Seq(Receipt)
      /\ SubSeq(s, k + 1, Len(s)) \in Seq(Receipt)
  BY <1>1, SubSeqProperties
<1>3. SubSeq(s, 1, k - 1) \o SubSeq(s, k + 1, Len(s)) \in Seq(Receipt)
  BY <1>2, ConcatProperties
<1> QED BY <1>1, <1>3, AppendReceiptOK DEF RefreshReceipt

-----------------------------------------------------------------------------

\* Types of the pieces an action writes.
LEMMA ConstantTypes ==
  /\ Origins \subseteq Nat \ {0}
  /\ SavedClears \cap DurableClears = {}
  /\ NoClear \notin SavedClears /\ NoClear \notin DurableClears
  /\ MaxItems \in Nat \ {0}
  /\ MaxCaptures \in Nat
BY ConstantsOK DEF ClearIds

JobType == [step : {"idle", "enter", "purge", "complete", "record", "remove"},
            clear : ClearIds \cup {NoClear}, origin : Origins \cup {0},
            item : 0 .. MaxItems]

BeginType == [origin : Origins \cup {0}, replace : SUBSET Item,
              current : BOOLEAN]

LEMMA IdleTypes == Idle \in JobType /\ NoBegin \in BeginType
BY ConstantTypes DEF Idle, NoBegin, JobType, BeginType

LEMMA JobTypes ==
  ASSUME NEW x \in ClearIds, NEW o \in Origins
  PROVE  Loop(x) \in JobType /\ Sweep(o, x) \in JobType
BY ConstantTypes DEF Loop, Sweep, JobType

\* Revoking a request in flight changes nothing but its currency.
LEMMA RevokedBegin ==
  ASSUME NEW b \in BeginType
  PROVE  /\ Revoked(b) \in BeginType
         /\ Revoked(b).origin = b.origin
         /\ Revoked(b) # NoBegin => b # NoBegin
<1>1. Revoked(b) \in BeginType /\ Revoked(b).origin = b.origin
  BY DEF BeginType, Revoked
<1>2. ASSUME b = NoBegin PROVE Revoked(b) = NoBegin
  <2>1. b.origin = 0 /\ b.replace = {}
    BY <1>2 DEF NoBegin
  <2> QED BY <2>1 DEF NoBegin, Revoked
<1> QED BY <1>1, <1>2

-----------------------------------------------------------------------------
\* One lemma per action: it preserves the inductive invariant.

LEMMA BeginCaptureInv ==
  ASSUME IInv, NEW o \in Origins,
         NEW replace \in {{}} \cup {{i} : i \in file[o]},
         BeginCapture(o, replace)
  PROVE  IInv'
<1> USE DEF BeginCapture, authority
<1>1. replace \in SUBSET Item
  BY DEF IInv, TypeOK
<1>2. /\ begin' \in [origin : Origins \cup {0}, replace : SUBSET Item, current : BOOLEAN]
      /\ lease' \in Captures \cup {0}
  BY <1>1
<1>3. TypeOK'
  BY <1>2 DEF IInv, TypeOK
<1>4. BeginOK'
  BY DEF BeginOK
<1>5. TokenOK'
  BY DEF IInv, TypeOK, TokenOK
<1>6. /\ ItemsOK' /\ EpochBound' /\ DisjointOwners' /\ OwnersActive' /\ JobOK'
      /\ LatestOK' /\ EpochFence' /\ TombstoneOwned' /\ CommittedIsCleared'
      /\ ProjectionBacked'
  BY DEF IInv, ItemsOK, EpochBound, DisjointOwners, OwnersActive, JobOK,
     LatestOK, EpochFence, TombstoneOwned, CommittedIsCleared, ProjectionBacked,
     Active
<1> QED BY <1>3, <1>4, <1>5, <1>6 DEF IInv

\* What only depends on variables that a volatile step leaves alone.
LEMMA DurableFrame ==
  ASSUME IInv,
         UNCHANGED <<meta, file, proj, latest, authority, token, issued, epochs>>
  PROVE  /\ ItemsOK' /\ EpochBound' /\ DisjointOwners' /\ OwnersActive'
         /\ LatestOK' /\ EpochFence' /\ TombstoneOwned' /\ CommittedIsCleared'
         /\ ProjectionBacked'
BY DEF IInv, ItemsOK, EpochBound, DisjointOwners, OwnersActive, LatestOK,
   EpochFence, TombstoneOwned, CommittedIsCleared, ProjectionBacked, Active,
   authority

LEMMA InvalidateLeasesInv ==
  ASSUME IInv, InvalidateLeases
  PROVE  IInv'
<1> USE DEF InvalidateLeases
<1>0. begin \in BeginType
  BY DEF IInv, TypeOK, BeginType
<1>1. TypeOK'
  BY <1>0, RevokedBegin DEF IInv, TypeOK, BeginType, authority
<1>2. BeginOK'
  BY <1>0, RevokedBegin DEF IInv, BeginOK
<1>3. TokenOK' /\ JobOK'
  BY DEF IInv, TypeOK, TokenOK, JobOK, authority
<1> QED BY <1>1, <1>2, <1>3, DurableFrame DEF IInv

LEMMA RequestClearInv ==
  ASSUME IInv, NEW x \in ClearIds \cup {AllStored}, RequestClear(x)
  PROVE  IInv'
<1> USE DEF RequestClear
<1>0. begin \in BeginType
  BY DEF IInv, TypeOK, BeginType
<1>1. TypeOK'
  BY <1>0, RevokedBegin DEF IInv, TypeOK, BeginType, authority
<1>2. BeginOK'
  BY <1>0, RevokedBegin DEF IInv, BeginOK
<1>3. TokenOK' /\ JobOK'
  BY DEF IInv, TypeOK, TokenOK, JobOK, authority
<1> QED BY <1>1, <1>2, <1>3, DurableFrame DEF IInv

LEMMA DropRequestInv ==
  ASSUME IInv, DropRequest
  PROVE  IInv'
<1> USE DEF DropRequest
<1>1. TypeOK' /\ BeginOK' /\ TokenOK' /\ JobOK'
  BY DEF IInv, TypeOK, BeginOK, TokenOK, JobOK, authority
<1> QED BY <1>1, DurableFrame DEF IInv

LEMMA StorageErrorInv ==
  ASSUME IInv, StorageError
  PROVE  IInv'
<1> USE DEF StorageError
<1>1. TypeOK'
  BY IdleTypes DEF IInv, TypeOK, JobType, authority, captureVars
<1>2. BeginOK' /\ TokenOK' /\ JobOK'
  BY DEF IInv, BeginOK, TokenOK, JobOK, Idle, authority, captureVars
<1> QED BY <1>1, <1>2, DurableFrame DEF IInv, captureVars

LEMMA WorkerDeathInv ==
  ASSUME IInv, WorkerDeath
  PROVE  IInv'
<1> USE DEF WorkerDeath
<1>1. TypeOK'
  BY IdleTypes DEF IInv, TypeOK, JobType, BeginType, authority
<1>2. BeginOK' /\ TokenOK' /\ JobOK'
  BY DEF IInv, TypeOK, BeginOK, TokenOK, JobOK, Idle, NoBegin, authority
<1> QED BY <1>1, <1>2, DurableFrame DEF IInv

LEMMA ResumeClearInv ==
  ASSUME IInv, NEW x \in DurableClears, ResumeClear(x)
  PROVE  IInv'
<1> USE DEF ResumeClear, captureVars
<1>0. job' \in JobType
  BY ConstantTypes DEF Loop, JobType, ClearIds
<1>1. TypeOK'
  BY <1>0 DEF IInv, TypeOK, JobType, authority
<1>2. BeginOK' /\ TokenOK' /\ JobOK'
  BY DEF IInv, BeginOK, TokenOK, JobOK, Loop, authority
<1> QED BY <1>1, <1>2, DurableFrame DEF IInv

LEMMA AlreadyClearedInv ==
  ASSUME IInv, NEW o \in Origins, AlreadyCleared(o)
  PROVE  IInv'
<1> USE DEF AlreadyCleared, Visits, captureVars
<1>1. TypeOK'
  BY DEF IInv, TypeOK, authority
<1>2. BeginOK' /\ TokenOK'
  BY DEF IInv, BeginOK, TokenOK, authority
<1>3. JobOK'
  BY DEF IInv, TypeOK, JobOK, PendingOf, authority
<1> QED BY <1>1, <1>2, <1>3, DurableFrame DEF IInv

LEMMA ResumeOriginInv ==
  ASSUME IInv, NEW o \in Origins, ResumeOrigin(o)
  PROVE  IInv'
<1> USE DEF ResumeOrigin, Visits, captureVars
<1>1. job.clear \in DurableClears
  BY DEF IInv, JobOK
<1>2. TypeOK'
  BY <1>1, JobTypes DEF IInv, TypeOK, JobType, ClearIds, authority
<1>3. BeginOK' /\ TokenOK'
  BY DEF IInv, BeginOK, TokenOK, authority
<1>4. JobOK'
  BY <1>1 DEF JobOK, Sweep, ClearIds, authority
<1> QED BY <1>2, <1>3, <1>4, DurableFrame DEF IInv

\* The types of what is stored per origin and per clear.
LEMMA StateTypes ==
  ASSUME TypeOK
  PROVE  /\ \A o \in Origins :
              /\ meta[o] \in Meta
              /\ meta[o].epoch \in Nat
              /\ meta[o].clearing \in ClearIds \cup {NoClear}
              /\ epochs[o] \in Nat
              /\ file[o] \subseteq Item
              /\ \A i \in file[o] : i.by \in Captures
         /\ \A x \in DurableClears :
              /\ clearOp[x].gen \in Nat
              /\ \A o \in Origins :
                   /\ clearOp[x].entry[o] \in Entry
                   /\ clearOp[x].entry[o].before \in Nat
                   /\ clearOp[x].entry[o].after \in Nat
<1>1. \A o \in Origins :
        /\ meta[o] \in Meta /\ epochs[o] \in Nat /\ file[o] \subseteq Item
  BY DEF TypeOK
<1>2. \A o \in Origins :
        /\ meta[o].epoch \in Nat
        /\ meta[o].clearing \in ClearIds \cup {NoClear}
        /\ \A i \in file[o] : i.by \in Captures
  BY <1>1 DEF Meta, Item
<1>3. \A x \in DurableClears :
        clearOp[x].gen \in Nat /\ clearOp[x].entry \in [Origins -> Entry]
  BY DEF TypeOK, ClearOp
<1>4. \A x \in DurableClears, o \in Origins : clearOp[x].entry[o] \in Entry
  BY <1>3
<1>5. \A x \in DurableClears, o \in Origins :
        /\ clearOp[x].entry[o].before \in Nat
        /\ clearOp[x].entry[o].after \in Nat
  BY <1>4 DEF Entry
<1> QED BY <1>1, <1>2, <1>3, <1>4, <1>5

\* An origin that gets a fresh epoch had no items: none could have been
\* captured in epoch 0.
LEMMA EnsureEpochOK ==
  ASSUME IInv, NEW o \in Origins, meta[o].clearing = NoClear, EnsureEpoch(o)
  PROVE  /\ meta' \in [Origins -> Meta]
         /\ epochs' \in [Origins -> Nat]
         /\ meta'[o].epoch \in 1 .. epochs'[o]
         /\ \A p \in Origins :
              /\ epochs[p] <= epochs'[p]
              /\ Len(meta'[p].receipts) <= ReceiptWindow
              /\ meta'[p].clearing = meta[p].clearing
              /\ \/ meta'[p].epoch = meta[p].epoch
                 \/ /\ p = o
                    /\ meta'[p].epoch = epochs'[p]
                    /\ epochs'[p] = epochs[p] + 1
                    /\ file[p] = {}
<1>0. /\ meta \in [Origins -> Meta] /\ epochs \in [Origins -> Nat]
      /\ meta[o].epoch \in Nat /\ epochs[o] \in Nat /\ ReceiptWindow \in Nat
      /\ \A p \in Origins : Len(meta[p].receipts) <= ReceiptWindow
      /\ \A p \in Origins : epochs[p] \in Nat
  BY ConstantsOK DEF IInv, TypeOK, Meta
<1>1. CASE meta[o].epoch = 0
  <2>1. /\ epochs' = [epochs EXCEPT ![o] = @ + 1]
        /\ meta' = [meta EXCEPT ![o] = [NoMeta EXCEPT !.epoch = epochs[o] + 1]]
    BY <1>1 DEF EnsureEpoch
  <2> DEFINE fresh == [NoMeta EXCEPT !.epoch = epochs[o] + 1]
  <2>2. fresh = [epoch |-> epochs[o] + 1, clearing |-> NoClear, done |-> NoClear,
                 receipts |-> <<>>]
    BY DEF NoMeta
  <2> HIDE DEF fresh
  <2>3. fresh \in Meta /\ Len(fresh.receipts) = 0
    <3>1. <<>> \in Seq(Receipt) /\ Len(<<>>) = 0 /\ epochs[o] + 1 \in Nat
      BY <1>0, EmptySeq
    <3>2. fresh \in Meta
      BY <2>2, <3>1 DEF Meta
    <3> QED BY <2>2, <3>1, <3>2
  <2>4. file[o] = {}
    <3>1. \A i \in file[o] : i.by \in 1 .. issued
      BY DEF IInv, ItemsOK, TypeOK, Item, Captures
    <3>2. \A i \in file[o] : token[i.by].epoch >= 1
      BY <3>1 DEF IInv, EpochFence, TokenOK, TypeOK
    <3> QED BY <1>1, <3>2 DEF IInv, EpochFence
  <2>5. /\ meta' = [meta EXCEPT ![o] = fresh]
        /\ fresh.epoch = epochs[o] + 1 /\ fresh.clearing = NoClear
    BY <2>1, <2>2 DEF fresh
  <2>6. /\ meta' \in [Origins -> Meta] /\ meta'[o] = fresh
        /\ \A p \in Origins \ {o} : meta'[p] = meta[p]
    BY <1>0, <2>3, <2>5
  <2>8. /\ epochs' \in [Origins -> Nat] /\ epochs'[o] = epochs[o] + 1
        /\ \A p \in Origins \ {o} : epochs'[p] = epochs[p]
    BY <1>0, <2>1
  <2>7. ASSUME NEW p \in Origins
        PROVE  /\ epochs[p] <= epochs'[p]
               /\ Len(meta'[p].receipts) <= ReceiptWindow
               /\ meta'[p].clearing = meta[p].clearing
               /\ \/ meta'[p].epoch = meta[p].epoch
                  \/ /\ p = o
                     /\ meta'[p].epoch = epochs'[p]
                     /\ epochs'[p] = epochs[p] + 1
                     /\ file[p] = {}
    <3>1. CASE p = o
      BY <1>0, <2>3, <2>4, <2>5, <2>6, <2>8, <3>1
    <3>2. CASE p # o
      BY <1>0, <2>6, <2>8, <3>2
    <3> QED BY <3>1, <3>2
  <2> QED BY <1>0, <2>5, <2>6, <2>7, <2>8
<1>2. CASE meta[o].epoch # 0
  <2>1. meta' = meta /\ epochs' = epochs
    BY <1>2 DEF EnsureEpoch
  <2>2. meta[o].epoch <= epochs[o]
    BY DEF IInv, EpochBound
  <2> QED BY <1>0, <1>2, <2>1, <2>2
<1> QED BY <1>1, <1>2

\* A fresh epoch is beyond all that the other parts of the invariant mention.
LEMMA EnsureEpochFrame ==
  ASSUME IInv, NEW o \in Origins, meta[o].clearing = NoClear, EnsureEpoch(o),
         job = Idle, UNCHANGED <<file, proj, clearOp, generation, job>>
  PROVE  EpochBound' /\ DisjointOwners' /\ OwnersActive' /\ JobOK'
         /\ TombstoneOwned'
<1>1. EpochBound'
  <2> SUFFICES ASSUME NEW p \in Origins
               PROVE  /\ meta'[p].epoch <= epochs'[p]
                      /\ \A x \in DurableClears :
                           /\ clearOp[x].entry[p].after <= epochs'[p]
                           /\ clearOp[x].entry[p].state = "pending" =>
                                clearOp[x].entry[p].before
                                  < clearOp[x].entry[p].after
    BY DEF EpochBound
  <2>1. /\ epochs[p] \in Nat /\ epochs'[p] \in Nat /\ meta[p].epoch \in Nat
        /\ \A x \in DurableClears : clearOp[x].entry[p].after \in Nat
    BY EnsureEpochOK, StateTypes DEF IInv
  <2>2. /\ epochs[p] <= epochs'[p]
        /\ meta'[p].epoch = meta[p].epoch \/ meta'[p].epoch = epochs'[p]
    BY EnsureEpochOK
  <2> QED BY <2>1, <2>2 DEF IInv, EpochBound
<1>2. DisjointOwners' /\ OwnersActive'
  BY DEF IInv, DisjointOwners, OwnersActive
<1>3. JobOK'
  BY DEF JobOK, Idle
<1>4. TombstoneOwned'
  <2>1. \A p \in Origins : meta'[p].clearing = meta[p].clearing
    BY EnsureEpochOK
  <2>2. \A p \in Origins : meta[p].clearing # NoClear => meta'[p] = meta[p]
    BY DEF EnsureEpoch, IInv, TypeOK
  <2> QED BY <2>1, <2>2, ConstantTypes DEF IInv, TombstoneOwned, Active
<1> QED BY <1>1, <1>2, <1>3, <1>4

\* Nor does it disturb what the fence and the committed clears say of the items.
LEMMA EnsureEpochFence ==
  ASSUME IInv, NEW o \in Origins, meta[o].clearing = NoClear, EnsureEpoch(o),
         UNCHANGED <<file, clearOp>>,
         \A p \in Origins : \A i \in file[p] : token'[i.by] = token[i.by]
  PROVE  EpochFence' /\ CommittedIsCleared'
<1>1. EpochFence'
  <2>1. \A p \in Origins :
          /\ meta'[p].clearing = meta[p].clearing
          /\ meta'[p].epoch = meta[p].epoch \/ file[p] = {}
    BY EnsureEpochOK
  <2> QED BY <2>1 DEF IInv, EpochFence
<1>2. CommittedIsCleared'
  <2> SUFFICES ASSUME NEW x \in DurableClears, NEW p \in Origins,
                      clearOp[x].entry[p].state = "committed"
               PROVE  /\ \/ meta'[p].epoch = 0
                         \/ meta'[p].epoch >= clearOp[x].entry[p].after
                      /\ \A i \in file[p] :
                           token'[i.by].epoch >= clearOp[x].entry[p].after
    BY DEF CommittedIsCleared
  <2>1. /\ meta[p].epoch = 0 \/ meta[p].epoch >= clearOp[x].entry[p].after
        /\ \A i \in file[p] : token[i.by].epoch >= clearOp[x].entry[p].after
    BY DEF IInv, CommittedIsCleared
  <2>2. \/ meta'[p].epoch = meta[p].epoch
        \/ meta'[p].epoch = epochs[p] + 1
    BY EnsureEpochOK
  <2>3. /\ clearOp[x].entry[p].after <= epochs[p]
        /\ clearOp[x].entry[p].after \in Nat /\ epochs[p] \in Nat
    BY StateTypes DEF IInv, EpochBound
  <2> QED BY <2>1, <2>2, <2>3
<1> QED BY <1>1, <1>2

LEMMA IssueTokenInv ==
  ASSUME IInv, IssueToken
  PROVE  IInv'
<1> DEFINE o == begin.origin
           c == issued + 1
           t == [origin |-> o, epoch |-> meta'[o].epoch, replace |-> begin.replace]
<1>1. /\ job = Idle /\ job' = job
      /\ meta[o].clearing = NoClear /\ EnsureEpoch(o)
      /\ token' = [token EXCEPT ![c] = t]
      /\ issued' = c /\ lease' = c /\ begin' = NoBegin
      /\ UNCHANGED <<file, proj, latest, clearOp, generation, asked, landed, faults>>
      /\ begin.current
  BY DEF IssueToken, authority
<1>2. /\ o \in Origins /\ issued < MaxCaptures
      /\ begin.replace \in SUBSET Item
  BY <1>1 DEF IInv, BeginOK, NoBegin, TypeOK
<1>3. /\ issued \in Nat /\ c \in Captures /\ MaxCaptures \in Nat
  BY <1>2, ConstantTypes DEF IInv, TypeOK, Captures
<1>4. /\ meta' \in [Origins -> Meta] /\ epochs' \in [Origins -> Nat]
      /\ meta'[o].epoch \in 1 .. epochs'[o] /\ epochs'[o] \in Nat
  BY <1>1, <1>2, EnsureEpochOK
<1>5. t \in Token
  BY <1>2, <1>4 DEF Token
<1>6. /\ token' \in [Captures -> Token] /\ token'[c] = t
      /\ \A d \in Captures \ {c} : token'[d] = token[d]
  BY <1>1, <1>3, <1>5 DEF IInv, TypeOK
<1> HIDE DEF o, t
<1>7. TypeOK'
  <2>1. \A p \in Origins : Len(meta'[p].receipts) <= ReceiptWindow
    BY <1>1, <1>2, EnsureEpochOK
  <2>2. issued' \in 0 .. MaxCaptures /\ lease' \in Captures \cup {0}
    BY <1>1, <1>2, <1>3
  <2>3. begin' \in BeginType
    BY <1>1, IdleTypes
  <2> QED BY <1>1, <1>4, <1>6, <2>1, <2>2, <2>3 DEF IInv, TypeOK, BeginType
<1>8. BeginOK'
  BY <1>1 DEF BeginOK
<1>9. TokenOK'
  <2>1. \A d \in 1 .. issued : d \in Captures \ {c}
    BY <1>3 DEF IInv, TypeOK, Captures
  <2>2. \A d \in 1 .. issued :
          /\ token'[d].origin \in Origins
          /\ token'[d].epoch \in 1 .. epochs'[token'[d].origin]
    <3> SUFFICES ASSUME NEW d \in 1 .. issued
                 PROVE  /\ token'[d].origin \in Origins
                        /\ token'[d].epoch \in 1 .. epochs'[token'[d].origin]
      OBVIOUS
    <3>1. /\ token'[d] = token[d] /\ token[d].origin \in Origins
          /\ token[d].epoch \in 1 .. epochs[token[d].origin]
      BY <1>6, <2>1 DEF IInv, TokenOK
    <3>2. /\ epochs[token[d].origin] <= epochs'[token[d].origin]
          /\ epochs[token[d].origin] \in Nat /\ epochs'[token[d].origin] \in Nat
      BY <1>1, <1>2, <1>4, <3>1, EnsureEpochOK DEF IInv, TypeOK
    <3> QED BY <3>1, <3>2
  <2>3. t.origin = o /\ t.epoch = meta'[o].epoch
    BY DEF t
  <2>4. \A d \in 1 .. issued' : d \in 1 .. issued \/ d = c
    BY <1>1, <1>3
  <2> QED BY <1>1, <1>2, <1>3, <1>4, <1>6, <2>2, <2>3, <2>4 DEF TokenOK
<1>10. /\ EpochBound' /\ DisjointOwners' /\ OwnersActive' /\ JobOK'
       /\ TombstoneOwned'
  BY <1>1, <1>2, EnsureEpochFrame
<1>11. \A p \in Origins : \A i \in file[p] : i.by <= issued /\ token'[i.by] = token[i.by]
  BY <1>3, <1>6, StateTypes DEF IInv, ItemsOK, Captures
<1>12. ItemsOK' /\ LatestOK'
  <2>1. latest' <= issued' /\ \A p \in Origins : proj'[p] <= issued'
    BY <1>1, <1>3 DEF IInv, TypeOK, LatestOK, Captures
  <2>2. \A p \in Origins : \A i \in file[p] : i.by <= issued'
    BY <1>1, <1>3, <1>11, StateTypes DEF IInv, Captures
  <2> QED BY <1>1, <2>1, <2>2 DEF IInv, ItemsOK, LatestOK
<1>13. EpochFence' /\ CommittedIsCleared'
  BY <1>1, <1>2, <1>11, EnsureEpochFence
<1>14. ProjectionBacked'
  <2>1. latest # 0 => latest \in Captures /\ latest # c
    BY <1>3 DEF IInv, TypeOK, LatestOK
  <2>2. latest # 0 => token'[latest] = token[latest]
    BY <1>6, <2>1
  <2> QED BY <1>1, <2>2 DEF IInv, ProjectionBacked
<1> QED BY <1>7, <1>8, <1>9, <1>10, <1>12, <1>13, <1>14 DEF IInv

LEMMA RefuseTokenInv ==
  ASSUME IInv, RefuseToken
  PROVE  IInv'
<1> DEFINE o == begin.origin
<1>1. /\ job = Idle /\ job' = job /\ begin' = NoBegin
      /\ UNCHANGED <<file, proj, latest, clearOp, generation, lease, asked,
                     token, issued, landed, faults>>
      /\ \/ UNCHANGED <<meta, epochs>>
         \/ meta[o].clearing = NoClear /\ EnsureEpoch(o)
      /\ o \in Origins
  BY DEF RefuseToken, authority, IInv, BeginOK
<1> HIDE DEF o
<1>2. BeginOK' /\ begin' \in BeginType
  BY <1>1, IdleTypes DEF BeginOK
<1>3. CASE UNCHANGED <<meta, epochs>>
  <2>1. TypeOK'
    BY <1>1, <1>2, <1>3 DEF IInv, TypeOK, BeginType
  <2>2. TokenOK' /\ JobOK'
    BY <1>1, <1>3 DEF IInv, TokenOK, JobOK
  <2> QED BY <1>1, <1>2, <1>3, <2>1, <2>2, DurableFrame DEF IInv, authority
<1>4. CASE meta[o].clearing = NoClear /\ EnsureEpoch(o)
  <2>1. /\ meta' \in [Origins -> Meta] /\ epochs' \in [Origins -> Nat]
        /\ \A p \in Origins : /\ epochs[p] <= epochs'[p]
                              /\ Len(meta'[p].receipts) <= ReceiptWindow
    BY <1>1, <1>4, EnsureEpochOK
  <2>2. TypeOK'
    BY <1>1, <1>2, <2>1 DEF IInv, TypeOK, BeginType
  <2>3. TokenOK'
    <3> SUFFICES ASSUME NEW d \in 1 .. issued
                 PROVE  /\ token[d].origin \in Origins
                        /\ token[d].epoch \in 1 .. epochs'[token[d].origin]
      BY <1>1 DEF IInv, TokenOK
    <3>1. /\ token[d].origin \in Origins
          /\ token[d].epoch \in 1 .. epochs[token[d].origin]
      BY DEF IInv, TokenOK
    <3>2. /\ epochs[token[d].origin] <= epochs'[token[d].origin]
          /\ epochs[token[d].origin] \in Nat /\ epochs'[token[d].origin] \in Nat
      BY <2>1, <3>1 DEF IInv, TypeOK
    <3> QED BY <3>1, <3>2
  <2>4. /\ EpochBound' /\ DisjointOwners' /\ OwnersActive' /\ JobOK'
        /\ TombstoneOwned' /\ EpochFence' /\ CommittedIsCleared'
    BY <1>1, <1>4, EnsureEpochFrame, EnsureEpochFence
  <2>5. ItemsOK' /\ LatestOK' /\ ProjectionBacked'
    BY <1>1 DEF IInv, ItemsOK, LatestOK, ProjectionBacked
  <2> QED BY <1>2, <2>2, <2>3, <2>4, <2>5 DEF IInv
<1> QED BY <1>1, <1>3, <1>4

\* Storing an item under MayCommit's guards, whatever item it replaces.
LEMMA WriteCaptureInv ==
  ASSUME IInv, NEW c \in Captures, MayCommit(c),
         NEW item \in Item, item.by = c,
         NEW items \in SUBSET Item, item \in items,
         \A i \in items : i = item \/ i \in file[token[c].origin],
         \A i, j \in items : i.id = j.id => i = j,
         WriteCapture(c, token[c].origin, item, items)
  PROVE  IInv'
<1> DEFINE o == token[c].origin
           r == [op |-> c, item |-> item.id, ann |-> item.ann]
           receipts == AppendReceipt(meta[o].receipts, r)
<1>1. /\ lease = c /\ job = Idle /\ meta[o].clearing = NoClear
      /\ meta[o].epoch = token[c].epoch
  BY DEF MayCommit
<1>2. c \in 1 .. issued /\ o \in Origins /\ token[c].epoch \in 1 .. epochs[o]
  <2>1. c \in 1 .. issued
    BY <1>1 DEF IInv, TypeOK, TokenOK, Captures
  <2> QED BY <2>1 DEF IInv, TokenOK
<1>3. /\ r \in Receipt /\ meta[o].receipts \in Seq(Receipt) /\ meta[o] \in Meta
  BY <1>2, StateTypes DEF Item, Receipt, IInv, Meta
<1>4. receipts \in Seq(Receipt) /\ Len(receipts) <= ReceiptWindow
  BY <1>3, AppendReceiptOK
<1> HIDE DEF r, o
<1>5. /\ file' = [file EXCEPT ![o] = items]
      /\ meta' = [meta EXCEPT ![o].receipts = AppendReceipt(@, r)]
      /\ proj' = [proj EXCEPT ![o] = c] /\ latest' = c /\ landed' = landed \cup {c}
      /\ UNCHANGED <<clearOp, generation, job, begin, lease, asked, token, issued,
                     epochs, faults>>
  BY DEF WriteCapture, r, o, authority
<1>6. /\ file' \in [Origins -> SUBSET Item] /\ file'[o] = items
      /\ \A p \in Origins \ {o} : file'[p] = file[p]
  BY <1>2, <1>5 DEF IInv, TypeOK
<1>7. /\ proj' \in [Origins -> Captures \cup {0}] /\ proj'[o] = c
      /\ \A p \in Origins \ {o} : proj'[p] = proj[p]
  BY <1>2, <1>5 DEF IInv, TypeOK
<1>8. meta' = [meta EXCEPT ![o].receipts = receipts]
  BY <1>5
<1> HIDE DEF receipts
<1>9. /\ meta'[o] = [epoch |-> meta[o].epoch, clearing |-> meta[o].clearing,
                     done |-> meta[o].done, receipts |-> receipts]
      /\ \A p \in Origins \ {o} : meta'[p] = meta[p]
      /\ meta' = [p \in Origins |-> meta'[p]]
  BY <1>2, <1>3, <1>8 DEF IInv, TypeOK, Meta
<1>10. meta'[o] \in Meta
  BY <1>3, <1>4, <1>9 DEF Meta
<1>11. meta' \in [Origins -> Meta]
  BY <1>9, <1>10 DEF IInv, TypeOK
<1>12. \A p \in Origins : /\ meta'[p].epoch = meta[p].epoch
                          /\ meta'[p].clearing = meta[p].clearing
                          /\ Len(meta'[p].receipts) <= ReceiptWindow
  BY <1>4, <1>9 DEF IInv, TypeOK
<1>13. TypeOK'
  BY <1>5, <1>6, <1>7, <1>11, <1>12 DEF IInv, TypeOK
<1>14. BeginOK' /\ TokenOK' /\ JobOK'
  BY <1>1, <1>5 DEF IInv, BeginOK, TokenOK, JobOK, Idle
<1>15. ItemsOK'
  BY <1>2, <1>5, <1>6, StateTypes DEF IInv, ItemsOK, o
<1>16. EpochBound' /\ DisjointOwners' /\ OwnersActive' /\ TombstoneOwned'
  BY <1>5, <1>12 DEF IInv, EpochBound, DisjointOwners, OwnersActive,
     TombstoneOwned, Active
<1>17. LatestOK'
  BY <1>2, <1>5, <1>7 DEF IInv, LatestOK
<1>18. EpochFence'
  <2>1. \A i \in items : token[i.by].origin = o /\ token[i.by].epoch = meta[o].epoch
    BY <1>1, <1>2 DEF IInv, EpochFence, o
  <2> QED BY <1>1, <1>5, <1>6, <1>12, <2>1 DEF IInv, EpochFence
<1>19. CommittedIsCleared'
  <2> SUFFICES ASSUME NEW x \in DurableClears, NEW p \in Origins,
                      clearOp[x].entry[p].state = "committed"
               PROVE  /\ \/ meta[p].epoch = 0
                         \/ meta[p].epoch >= clearOp[x].entry[p].after
                      /\ \A i \in file'[p] :
                           token[i.by].epoch >= clearOp[x].entry[p].after
    BY <1>5, <1>12 DEF CommittedIsCleared
  <2>1. /\ meta[p].epoch = 0 \/ meta[p].epoch >= clearOp[x].entry[p].after
        /\ \A i \in file[p] : token[i.by].epoch >= clearOp[x].entry[p].after
    BY DEF IInv, CommittedIsCleared
  <2>2. CASE p # o
    BY <1>6, <2>1, <2>2
  <2>3. CASE p = o
    <3>1. token[c].epoch >= clearOp[x].entry[p].after
      BY <1>1, <1>2, <2>1, <2>3
    <3> QED BY <1>6, <2>1, <2>3, <3>1 DEF o
  <2> QED BY <2>2, <2>3
<1>20. ProjectionBacked'
  <2>1. \A p \in Origins : proj'[p] # 0 => \E i \in file'[p] : i.by = proj'[p]
    BY <1>6, <1>7 DEF IInv, ProjectionBacked
  <2>2. \E i \in file'[token[c].origin] : i.by = c
    BY <1>6 DEF o
  <2> QED BY <1>5, <2>1, <2>2 DEF ProjectionBacked
<1> QED BY <1>13, <1>14, <1>15, <1>16, <1>17, <1>18, <1>19, <1>20 DEF IInv

LEMMA CommitNewInv ==
  ASSUME IInv, NEW c \in Captures, CommitNew(c)
  PROVE  IInv'
<1> DEFINE o == token[c].origin
<1>1. MayCommit(c)
  BY DEF CommitNew
<1>2. o \in Origins
  BY <1>1 DEF IInv, TypeOK, TokenOK, Captures, MayCommit
<1>3. PICK n \in 1 .. MaxItems :
        /\ FreeId(o, n)
        /\ WriteCapture(c, o, [id |-> n, ann |-> c, by |-> c],
                        file[o] \cup {[id |-> n, ann |-> c, by |-> c]})
  BY DEF CommitNew
<1> DEFINE item == [id |-> n, ann |-> c, by |-> c]
           items == file[o] \cup {item}
<1>4. item \in Item /\ item.by = c /\ item.id = n
  BY DEF Item
<1>5. \A i \in file[o] : i.id # n
  BY <1>3 DEF FreeId
<1> HIDE DEF item
<1>6. /\ items \in SUBSET Item /\ item \in items
      /\ \A i \in items : i = item \/ i \in file[o]
  BY <1>2, <1>4, StateTypes DEF IInv
<1>7. \A i, j \in items : i.id = j.id => i = j
  BY <1>2, <1>4, <1>5 DEF IInv, ItemsOK
<1>8. WriteCapture(c, o, item, items)
  BY <1>3 DEF item
<1> HIDE DEF items
<1> QED BY <1>1, <1>4, <1>6, <1>7, <1>8, WriteCaptureInv

LEMMA CommitReplacementInv ==
  ASSUME IInv, NEW c \in Captures, CommitReplacement(c)
  PROVE  IInv'
<1> DEFINE o == token[c].origin
<1>1. MayCommit(c) /\ token[c].replace \subseteq file[o]
  BY DEF CommitReplacement
<1>2. o \in Origins
  BY <1>1 DEF IInv, TypeOK, TokenOK, Captures, MayCommit
<1>3. PICK old \in token[c].replace :
        WriteCapture(c, o, [old EXCEPT !.by = c],
                     (file[o] \ {old}) \cup {[old EXCEPT !.by = c]})
  BY DEF CommitReplacement
<1> DEFINE item == [old EXCEPT !.by = c]
           items == (file[o] \ {old}) \cup {item}
<1>4. old \in file[o] /\ old \in Item
  BY <1>1, <1>2, StateTypes DEF IInv
<1>5. item \in Item /\ item.by = c /\ item.id = old.id
  BY <1>4 DEF Item
<1>6. WriteCapture(c, o, item, items)
  BY <1>3
<1> HIDE DEF item
<1>7. /\ items \in SUBSET Item /\ item \in items
      /\ \A i \in items : i = item \/ i \in file[o]
  BY <1>2, <1>5, StateTypes DEF IInv
<1>8. \A i, j \in items : i.id = j.id => i = j
  BY <1>2, <1>4, <1>5 DEF IInv, ItemsOK
<1> HIDE DEF items
<1> QED BY <1>1, <1>5, <1>6, <1>7, <1>8, WriteCaptureInv

LEMMA ReplayCommitInv ==
  ASSUME IInv, NEW c \in Captures, ReplayCommit(c)
  PROVE  IInv'
<1> DEFINE o == token[c].origin
<1>1. PICK k \in DOMAIN meta[o].receipts :
        meta' = [meta EXCEPT ![o].receipts = RefreshReceipt(@, k)]
  BY DEF ReplayCommit
<1>2. /\ job = Idle
      /\ UNCHANGED <<file, proj, latest, clearOp, generation, job, begin, lease,
                     asked, token, issued, landed, epochs, faults>>
  BY DEF ReplayCommit, MayCommit, authority
<1>3. o \in Origins
  BY DEF IInv, TypeOK, TokenOK, Captures, MayCommit, ReplayCommit
<1> HIDE DEF o
<1> DEFINE receipts == RefreshReceipt(meta[o].receipts, k)
<1>4. meta[o] \in Meta /\ meta[o].receipts \in Seq(Receipt)
  BY <1>3, StateTypes DEF IInv, Meta
<1>5. receipts \in Seq(Receipt) /\ Len(receipts) <= ReceiptWindow
  BY <1>4, RefreshReceiptOK
<1>6. meta' = [meta EXCEPT ![o].receipts = receipts]
  BY <1>1
<1> HIDE DEF receipts
<1>7. /\ meta'[o] = [epoch |-> meta[o].epoch, clearing |-> meta[o].clearing,
                     done |-> meta[o].done, receipts |-> receipts]
      /\ \A p \in Origins \ {o} : meta'[p] = meta[p]
      /\ meta' = [p \in Origins |-> meta'[p]]
  BY <1>3, <1>4, <1>6 DEF IInv, TypeOK, Meta
<1>8. meta'[o] \in Meta
  BY <1>4, <1>5, <1>7 DEF Meta
<1>9. meta' \in [Origins -> Meta]
  BY <1>7, <1>8 DEF IInv, TypeOK
<1>10. \A p \in Origins : /\ meta'[p].epoch = meta[p].epoch
                          /\ meta'[p].clearing = meta[p].clearing
                          /\ Len(meta'[p].receipts) <= ReceiptWindow
  <2>1. /\ meta'[o].epoch = meta[o].epoch /\ meta'[o].clearing = meta[o].clearing
        /\ Len(meta'[o].receipts) <= ReceiptWindow
    BY <1>5, <1>7
  <2>2. \A p \in Origins : Len(meta[p].receipts) <= ReceiptWindow
    BY DEF IInv, TypeOK
  <2> QED BY <1>7, <2>1, <2>2
<1>11. TypeOK'
  BY <1>2, <1>9, <1>10 DEF IInv, TypeOK
<1>12. BeginOK' /\ TokenOK' /\ JobOK' /\ ItemsOK' /\ LatestOK' /\ ProjectionBacked'
  BY <1>2 DEF IInv, BeginOK, TokenOK, JobOK, Idle, ItemsOK, LatestOK,
     ProjectionBacked
<1>13. /\ EpochBound' /\ DisjointOwners' /\ OwnersActive' /\ TombstoneOwned'
       /\ EpochFence' /\ CommittedIsCleared'
  BY <1>2, <1>10 DEF IInv, EpochBound, DisjointOwners, OwnersActive,
     TombstoneOwned, Active, EpochFence, CommittedIsCleared
<1> QED BY <1>11, <1>12, <1>13 DEF IInv

LEMMA RemoveItemInv ==
  ASSUME IInv, NEW o \in Origins, NEW epoch \in Epochs, NEW n \in 1 .. MaxItems,
         RemoveItem(o, epoch, n)
  PROVE  IInv'
<1>1. PICK i \in file[o] : i.id = n /\ PurgeItem(o, i)
  BY DEF RemoveItem
<1>2. /\ job' = [step |-> "remove", clear |-> NoClear, origin |-> o, item |-> n]
      /\ UNCHANGED <<meta, file, clearOp, generation, begin, lease, asked, token,
                     issued, landed, epochs, faults>>
  BY DEF RemoveItem, authority, captureVars
<1>3. /\ proj' \in [Origins -> Captures \cup {0}]
      /\ \A p \in Origins : proj'[p] \in {0, proj[p]}
      /\ proj'[o] # i.by
  <2>1. proj' = [proj EXCEPT ![o] = IF Shows(@, o, i) THEN 0 ELSE @]
    BY <1>1 DEF PurgeItem
  <2>2. i.by # 0
    BY StateTypes DEF IInv, Captures
  <2> QED BY <2>1, <2>2 DEF IInv, TypeOK, Shows
<1>4. latest' \in {0, latest} /\ latest' # i.by
  <2>1. latest' = IF latest # 0 /\ token[latest].origin = o /\ Shows(latest, o, i)
                  THEN 0 ELSE latest
    BY <1>1 DEF PurgeItem
  <2>2. i.by # 0 /\ token[i.by].origin = o
    BY StateTypes DEF IInv, Captures, EpochFence
  <2> QED BY <2>1, <2>2 DEF Shows
<1>5. TypeOK'
  <2>1. job' \in JobType
    BY <1>2, ConstantTypes DEF JobType
  <2> QED BY <1>2, <1>3, <1>4, <2>1 DEF IInv, TypeOK, JobType
<1>6. BeginOK' /\ TokenOK' /\ ItemsOK'
  BY <1>2 DEF IInv, BeginOK, TokenOK, ItemsOK
<1>7. /\ EpochBound' /\ DisjointOwners' /\ OwnersActive' /\ TombstoneOwned'
      /\ EpochFence' /\ CommittedIsCleared'
  BY <1>2 DEF IInv, EpochBound, DisjointOwners, OwnersActive,
     TombstoneOwned, Active, EpochFence, CommittedIsCleared
<1>8. JobOK'
  <2>1. \A j \in file[o] : j.id = n => j = i
    BY <1>1 DEF IInv, ItemsOK
  <2> QED BY <1>2, <1>3, <1>4, <2>1 DEF JobOK
<1>9. LatestOK'
  <2>1. issued \in Nat
    BY ConstantTypes DEF IInv, TypeOK
  <2>2. latest' <= issued
    BY <1>4, <2>1 DEF IInv, LatestOK
  <2>3. \A p \in Origins : proj'[p] <= issued
    BY <1>3, <2>1 DEF IInv, LatestOK
  <2> QED BY <1>2, <2>2, <2>3 DEF LatestOK
<1>10. ProjectionBacked'
  BY <1>2, <1>3, <1>4 DEF IInv, ProjectionBacked
<1> QED BY <1>5, <1>6, <1>7, <1>8, <1>9, <1>10 DEF IInv

LEMMA RemoveWriteInv ==
  ASSUME IInv, RemoveWrite
  PROVE  IInv'
<1> DEFINE o == job.origin
<1>1. /\ job.step = "remove" /\ job' = Idle
      /\ UNCHANGED <<meta, proj, latest, clearOp, generation, begin, lease, asked,
                     token, issued, landed, epochs, faults>>
  BY DEF RemoveWrite, authority, captureVars
<1>2. /\ o \in Origins
      /\ \A i \in file[o] : i.id = job.item => i.by # proj[o] /\ i.by # latest
  BY <1>1 DEF IInv, JobOK
<1>3. /\ file' \in [Origins -> SUBSET Item]
      /\ file'[o] = {i \in file[o] : i.id # job.item}
      /\ \A p \in Origins \ {o} : file'[p] = file[p]
  BY <1>2 DEF RemoveWrite, IInv, TypeOK
<1>4. \A p \in Origins : file'[p] \subseteq file[p]
  BY <1>3
<1> HIDE DEF o
<1>5. TypeOK'
  BY <1>1, <1>3, IdleTypes DEF IInv, TypeOK, JobType
<1>6. BeginOK' /\ TokenOK' /\ JobOK' /\ LatestOK'
  BY <1>1 DEF IInv, BeginOK, TokenOK, JobOK, Idle, LatestOK
<1>7. /\ ItemsOK' /\ EpochBound' /\ DisjointOwners' /\ OwnersActive'
      /\ TombstoneOwned' /\ EpochFence' /\ CommittedIsCleared'
  BY <1>1, <1>4 DEF IInv, ItemsOK, EpochBound, DisjointOwners, OwnersActive,
     TombstoneOwned, Active, EpochFence, CommittedIsCleared
<1>8. ProjectionBacked'
  <2>1. ASSUME NEW p \in Origins, proj[p] # 0
        PROVE  \E i \in file'[p] : i.by = proj[p]
    <3>1. PICK i \in file[p] : i.by = proj[p]
      BY <2>1 DEF IInv, ProjectionBacked
    <3> QED BY <1>2, <1>3, <3>1
  <2>2. ASSUME latest # 0
        PROVE  \E i \in file'[token[latest].origin] : i.by = latest
    <3>1. token[latest].origin \in Origins
      BY <2>2 DEF IInv, TypeOK, LatestOK, TokenOK, Captures
    <3>2. PICK i \in file[token[latest].origin] : i.by = latest
      BY <2>2 DEF IInv, ProjectionBacked
    <3> QED BY <1>2, <1>3, <3>1, <3>2
  <2> QED BY <1>1, <2>1, <2>2 DEF ProjectionBacked
<1> QED BY <1>5, <1>6, <1>7, <1>8 DEF IInv

\* A tombstone may be written over an origin nobody clears, with an epoch beyond
\* all its captures and all committed clears; a durable clear must still own it.
LEMMA StartClearInv ==
  ASSUME IInv, NEW o \in Origins, NEW x \in ClearIds, NEW after \in Nat,
         meta[o].clearing = NoClear, meta[o].epoch < after, after <= epochs'[o],
         epochs' \in [Origins -> Nat], \A p \in Origins : epochs[p] <= epochs'[p],
         \A y \in DurableClears :
           clearOp[y].entry[o].state = "committed" => clearOp[y].entry[o].after <= after,
         x \in DurableClears =>
           /\ clearOp[x].entry[o].state = "pending"
           /\ clearOp[x].entry[o].after = after,
         StartClear(o, x, after), job' = Sweep(o, x),
         asked' \in ClearIds \cup {AllStored, NoClear},
         UNCHANGED <<file, proj, latest, authority, begin, lease, token, issued,
                     landed, faults>>
  PROVE  IInv'
<1> DEFINE m == [epoch |-> after, clearing |-> x, done |-> meta[o].done,
                 receipts |-> <<>>]
<1>1. meta' = [meta EXCEPT ![o] = m]
  BY DEF StartClear
<1>2. m \in Meta /\ Len(m.receipts) = 0 /\ m.epoch = after /\ m.clearing = x
  <2>1. <<>> \in Seq(Receipt) /\ Len(<<>>) = 0 /\ meta[o].done \in ClearIds \cup {NoClear}
    BY EmptySeq, StateTypes DEF IInv, Meta
  <2>2. m \in Meta
    BY <2>1 DEF Meta
  <2> QED BY <2>1, <2>2
<1> HIDE DEF m
<1>3. /\ meta' \in [Origins -> Meta] /\ meta'[o] = m
      /\ \A p \in Origins \ {o} : meta'[p] = meta[p]
  BY <1>1, <1>2 DEF IInv, TypeOK
<1>4. TypeOK'
  <2>1. job' \in JobType
    BY JobTypes
  <2>2. \A p \in Origins : Len(meta'[p].receipts) <= ReceiptWindow
    <3>1. \A p \in Origins : Len(meta[p].receipts) <= ReceiptWindow
      BY DEF IInv, TypeOK
    <3>2. Len(m.receipts) <= ReceiptWindow
      BY <1>2, ConstantsOK
    <3> QED  BY <1>3, <3>1, <3>2
  <2> QED BY <1>3, <2>1, <2>2 DEF IInv, TypeOK, JobType, authority
<1>5. BeginOK' /\ ItemsOK' /\ DisjointOwners' /\ OwnersActive' /\ LatestOK'
      /\ ProjectionBacked'
  BY DEF IInv, BeginOK, ItemsOK, DisjointOwners, OwnersActive, LatestOK,
     ProjectionBacked, authority
<1>6. TokenOK'
  <2> SUFFICES ASSUME NEW d \in 1 .. issued
               PROVE  /\ token[d].origin \in Origins
                      /\ token[d].epoch \in 1 .. epochs'[token[d].origin]
    BY DEF IInv, TokenOK
  <2>1. /\ token[d].origin \in Origins
        /\ token[d].epoch \in 1 .. epochs[token[d].origin]
    BY DEF IInv, TokenOK
  <2>2. /\ epochs[token[d].origin] <= epochs'[token[d].origin]
        /\ epochs[token[d].origin] \in Nat /\ epochs'[token[d].origin] \in Nat
    BY <2>1 DEF IInv, TypeOK
  <2> QED BY <2>1, <2>2
<1>7. EpochBound'
  <2> SUFFICES ASSUME NEW p \in Origins
               PROVE  /\ meta'[p].epoch <= epochs'[p]
                      /\ \A y \in DurableClears :
                           /\ clearOp[y].entry[p].after <= epochs'[p]
                           /\ clearOp[y].entry[p].state = "pending" =>
                                clearOp[y].entry[p].before
                                  < clearOp[y].entry[p].after
    BY DEF EpochBound, authority
  <2>1. /\ epochs[p] \in Nat /\ epochs'[p] \in Nat /\ meta[p].epoch \in Nat
        /\ \A y \in DurableClears : clearOp[y].entry[p].after \in Nat
        /\ epochs[p] <= epochs'[p]
    BY StateTypes DEF IInv
  <2>2. meta'[p].epoch = meta[p].epoch \/ meta'[p].epoch <= epochs'[p]
    BY <1>2, <1>3
  <2> QED BY <2>1, <2>2 DEF IInv, EpochBound
<1>8. JobOK'
  BY <1>2, <1>3 DEF JobOK, Sweep
<1>9. EpochFence'
  <2>1. x # NoClear
    BY ConstantTypes DEF ClearIds
  <2>2. \A i \in file[o] : token[i.by].origin = o /\ token[i.by].epoch < after
    BY DEF IInv, EpochFence
  <2> QED BY <1>2, <1>3, <2>1, <2>2 DEF IInv, EpochFence
<1>10. TombstoneOwned'
  <2>1. \A y \in DurableClears, p \in Origins :
          Active(y)' = Active(y) /\ clearOp' = clearOp
    BY DEF Active, authority
  <2>2. x \in DurableClears => Active(x)
    BY DEF IInv, OwnersActive, Active
  <2> QED BY <1>2, <1>3, <2>1, <2>2 DEF IInv, TombstoneOwned
<1>11. CommittedIsCleared'
  <2>1. clearOp' = clearOp /\ file' = file /\ token' = token
    BY DEF authority
  <2>2. \A y \in DurableClears, p \in Origins :
          clearOp[y].entry[p].state = "committed" =>
            \/ meta'[p].epoch = meta[p].epoch
            \/ meta'[p].epoch >= clearOp[y].entry[p].after
    BY <1>2, <1>3, StateTypes DEF IInv
  <2> QED BY <2>1, <2>2 DEF IInv, CommittedIsCleared
<1> QED BY <1>4, <1>5, <1>6, <1>7, <1>8, <1>9, <1>10, <1>11 DEF IInv

LEMMA SavedClearInv ==
  ASSUME IInv, NEW o \in Origins, NEW epoch \in Epochs \cup {0},
         NEW x \in SavedClears, SavedClear(o, epoch, x)
  PROVE  IInv'
<1>1. /\ job' = Sweep(o, x) /\ asked' = NoClear
      /\ UNCHANGED <<file, proj, latest, authority, begin, lease, token, issued,
                     landed, faults>>
      /\ x \in ClearIds /\ x \notin DurableClears
  BY ConstantTypes DEF SavedClear, ClearIds
<1>2. CASE meta[o].clearing = x /\ UNCHANGED <<meta, epochs>>
  <2>1. job' \in JobType
    BY <1>1, JobTypes
  <2>2. TypeOK'
    BY <1>1, <1>2, <2>1 DEF IInv, TypeOK, JobType, authority
  <2>3. BeginOK' /\ TokenOK'
    BY <1>1, <1>2 DEF IInv, BeginOK, TokenOK
  <2>4. JobOK'
    BY <1>1, <1>2 DEF JobOK, Sweep
  <2> QED BY <1>1, <1>2, <2>2, <2>3, <2>4, DurableFrame DEF IInv
<1>3. CASE /\ meta[o].clearing = NoClear
           /\ epochs' = [epochs EXCEPT ![o] = @ + 1]
           /\ StartClear(o, x, epochs[o] + 1)
  <2>1. /\ epochs \in [Origins -> Nat] /\ epochs[o] \in Nat
        /\ meta[o].epoch \in Nat /\ meta[o].epoch <= epochs[o]
        /\ \A y \in DurableClears : /\ clearOp[y].entry[o].after \in Nat
                                    /\ clearOp[y].entry[o].after <= epochs[o]
    BY StateTypes DEF IInv, TypeOK, EpochBound
  <2>2. /\ epochs' \in [Origins -> Nat] /\ epochs'[o] = epochs[o] + 1
        /\ \A p \in Origins : epochs[p] <= epochs'[p]
    <3>1. \A p \in Origins : epochs[p] \in Nat
      BY <2>1
    <3> QED BY <1>3, <2>1, <3>1
  <2> DEFINE after == epochs[o] + 1
  <2>3. /\ after \in Nat /\ meta[o].epoch < after /\ after <= epochs'[o]
        /\ \A y \in DurableClears : clearOp[y].entry[o].after <= after
    BY <2>1, <2>2
  <2>4. StartClear(o, x, after)
    BY <1>3
  <2> HIDE DEF after
  <2> QED BY <1>1, <1>3, <2>2, <2>3, <2>4, StartClearInv
<1> QED BY <1>2, <1>3 DEF SavedClear

LEMMA StartOriginInv ==
  ASSUME IInv, NEW o \in Origins, StartOrigin(o)
  PROVE  IInv'
<1> DEFINE x == job.clear
           after == clearOp[x].entry[o].after
<1>1. /\ x \in DurableClears /\ clearOp[x].entry[o].state = "pending"
      /\ meta[o].clearing = NoClear /\ meta[o].epoch = clearOp[x].entry[o].before
      /\ StartClear(o, x, after) /\ job' = Sweep(o, x)
      /\ UNCHANGED <<file, proj, latest, authority, begin, lease, asked, token,
                     issued, landed, epochs, faults>>
  BY DEF StartOrigin, Visits, PendingOf, captureVars, IInv, JobOK
<1> HIDE DEF x
<1>2. after \in Nat /\ after <= epochs[o] /\ meta[o].epoch < after
  BY <1>1, StateTypes DEF IInv, EpochBound
<1>3. \A y \in DurableClears : clearOp[y].entry[o].state # "committed"
  BY <1>1 DEF IInv, DisjointOwners
<1>4. /\ epochs' = epochs /\ epochs \in [Origins -> Nat]
      /\ \A p \in Origins : epochs[p] <= epochs[p]
      /\ asked \in ClearIds \cup {AllStored, NoClear}
  BY <1>1, StateTypes DEF IInv, TypeOK
<1>5. x \in ClearIds
  BY <1>1 DEF ClearIds
<1>6. clearOp[x].entry[o].after = after
  OBVIOUS
<1> HIDE DEF after
<1> QED BY <1>1, <1>2, <1>3, <1>4, <1>5, <1>6, StartClearInv

LEMMA PurgeInv ==
  ASSUME IInv, Purge
  PROVE  IInv'
<1> DEFINE o == job.origin
<1>1. /\ job.step = "purge" /\ job' = [job EXCEPT !.step = "complete"]
      /\ latest' = IF latest # 0 /\ token[latest].origin = o THEN 0 ELSE latest
      /\ UNCHANGED <<meta, clearOp, generation, begin, lease, asked, token, issued,
                     landed, epochs, faults>>
  BY DEF Purge, authority, captureVars
<1>2. o \in Origins /\ job.clear \in ClearIds /\ meta[o].clearing = job.clear
  BY <1>1 DEF IInv, JobOK
<1>3. /\ file' \in [Origins -> SUBSET Item] /\ file'[o] = {}
      /\ \A p \in Origins \ {o} : file'[p] = file[p]
  BY <1>2 DEF Purge, IInv, TypeOK
<1>4. /\ proj' \in [Origins -> Captures \cup {0}] /\ proj'[o] = 0
      /\ \A p \in Origins \ {o} : proj'[p] = proj[p]
  BY <1>2 DEF Purge, IInv, TypeOK
<1>5. /\ job' \in JobType /\ job'.step = "complete" /\ job'.clear = job.clear
      /\ job'.origin = o
  BY <1>1 DEF IInv, TypeOK, JobType
<1> HIDE DEF o
<1>6. \A p \in Origins : file'[p] \subseteq file[p]
  BY <1>3
<1>7. TypeOK'
  BY <1>1, <1>3, <1>4, <1>5 DEF IInv, TypeOK, JobType
<1>8. BeginOK' /\ TokenOK'
  BY <1>1 DEF IInv, BeginOK, TokenOK
<1>9. JobOK'
  BY <1>1, <1>2, <1>3, <1>5 DEF JobOK
<1>10. /\ ItemsOK' /\ EpochBound' /\ DisjointOwners' /\ OwnersActive'
       /\ TombstoneOwned' /\ EpochFence' /\ CommittedIsCleared'
  BY <1>1, <1>6 DEF IInv, ItemsOK, EpochBound, DisjointOwners, OwnersActive,
     TombstoneOwned, Active, EpochFence, CommittedIsCleared
<1>11. LatestOK'
  <2>1. issued \in Nat
    BY ConstantTypes DEF IInv, TypeOK
  <2> QED BY <1>1, <1>2, <1>4, <2>1 DEF IInv, LatestOK
<1>12. ProjectionBacked'
  <2>1. \A p \in Origins : proj'[p] # 0 => \E i \in file'[p] : i.by = proj'[p]
    BY <1>3, <1>4 DEF IInv, ProjectionBacked
  <2>2. ASSUME latest' # 0
        PROVE  \E i \in file'[token[latest].origin] : i.by = latest
    <3>1. latest' = latest /\ latest # 0 /\ token[latest].origin # o
      BY <1>1, <2>2
    <3>2. token[latest].origin \in Origins
      BY <3>1 DEF IInv, TypeOK, LatestOK, TokenOK, Captures
    <3> QED BY <1>3, <3>1, <3>2 DEF IInv, ProjectionBacked
  <2>3. latest' # 0 => latest' = latest
    BY <1>1
  <2> QED BY <1>1, <2>1, <2>2, <2>3 DEF ProjectionBacked
<1> QED BY <1>7, <1>8, <1>9, <1>10, <1>11, <1>12 DEF IInv

LEMMA CompleteInv ==
  ASSUME IInv, Complete
  PROVE  IInv'
<1> DEFINE o == job.origin
           m == [epoch |-> meta[o].epoch, clearing |-> NoClear,
                 done |-> job.clear, receipts |-> <<>>]
<1>1. /\ job.step = "complete"
      /\ job' = IF job.clear \in DurableClears
                THEN [job EXCEPT !.step = "record"] ELSE Idle
      /\ UNCHANGED <<file, proj, latest, clearOp, generation, begin, lease, asked,
                     token, issued, landed, epochs, faults>>
      /\ meta' = [meta EXCEPT ![o] = m]
  BY DEF Complete, authority, captureVars
<1>2. /\ o \in Origins /\ job.clear \in ClearIds /\ meta[o].clearing = job.clear
      /\ file[o] = {}
  BY <1>1 DEF IInv, JobOK
<1>3. m \in Meta /\ m.epoch = meta[o].epoch /\ m.clearing = NoClear
      /\ Len(m.receipts) <= ReceiptWindow
  <2>1. <<>> \in Seq(Receipt) /\ Len(<<>>) <= ReceiptWindow
    BY EmptySeq, ConstantsOK
  <2>2. meta[o].epoch \in Nat
    BY <1>2, StateTypes DEF IInv
  <2>3. m \in Meta
    BY <1>2, <2>1, <2>2 DEF Meta
  <2> QED BY <2>1, <2>3
<1> HIDE DEF m
<1>4. /\ meta' \in [Origins -> Meta] /\ meta'[o] = m
      /\ \A p \in Origins \ {o} : meta'[p] = meta[p]
  BY <1>1, <1>2, <1>3 DEF IInv, TypeOK
<1>5. /\ job' \in JobType
      /\ \/ job' = Idle
         \/ /\ job.clear \in DurableClears
            /\ job'.step = "record" /\ job'.clear = job.clear /\ job'.origin = o
  BY <1>1, IdleTypes DEF IInv, TypeOK, JobType
<1> HIDE DEF o
<1>6. \A p \in Origins : /\ meta'[p].epoch = meta[p].epoch
                         /\ meta'[p].clearing \in {meta[p].clearing, NoClear}
                         /\ Len(meta'[p].receipts) <= ReceiptWindow
  BY <1>3, <1>4 DEF IInv, TypeOK
<1>7. TypeOK'
  BY <1>1, <1>4, <1>5, <1>6 DEF IInv, TypeOK, JobType
<1>8. BeginOK' /\ TokenOK' /\ ItemsOK' /\ LatestOK' /\ ProjectionBacked'
  BY <1>1 DEF IInv, BeginOK, TokenOK, ItemsOK, LatestOK, ProjectionBacked
<1>9. JobOK'
  <2>1. CASE job' = Idle
    BY <2>1 DEF JobOK, Idle
  <2>2. CASE /\ job.clear \in DurableClears /\ job'.step = "record"
             /\ job'.clear = job.clear /\ job'.origin = o
    <3>1. /\ clearOp[job.clear].entry[o].state = "pending"
          /\ clearOp[job.clear].entry[o].after = meta[o].epoch
      BY <1>2, <2>2 DEF IInv, TombstoneOwned
    <3> QED BY <1>1, <1>2, <1>3, <1>4, <2>2, <3>1 DEF JobOK
  <2> QED BY <1>5, <2>1, <2>2
<1>10. EpochBound' /\ DisjointOwners' /\ OwnersActive' /\ CommittedIsCleared'
  BY <1>1, <1>6 DEF IInv, EpochBound, DisjointOwners, OwnersActive,
     CommittedIsCleared
<1>11. TombstoneOwned'
  BY <1>1, <1>6, ConstantTypes DEF IInv, TombstoneOwned, Active
<1>12. EpochFence'
  BY <1>1, <1>2, <1>4 DEF IInv, EpochFence
<1> QED BY <1>7, <1>8, <1>9, <1>10, <1>11, <1>12 DEF IInv

LEMMA ClearAllInv ==
  ASSUME IInv, ClearAll
  PROVE  IInv'
<1>1. /\ job = Idle
      /\ meta' = [o \in Origins |-> NoMeta] /\ file' = [o \in Origins |-> {}]
      /\ proj' = [o \in Origins |-> 0] /\ latest' = 0 /\ asked' = NoClear
      /\ UNCHANGED <<clearOp, generation, job, begin, lease, token, issued, landed,
                     epochs, faults>>
  BY DEF ClearAll, authority
<1>2. /\ NoMeta \in Meta /\ NoMeta.epoch = 0 /\ NoMeta.clearing = NoClear
      /\ Len(NoMeta.receipts) <= ReceiptWindow
  BY EmptySeq, ConstantsOK DEF NoMeta, Meta
<1>3. TypeOK'
  BY <1>1, <1>2 DEF IInv, TypeOK
<1>4. BeginOK' /\ TokenOK' /\ DisjointOwners' /\ OwnersActive'
  BY <1>1 DEF IInv, BeginOK, TokenOK, DisjointOwners, OwnersActive
<1>5. JobOK' /\ ItemsOK' /\ ProjectionBacked' /\ EpochFence'
  BY <1>1 DEF JobOK, Idle, ItemsOK, ProjectionBacked, EpochFence
<1>6. EpochBound'
  BY <1>1, <1>2, StateTypes DEF IInv, EpochBound
<1>7. LatestOK'
  <2>1. issued \in Nat
    BY ConstantTypes DEF IInv, TypeOK
  <2> QED BY <1>1, <2>1 DEF LatestOK
<1>8. TombstoneOwned' /\ CommittedIsCleared'
  BY <1>1, <1>2, ConstantTypes DEF TombstoneOwned, CommittedIsCleared
<1> QED BY <1>3, <1>4, <1>5, <1>6, <1>7, <1>8 DEF IInv

\* Closing one origin of an operation changes that entry's state, nothing else.
LEMMA SetEntryOK ==
  ASSUME TypeOK, NEW x \in DurableClears, NEW o \in Origins,
         NEW st \in {"committed", "conflict"}, SetEntry(x, o, st)
  PROVE  /\ clearOp' \in [DurableClears -> ClearOp]
         /\ \A y \in DurableClears :
              /\ clearOp'[y].gen = clearOp[y].gen
              /\ \A p \in Origins :
                   /\ clearOp'[y].entry[p].before = clearOp[y].entry[p].before
                   /\ clearOp'[y].entry[p].after = clearOp[y].entry[p].after
                   /\ clearOp'[y].entry[p].state =
                        IF y = x /\ p = o THEN st ELSE clearOp[y].entry[p].state
<1> DEFINE e == [clearOp[x].entry[o] EXCEPT !.state = st]
           f == [clearOp[x].entry EXCEPT ![o] = e]
           r == [gen |-> clearOp[x].gen, entry |-> f]
<1>1. /\ clearOp \in [DurableClears -> ClearOp] /\ clearOp[x] \in ClearOp
      /\ clearOp[x].gen \in Nat /\ clearOp[x].entry \in [Origins -> Entry]
      /\ clearOp[x].entry[o] \in Entry
  BY DEF TypeOK, ClearOp
<1>2. /\ e \in Entry /\ e.before = clearOp[x].entry[o].before
      /\ e.after = clearOp[x].entry[o].after /\ e.state = st
  BY <1>1 DEF Entry
<1>3. clearOp' = [clearOp EXCEPT ![x] = r]
  <2>1. clearOp' = [clearOp EXCEPT ![x].entry[o].state = st]
    BY DEF SetEntry
  <2>2. clearOp' = [clearOp EXCEPT ![x] = [@ EXCEPT !.entry = f]]
    BY <2>1
  <2> HIDE DEF f
  <2>3. [clearOp[x] EXCEPT !.entry = f] = r
    BY <1>1 DEF ClearOp
  <2> QED BY <2>2, <2>3
<1> HIDE DEF e
<1>4. /\ f \in [Origins -> Entry] /\ f[o] = e
      /\ \A p \in Origins \ {o} : f[p] = clearOp[x].entry[p]
  BY <1>1, <1>2
<1> HIDE DEF f
<1>5. r \in ClearOp /\ r.gen = clearOp[x].gen /\ r.entry = f
  BY <1>1, <1>4 DEF ClearOp
<1> HIDE DEF r
<1>6. /\ clearOp' \in [DurableClears -> ClearOp] /\ clearOp'[x] = r
      /\ \A y \in DurableClears \ {x} : clearOp'[y] = clearOp[y]
  BY <1>1, <1>3, <1>5
<1> QED BY <1>2, <1>4, <1>5, <1>6

\* What closing an entry leaves true, when it is not the owner of a tombstone.
LEMMA SetEntryFrame ==
  ASSUME IInv, NEW x \in DurableClears, NEW o \in Origins,
         NEW st \in {"committed", "conflict"}, SetEntry(x, o, st),
         clearOp[x].entry[o].state = "pending", meta[o].clearing # x,
         UNCHANGED <<meta, file, proj, latest, generation, captureVars, epochs,
                     faults>>,
         job' \in JobType
  PROVE  /\ TypeOK' /\ BeginOK' /\ TokenOK' /\ ItemsOK' /\ EpochBound'
         /\ DisjointOwners' /\ OwnersActive' /\ LatestOK' /\ EpochFence'
         /\ TombstoneOwned' /\ ProjectionBacked'
<1>1. TypeOK'
  BY SetEntryOK DEF IInv, TypeOK, JobType, captureVars
<1>2. /\ BeginOK' /\ TokenOK' /\ ItemsOK' /\ LatestOK' /\ EpochFence'
      /\ ProjectionBacked'
  BY DEF IInv, BeginOK, TokenOK, ItemsOK, LatestOK, EpochFence, ProjectionBacked,
     captureVars
<1>3. TypeOK
  BY DEF IInv
<1>4. EpochBound'
  BY <1>3, SetEntryOK DEF IInv, EpochBound
<1>5. DisjointOwners' /\ OwnersActive'
  BY <1>3, SetEntryOK DEF IInv, DisjointOwners, OwnersActive
<1>6. TombstoneOwned'
  BY <1>3, SetEntryOK DEF IInv, TombstoneOwned, Active
<1> QED BY <1>1, <1>2, <1>4, <1>5, <1>6

LEMMA ConflictOriginInv ==
  ASSUME IInv, NEW o \in Origins, ConflictOrigin(o)
  PROVE  IInv'
<1> DEFINE x == job.clear
<1>1. /\ x \in DurableClears /\ clearOp[x].entry[o].state = "pending"
      /\ Conflicts(o, x) /\ SetEntry(x, o, "conflict") /\ job' = Idle
      /\ UNCHANGED <<meta, file, proj, latest, generation, captureVars, epochs,
                     faults>>
  BY DEF ConflictOrigin, Visits, PendingOf, IInv, JobOK
<1> HIDE DEF x
<1>2. meta[o].clearing # x
  BY <1>1, ConstantTypes DEF IInv, TombstoneOwned, Conflicts
<1>3. job' \in JobType /\ JobOK'
  BY <1>1, IdleTypes DEF JobOK, Idle
<1>4. CommittedIsCleared'
  <2>1. \A y \in DurableClears, p \in Origins :
          clearOp'[y].entry[p].state = "committed" =>
            clearOp[y].entry[p].state = "committed"
    BY <1>1, SetEntryOK DEF IInv
  <2>2. \A y \in DurableClears, p \in Origins :
          clearOp'[y].entry[p].after = clearOp[y].entry[p].after
    BY <1>1, SetEntryOK DEF IInv
  <2> QED BY <1>1, <2>1, <2>2 DEF IInv, CommittedIsCleared, captureVars
<1> QED BY <1>1, <1>2, <1>3, <1>4, SetEntryFrame DEF IInv

LEMMA RecordOriginInv ==
  ASSUME IInv, RecordOrigin
  PROVE  IInv'
<1> DEFINE x == job.clear
           o == job.origin
<1>1. /\ x \in DurableClears /\ o \in Origins
      /\ clearOp[x].entry[o].state = "pending" /\ meta[o].clearing = NoClear
      /\ meta[o].epoch = clearOp[x].entry[o].after
      /\ SetEntry(x, o, "committed") /\ job' \in {Idle, Loop(x)}
      /\ UNCHANGED <<meta, file, proj, latest, generation, captureVars, epochs,
                     faults>>
  BY DEF RecordOrigin, IInv, JobOK
<1> HIDE DEF x, o
<1>2. meta[o].clearing # x
  BY <1>1, ConstantTypes
<1>3. job' \in JobType
  BY <1>1, IdleTypes, ConstantTypes DEF Loop, JobType, ClearIds
<1>4. JobOK'
  BY <1>1 DEF JobOK, Idle, Loop
<1>5. CommittedIsCleared'
  <2> SUFFICES ASSUME NEW y \in DurableClears, NEW p \in Origins,
                      clearOp'[y].entry[p].state = "committed"
               PROVE  /\ \/ meta[p].epoch = 0
                         \/ meta[p].epoch >= clearOp[y].entry[p].after
                      /\ \A i \in file[p] :
                           token[i.by].epoch >= clearOp[y].entry[p].after
    BY <1>1, SetEntryOK DEF IInv, CommittedIsCleared, captureVars
  <2>1. CASE y = x /\ p = o
    <3>1. \A i \in file[o] : token[i.by].epoch = meta[o].epoch
      BY <1>1 DEF IInv, EpochFence
    <3>2. meta[o].epoch \in Nat
      BY <1>1, StateTypes DEF IInv
    <3> QED BY <1>1, <2>1, <3>1, <3>2
  <2>2. CASE ~(y = x /\ p = o)
    <3>1. clearOp[y].entry[p].state = "committed"
      BY <1>1, <2>2, SetEntryOK DEF IInv
    <3> QED BY <3>1 DEF IInv, CommittedIsCleared
  <2> QED BY <2>1, <2>2
<1> QED BY <1>1, <1>2, <1>3, <1>4, <1>5, SetEntryFrame DEF IInv

LEMMA FinalizeClearInv ==
  ASSUME IInv, NEW x \in DurableClears, NEW gen \in 1 .. generation,
         FinalizeClear(x, gen)
  PROVE  IInv'
<1>1. /\ job = Idle /\ clearOp' = [clearOp EXCEPT ![x] = NoOp]
      /\ \A o \in Origins : clearOp[x].entry[o].state # "pending"
      /\ UNCHANGED <<meta, file, proj, latest, generation, job, captureVars,
                     epochs, faults>>
  BY DEF FinalizeClear, PendingOf
<1>2. NoOp \in ClearOp /\ \A o \in Origins : NoOp.entry[o] = NoEntry
  BY DEF NoOp, NoEntry, ClearOp, Entry
<1>3. /\ clearOp' \in [DurableClears -> ClearOp] /\ clearOp'[x] = NoOp
      /\ \A y \in DurableClears \ {x} : clearOp'[y] = clearOp[y]
  BY <1>1, <1>2 DEF IInv, TypeOK
<1>4. TypeOK'
  BY <1>1, <1>3 DEF IInv, TypeOK, captureVars
<1>5. /\ BeginOK' /\ TokenOK' /\ ItemsOK' /\ LatestOK' /\ EpochFence' /\ JobOK'
      /\ ProjectionBacked'
  BY <1>1 DEF IInv, BeginOK, TokenOK, ItemsOK, LatestOK, EpochFence, JobOK, Idle,
     ProjectionBacked, captureVars
<1>6. EpochBound' /\ DisjointOwners' /\ OwnersActive' /\ CommittedIsCleared'
  <2>1. \A o \in Origins : NoOp.entry[o].state = "none" /\ NoOp.entry[o].after = 0
    BY <1>2 DEF NoEntry
  <2>2. \A y \in DurableClears, o \in Origins :
          \/ clearOp'[y].entry[o].state = "none" /\ clearOp'[y].entry[o].after = 0
          \/ clearOp'[y] = clearOp[y]
    BY <1>3, <2>1
  <2>3. EpochBound'
    BY <1>1, <2>2, StateTypes DEF IInv, EpochBound
  <2>4. DisjointOwners' /\ OwnersActive' /\ CommittedIsCleared'
    BY <1>1, <2>2 DEF IInv, DisjointOwners, OwnersActive, CommittedIsCleared,
       captureVars
  <2> QED BY <2>3, <2>4
<1>7. TombstoneOwned'
  BY <1>1, <1>3 DEF IInv, TombstoneOwned, Active
<1> QED BY <1>4, <1>5, <1>6, <1>7 DEF IInv

LEMMA PrepareClearInv ==
  ASSUME IInv, NEW x \in DurableClears, NEW origins \in SUBSET Origins,
         NEW epoch \in [Origins -> Epochs \cup {0}],
         PrepareClear(x, origins, epoch)
  PROVE  IInv'
<1> DEFINE entry == [o \in Origins |->
                       IF o \in origins
                       THEN [before |-> epoch[o], after |-> epochs[o] + 1,
                             state |-> "pending"]
                       ELSE NoEntry]
           op == [gen |-> generation + 1, entry |-> entry]
<1>1. /\ ~Active(x)
      /\ \A y \in ActiveClears : Owns(y) \cap origins = {}
      /\ \A o \in origins : meta[o].epoch = epoch[o]
      /\ generation' = generation + 1
      /\ clearOp' = [clearOp EXCEPT ![x] = op]
      /\ epochs' = [o \in Origins |->
                      IF o \in origins THEN epochs[o] + 1 ELSE epochs[o]]
      /\ job' = Loop(x) /\ asked' = NoClear
      /\ UNCHANGED <<meta, file, proj, latest, begin, lease, token, issued, landed,
                     faults>>
  BY DEF PrepareClear
<1>2. /\ \A o \in Origins : epochs[o] \in Nat /\ epoch[o] \in Nat
      /\ generation \in Nat
  BY StateTypes DEF IInv, TypeOK, Epochs
<1>3. /\ epochs' \in [Origins -> Nat]
      /\ \A o \in Origins : epochs[o] <= epochs'[o]
      /\ \A o \in origins : epochs'[o] = epochs[o] + 1
  BY <1>1, <1>2
<1>4. entry \in [Origins -> Entry]
  BY <1>2 DEF Entry, NoEntry
<1>5. \A o \in Origins :
        \/ o \notin origins /\ entry[o] = NoEntry
        \/ /\ o \in origins /\ entry[o].state = "pending"
           /\ entry[o].before = meta[o].epoch /\ entry[o].after = epochs'[o]
           /\ entry[o].before < entry[o].after
  <2>1. \A o \in Origins : meta[o].epoch <= epochs[o] /\ meta[o].epoch \in Nat
    BY StateTypes DEF IInv, EpochBound
  <2> QED BY <1>1, <1>2, <1>3, <2>1
<1> HIDE DEF entry
<1>6. op \in ClearOp /\ op.entry = entry /\ op.gen > 0
  BY <1>2, <1>4 DEF ClearOp
<1> HIDE DEF op
<1>7. /\ clearOp' \in [DurableClears -> ClearOp] /\ clearOp'[x] = op
      /\ \A y \in DurableClears \ {x} : clearOp'[y] = clearOp[y]
  BY <1>1, <1>6 DEF IInv, TypeOK
<1>8. NoEntry.state = "none" /\ NoEntry.after = 0
  BY DEF NoEntry
<1>9. TypeOK'
  <2>1. job' \in JobType
    BY <1>1, ConstantTypes DEF Loop, JobType, ClearIds
  <2> QED BY <1>1, <1>2, <1>3, <1>7, <2>1 DEF IInv, TypeOK, JobType
<1>10. TokenOK'
  <2> SUFFICES ASSUME NEW d \in 1 .. issued
               PROVE  /\ token[d].origin \in Origins
                      /\ token[d].epoch \in 1 .. epochs'[token[d].origin]
    BY <1>1 DEF IInv, TokenOK
  <2>1. /\ token[d].origin \in Origins
        /\ token[d].epoch \in 1 .. epochs[token[d].origin]
    BY DEF IInv, TokenOK
  <2> QED BY <1>2, <1>3, <2>1
<1>11. BeginOK' /\ ItemsOK' /\ LatestOK' /\ EpochFence' /\ ProjectionBacked'
  BY <1>1 DEF IInv, BeginOK, ItemsOK, LatestOK, EpochFence, ProjectionBacked
<1>12. JobOK'
  BY <1>1 DEF JobOK, Loop
<1>13. EpochBound'
  <2> SUFFICES ASSUME NEW o \in Origins
               PROVE  /\ meta[o].epoch <= epochs'[o]
                      /\ \A y \in DurableClears :
                           /\ clearOp'[y].entry[o].after <= epochs'[o]
                           /\ clearOp'[y].entry[o].state = "pending" =>
                                clearOp'[y].entry[o].before
                                  < clearOp'[y].entry[o].after
    BY <1>1 DEF EpochBound
  <2>1. /\ epochs[o] \in Nat /\ epochs'[o] \in Nat /\ meta[o].epoch \in Nat
        /\ epochs[o] <= epochs'[o]
        /\ \A y \in DurableClears : clearOp[y].entry[o].after \in Nat
    BY <1>3, StateTypes DEF IInv
  <2>2. /\ entry[o].after <= epochs'[o]
        /\ entry[o].state = "pending" => entry[o].before < entry[o].after
    BY <1>5, <1>8, <2>1
  <2> QED BY <1>6, <1>7, <2>1, <2>2 DEF IInv, EpochBound
<1>14. \A o \in Origins : clearOp[x].entry[o].state = "none"
  BY <1>1, StateTypes DEF IInv, OwnersActive, Active
<1>15. DisjointOwners'
  <2>1. \A y \in DurableClears, o \in origins : clearOp[y].entry[o].state = "none"
    BY <1>1 DEF ActiveClears, Active, Owns, IInv, OwnersActive
  <2>2. \A o \in Origins : clearOp'[x].entry[o].state # "none" => o \in origins
    BY <1>5, <1>6, <1>7, <1>8
  <2> QED BY <1>7, <2>1, <2>2 DEF IInv, DisjointOwners
<1>16. OwnersActive'
  BY <1>6, <1>7 DEF IInv, OwnersActive
<1>17. TombstoneOwned'
  BY <1>1, <1>7 DEF IInv, TombstoneOwned, Active
<1>18. CommittedIsCleared'
  <2>1. \A o \in Origins : clearOp'[x].entry[o].state # "committed"
    BY <1>5, <1>6, <1>7, <1>8
  <2> QED BY <1>1, <1>7, <2>1 DEF IInv, CommittedIsCleared
<1> QED BY <1>9, <1>10, <1>11, <1>12, <1>13, <1>15, <1>16, <1>17, <1>18 DEF IInv

-----------------------------------------------------------------------------
\* The invariant holds initially, is kept by every step, and gives safety.

LEMMA InitInv == Init => IInv
<1> SUFFICES ASSUME Init PROVE IInv
  OBVIOUS
<1>1. /\ NoMeta \in Meta /\ NoMeta.epoch = 0 /\ NoMeta.clearing = NoClear
      /\ Len(NoMeta.receipts) <= ReceiptWindow
  BY EmptySeq, ConstantsOK DEF NoMeta, Meta
<1>2. /\ NoOp \in ClearOp
      /\ \A o \in Origins : NoOp.entry[o].state = "none" /\ NoOp.entry[o].after = 0
  BY DEF NoOp, NoEntry, ClearOp, Entry
<1>3. NoToken \in Token
  BY DEF NoToken, Token
<1>4. TypeOK
  <2>1. job \in JobType /\ begin \in BeginType
    BY IdleTypes DEF Init
  <2>2. issued \in 0 .. MaxCaptures
    BY ConstantTypes DEF Init
  <2>3. /\ meta \in [Origins -> Meta]
        /\ \A o \in Origins : Len(meta[o].receipts) <= ReceiptWindow
    BY <1>1 DEF Init
  <2> QED BY <1>2, <1>3, <2>1, <2>2, <2>3 DEF Init, TypeOK, JobType, BeginType
<1>5. BeginOK /\ TokenOK /\ ItemsOK /\ JobOK /\ LatestOK /\ EpochFence
      /\ ProjectionBacked
  BY DEF Init, BeginOK, TokenOK, ItemsOK, JobOK, Idle, LatestOK, EpochFence,
     ProjectionBacked
<1>6. EpochBound /\ DisjointOwners /\ OwnersActive /\ TombstoneOwned
      /\ CommittedIsCleared
  BY <1>1, <1>2, ConstantTypes DEF Init, EpochBound, DisjointOwners, OwnersActive,
     TombstoneOwned, CommittedIsCleared
<1> QED BY <1>4, <1>5, <1>6 DEF IInv

\* A step that changes nothing keeps it.
LEMMA StutterInv == IInv /\ UNCHANGED vars => IInv'
<1> SUFFICES ASSUME IInv, UNCHANGED vars PROVE IInv'
  OBVIOUS
<1>1. TypeOK' /\ BeginOK' /\ TokenOK' /\ JobOK'
  BY DEF IInv, TypeOK, BeginOK, TokenOK, JobOK, vars
<1> QED BY <1>1, DurableFrame DEF IInv, vars, authority

LEMMA StepInv == IInv /\ [Next]_vars => IInv'
<1> SUFFICES ASSUME IInv, [Next]_vars PROVE IInv'
  OBVIOUS
<1>1. CASE CaptureNext
  BY <1>1, BeginCaptureInv, IssueTokenInv, RefuseTokenInv, InvalidateLeasesInv,
     CommitNewInv, CommitReplacementInv, ReplayCommitInv DEF CaptureNext
<1>2. CASE RemoveNext
  BY <1>2, RemoveItemInv, RemoveWriteInv DEF RemoveNext
<1>3. CASE ClearNext
  BY <1>3, RequestClearInv, DropRequestInv, SavedClearInv, PurgeInv, CompleteInv,
     PrepareClearInv, ResumeClearInv, FinalizeClearInv, AlreadyClearedInv,
     ResumeOriginInv, StartOriginInv, ConflictOriginInv, RecordOriginInv,
     ClearAllInv DEF ClearNext
<1>4. CASE StorageError
  BY <1>4, StorageErrorInv
<1>5. CASE WorkerDeath
  BY <1>5, WorkerDeathInv
<1>6. CASE UNCHANGED vars
  BY <1>6, StutterInv
<1> QED BY <1>1, <1>2, <1>3, <1>4, <1>5, <1>6 DEF Next

\* The inductive invariant holds in every reachable state.
THEOREM InvariantHolds == Spec => []IInv
BY InitInv, StepInv, PTL DEF Spec

\* The stored records, the lock holder's program counter and the volatile leases
\* keep their types, receipt lists stay within ReceiptWindow.
THEOREM TypeCorrect == Spec => []TypeOK
<1>1. IInv => TypeOK
  BY DEF IInv
<1> QED BY <1>1, InvariantHolds, PTL

\* Every stored item was captured in its origin's current epoch, or, while a
\* clear is in progress, in an earlier one: a clear never deletes what was
\* captured after it began, and no token from before it stores anything.
THEOREM EpochsFence == Spec => []EpochFence
<1>1. IInv => EpochFence
  BY DEF IInv
<1> QED BY <1>1, InvariantHolds, PTL

\* The tombstone of a durable clear is always owned by a recorded operation that
\* still has the origin pending, so it can be finished after any interruption.
THEOREM TombstonesOwned == Spec => []TombstoneOwned
<1>1. IInv => TombstoneOwned
  BY DEF IInv
<1> QED BY <1>1, InvariantHolds, PTL

\* An origin the authority calls committed holds nothing older than the clear.
THEOREM CommittedCleared == Spec => []CommittedIsCleared
<1>1. IInv => CommittedIsCleared
  BY DEF IInv
<1> QED BY <1>1, InvariantHolds, PTL

\* No compatibility projection shows an item that is no longer stored.
THEOREM ProjectionsBacked == Spec => []ProjectionBacked
<1>1. IInv => ProjectionBacked
  BY DEF IInv
<1> QED BY <1>1, InvariantHolds, PTL

\* No origin is ever owned by two recorded operations: the state in which the
\* authority's parser would reject every clear is unreachable.
THEOREM OwnersDisjoint == Spec => []DisjointOwners
<1>1. IInv => DisjointOwners
  BY DEF IInv
<1> QED BY <1>1, InvariantHolds, PTL

-----------------------------------------------------------------------------
(* The store implements CaptureLog, unless "clear all" overlaps a durable  *)
(* clear (run session_retry shows what it then does).                      *)

\* What was stored stays answered by its receipt, or its epoch is over: the
\* origin has a later one, or, after "clear all", none, and the next one is later.
Fenced(c) ==
  LET o == token[c].origin
      e == token[c].epoch
  IN \/ meta[o].clearing = NoClear /\ meta[o].epoch = e /\ HasReceipt(o, c)
     \/ meta[o].epoch > e
     \/ /\ meta[o].epoch = 0
        /\ \A x \in DurableClears :
             clearOp[x].entry[o].state = "pending" => clearOp[x].entry[o].after > e

\* Only the newest token has a lease, and none has while another is asked for.
LeaseOK ==
  /\ lease \in {0, issued}
  /\ begin.current => lease = 0
  /\ landed \subseteq 1 .. issued
  /\ \A o \in Origins : \A i \in file[o] : i.by \in landed
  /\ lease \in landed => Fenced(lease)

\* The receipt that is appended is the last one, and stays.
LEMMA AppendedReceipt ==
  ASSUME NEW s \in Seq(Receipt), NEW r \in Receipt
  PROVE  \E k \in DOMAIN AppendReceipt(s, r) : AppendReceipt(s, r)[k] = r
<1> DEFINE t == Append(s, r)
           n == Len(t)
<1>1. /\ t \in Seq(Receipt) /\ n = Len(s) + 1 /\ t[n] = r
      /\ Len(s) \in Nat /\ n \in 1 .. n /\ DOMAIN t = 1 .. n
  BY AppendProperties, LenProperties
<1>2. ReceiptWindow \in Nat \ {0}
  BY ConstantsOK
<1> HIDE DEF t
<1>3. CASE n <= ReceiptWindow
  BY <1>1, <1>3 DEF AppendReceipt, Trim, t
<1>4. CASE n > ReceiptWindow
  <2> DEFINE m == n - ReceiptWindow + 1
             u == SubSeq(t, m, n)
  <2>1. m \in 1 .. n + 1 /\ n \in m - 1 .. n /\ n - m + 1 = ReceiptWindow
    BY <1>1, <1>2, <1>4
  <2>2. Len(u) = ReceiptWindow /\ DOMAIN u = 1 .. Len(u)
        /\ \A k \in 1 .. ReceiptWindow : u[k] = t[m + k - 1]
    BY <1>1, <1>2, <2>1, SubSeqProperties
  <2>3. u[ReceiptWindow] = t[n]
    BY <1>1, <1>2, <1>4, <2>2
  <2>4. AppendReceipt(s, r) = u
    BY <1>1, <1>2, <1>4 DEF AppendReceipt, Trim, t
  <2>5. ReceiptWindow \in DOMAIN u
    BY <1>2, <2>2
  <2> QED  BY <1>1, <2>3, <2>4, <2>5
<1> QED  BY <1>1, <1>2, <1>3, <1>4

\* A capture that was given a token.
LEMMA TokenTypes ==
  ASSUME IInv, NEW c \in 1 .. issued
  PROVE  /\ c \in Captures /\ c # 0
         /\ token[c].origin \in Origins
         /\ token[c].epoch \in Nat \ {0}
         /\ token[c].epoch <= epochs[token[c].origin]
         /\ epochs[token[c].origin] \in Nat
         /\ meta[token[c].origin].epoch \in Nat
         /\ meta[token[c].origin].clearing \in ClearIds \cup {NoClear}
<1>1. token[c].origin \in Origins /\ token[c].epoch \in 1 .. epochs[token[c].origin]
  BY DEF IInv, TokenOK
<1>2. c \in Captures /\ c # 0
  BY ConstantTypes DEF IInv, TypeOK, Captures
<1> QED  BY <1>1, <1>2, StateTypes DEF IInv

\* How a fence survives a change of the origin's meta or of a clear's entry.
LEMMA FencedStays ==
  ASSUME IInv, NEW c \in 1 .. issued, Fenced(c), token' = token,
         LET o == token[c].origin
             e == token[c].epoch
         IN /\ \/ /\ meta'[o].epoch = meta[o].epoch
                  /\ meta[o].clearing = NoClear =>
                       /\ meta'[o].clearing = NoClear
                       /\ meta'[o].receipts = meta[o].receipts
               \/ meta'[o].epoch > e
               \/ meta'[o].epoch = 0 /\ \A x \in DurableClears :
                                          clearOp'[x].entry[o].state # "pending"
            /\ \A x \in DurableClears :
                 clearOp'[x].entry[o].state = "pending" =>
                   \/ clearOp'[x].entry[o].after > e
                   \/ /\ clearOp[x].entry[o].state = "pending"
                      /\ clearOp'[x].entry[o].after = clearOp[x].entry[o].after
  PROVE  Fenced(c)'
BY TokenTypes DEF Fenced, HasReceipt

\* A step that gives no lease and stores nothing.
LEMMA LeaseFrame ==
  ASSUME IInv, LeaseOK, UNCHANGED <<issued, landed, token>>,
         lease' \in {0, lease}, begin'.current => begin.current \/ lease' = 0,
         \A o \in Origins : file'[o] \subseteq file[o],
         \A c \in landed \cap {lease} : Fenced(c) => Fenced(c)'
  PROVE  LeaseOK'
<1>1. 0 \notin landed
  BY DEF LeaseOK
<1>2. ASSUME lease' \in landed' PROVE Fenced(lease)'
  <2>1. lease' = lease /\ lease \in landed /\ Fenced(lease)
    BY <1>1, <1>2 DEF LeaseOK
  <2>2. ASSUME NEW c, c = lease PROVE Fenced(c)'
    BY <2>1, <2>2
  <2> QED  BY <2>1, <2>2 DEF Fenced, HasReceipt
<1> QED  BY <1>2 DEF LeaseOK

\* Steps that change neither the meta of an origin nor a clear's entry.
LEMMA FencedRests ==
  ASSUME UNCHANGED <<meta, clearOp, token>>
  PROVE  \A c \in landed \cap {lease} : Fenced(c) => Fenced(c)'
BY DEF Fenced, HasReceipt

\* Lock steps and requests that write no meta and no entry.
LEMMA VolatileLease ==
  ASSUME IInv, LeaseOK,
         \/ \E o \in Origins :
              \/ \E replace \in {{}} \cup {{i} : i \in file[o]} : BeginCapture(o, replace)
              \/ AlreadyCleared(o) \/ ResumeOrigin(o)
              \/ \E epoch \in Epochs, n \in 1 .. MaxItems : RemoveItem(o, epoch, n)
         \/ \E x \in ClearIds \cup {AllStored} : RequestClear(x)
         \/ \E x \in DurableClears : ResumeClear(x)
         \/ InvalidateLeases \/ DropRequest \/ Purge \/ RemoveWrite
         \/ StorageError \/ WorkerDeath
         \/ UNCHANGED vars
  PROVE  /\ LeaseOK'
         /\ UNCHANGED <<issued, landed, token>> /\ lease' \in {0, lease}
         /\ \A o \in Origins : file'[o] \subseteq file[o]
<1>1. UNCHANGED <<meta, clearOp, issued, landed, token>> /\ lease' \in {0, lease}
  BY DEF BeginCapture, AlreadyCleared, ResumeOrigin, RemoveItem, RequestClear, ResumeClear,
         InvalidateLeases, DropRequest, Purge, RemoveWrite, StorageError, WorkerDeath, vars,
         captureVars, authority
<1>2. begin'.current => begin.current \/ lease' = 0
  BY DEF BeginCapture, AlreadyCleared, ResumeOrigin, RemoveItem, RequestClear, ResumeClear,
         InvalidateLeases, DropRequest, Purge, RemoveWrite, StorageError, WorkerDeath, vars,
         captureVars, Revoked, NoBegin
<1>3. \A o \in Origins : file'[o] \subseteq file[o]
  <2>1. \/ file' = file
        \/ file' = [file EXCEPT ![job.origin] = {}]
        \/ file' = [file EXCEPT ![job.origin] = {i \in @ : i.id # job.item}]
    BY DEF BeginCapture, AlreadyCleared, ResumeOrigin, RemoveItem, RequestClear, ResumeClear,
           InvalidateLeases, DropRequest, Purge, RemoveWrite, StorageError, WorkerDeath, vars
  <2> QED  BY <2>1 DEF IInv, TypeOK
<1> QED  BY <1>1, <1>2, <1>3, FencedRests, LeaseFrame

\* A fresh epoch is later than that of every token the origin gave.
LEMMA EnsureFences ==
  ASSUME IInv, NEW o \in Origins, meta[o].clearing = NoClear, EnsureEpoch(o),
         UNCHANGED <<clearOp, token>>
  PROVE  \A c \in 1 .. issued : Fenced(c) => Fenced(c)'
<1> SUFFICES ASSUME NEW c \in 1 .. issued, Fenced(c) PROVE Fenced(c)'
  OBVIOUS
<1>1. CASE token[c].origin # o \/ meta' = meta
  <2>1. meta'[token[c].origin] = meta[token[c].origin]
    BY <1>1, TokenTypes DEF EnsureEpoch, IInv, TypeOK
  <2> QED  BY <2>1, FencedStays
<1>2. CASE token[c].origin = o /\ meta' # meta
  <2>1. meta'[o].epoch = epochs[o] + 1
    BY <1>2 DEF EnsureEpoch, NoMeta, IInv, TypeOK
  <2>2. meta'[o].epoch > token[c].epoch
    BY <1>2, <2>1, TokenTypes
  <2> QED  BY <1>2, <2>2, FencedStays
<1> QED  BY <1>1, <1>2

LEMMA RefuseTokenLease ==
  ASSUME IInv, LeaseOK, RefuseToken
  PROVE  LeaseOK' /\ UNCHANGED <<file, issued, landed, lease>>
<1>1. UNCHANGED <<file, issued, landed, token, lease, clearOp>> /\ begin' = NoBegin
      /\ begin # NoBegin
  BY DEF RefuseToken, authority
<1>2. ~begin'.current
  BY <1>1 DEF NoBegin
<1>3. \A c \in landed \cap {lease} : Fenced(c) => Fenced(c)'
  <2>1. landed \cap {lease} \subseteq 1 .. issued
    BY DEF LeaseOK
  <2>2. CASE UNCHANGED meta
    BY <1>1, <2>2, FencedRests
  <2>3. CASE meta[begin.origin].clearing = NoClear /\ EnsureEpoch(begin.origin)
    BY <1>1, <2>1, <2>3, EnsureFences DEF IInv, BeginOK
  <2> QED  BY <2>2, <2>3 DEF RefuseToken
<1> QED  BY <1>1, <1>2, <1>3, LeaseFrame

\* The new token has been stored by nobody.
LEMMA IssueTokenLease ==
  ASSUME IInv, LeaseOK, IssueToken
  PROVE  /\ LeaseOK'
         /\ UNCHANGED <<file, landed>> /\ issued' = issued + 1 /\ lease' = issued + 1
         /\ lease = 0 /\ issued' \in Captures
<1>1. /\ UNCHANGED <<file, landed>> /\ issued' = issued + 1 /\ lease' = issued + 1
      /\ begin' = NoBegin /\ begin.current
  BY DEF IssueToken
<1>2. issued \in Nat /\ issued < MaxCaptures
  BY <1>1 DEF IInv, TypeOK, BeginOK, NoBegin
<1>3. issued + 1 \notin landed /\ ~begin'.current /\ landed \subseteq 1 .. issued + 1
  BY <1>1, <1>2 DEF LeaseOK, NoBegin
<1>4. lease = 0 /\ issued' \in Captures
  BY <1>1, <1>2, ConstantTypes DEF LeaseOK, Captures
<1> QED  BY <1>1, <1>3, <1>4 DEF LeaseOK

\* A tombstone carries an epoch beyond the one before it.
LEMMA TombstoneFences ==
  ASSUME IInv, NEW o \in Origins, NEW x, NEW after \in Nat,
         meta[o].epoch < after, StartClear(o, x, after),
         meta[o].epoch = 0 => \A c \in 1 .. issued :
           token[c].origin = o /\ Fenced(c) => token[c].epoch < after,
         UNCHANGED <<clearOp, token>>
  PROVE  \A c \in 1 .. issued : Fenced(c) => Fenced(c)'
<1> SUFFICES ASSUME NEW c \in 1 .. issued, Fenced(c) PROVE Fenced(c)'
  OBVIOUS
<1>1. CASE token[c].origin # o
  <2>1. meta'[token[c].origin] = meta[token[c].origin]
    BY <1>1, TokenTypes DEF StartClear, IInv, TypeOK
  <2> QED  BY <2>1, FencedStays
<1>2. CASE token[c].origin = o
  <2>1. meta'[o].epoch = after
    BY DEF StartClear, IInv, TypeOK
  <2>2. after > token[c].epoch
    BY <1>2, TokenTypes DEF Fenced
  <2> QED  BY <1>2, <2>1, <2>2, FencedStays
<1> QED  BY <1>1, <1>2

LEMMA SavedClearLease ==
  ASSUME IInv, LeaseOK, NEW o \in Origins, NEW epoch \in Epochs \cup {0},
         NEW x \in SavedClears, SavedClear(o, epoch, x)
  PROVE  LeaseOK' /\ UNCHANGED <<file, issued, landed, lease>>
<1>1. UNCHANGED <<file, issued, landed, token, lease, clearOp, begin>>
  BY DEF SavedClear, authority
<1>2. \A c \in landed \cap {lease} : Fenced(c) => Fenced(c)'
  <2>1. landed \cap {lease} \subseteq 1 .. issued
    BY DEF LeaseOK
  <2>2. CASE UNCHANGED meta
    BY <1>1, <2>2, FencedRests
  <2>3. CASE StartClear(o, x, epochs[o] + 1)
    <3>1. meta[o].epoch < epochs[o] + 1 /\ epochs[o] + 1 \in Nat
      BY StateTypes DEF IInv, EpochBound
    <3>2. \A c \in 1 .. issued : token[c].origin = o => token[c].epoch < epochs[o] + 1
      BY TokenTypes
    <3> QED  BY <1>1, <2>1, <2>3, <3>1, <3>2, TombstoneFences
  <2> QED  BY <2>2, <2>3 DEF SavedClear
<1> QED  BY <1>1, <1>2, LeaseFrame

LEMMA StartOriginLease ==
  ASSUME IInv, LeaseOK, NEW o \in Origins, StartOrigin(o)
  PROVE  LeaseOK' /\ UNCHANGED <<file, issued, landed, lease>>
<1> DEFINE entry == clearOp[job.clear].entry[o]
<1>1. UNCHANGED <<file, issued, landed, token, lease, clearOp, begin>>
  BY DEF StartOrigin, authority, captureVars
<1>2. /\ job.clear \in DurableClears /\ entry.state = "pending"
      /\ meta[o].epoch = entry.before /\ StartClear(o, job.clear, entry.after)
  BY DEF StartOrigin, Visits, PendingOf, IInv, JobOK
<1>3. meta[o].epoch < entry.after /\ entry.after \in Nat
  BY <1>2, StateTypes DEF IInv, EpochBound
<1>4. meta[o].epoch = 0 => \A c \in 1 .. issued :
        token[c].origin = o /\ Fenced(c) => token[c].epoch < entry.after
  <2> SUFFICES ASSUME meta[o].epoch = 0, NEW c \in 1 .. issued, token[c].origin = o,
                      Fenced(c)
               PROVE  token[c].epoch < entry.after
    OBVIOUS
  <2>1. token[c].epoch \in Nat \ {0}
    BY TokenTypes
  <2> QED  BY <1>2, <1>3, <2>1 DEF Fenced
<1>5. \A c \in landed \cap {lease} : Fenced(c) => Fenced(c)'
  <2>1. landed \cap {lease} \subseteq 1 .. issued
    BY DEF LeaseOK
  <2> HIDE DEF entry
  <2>2. \A c \in 1 .. issued : Fenced(c) => Fenced(c)'
    <3>1. PICK x \in DurableClears, after \in Nat : x = job.clear /\ after = entry.after
      BY <1>2, <1>3
    <3>2. /\ meta[o].epoch < after /\ StartClear(o, x, after)
          /\ meta[o].epoch = 0 => \A c \in 1 .. issued :
               token[c].origin = o /\ Fenced(c) => token[c].epoch < after
      BY <1>2, <1>3, <1>4, <3>1 DEF StartClear, entry
    <3> QED  BY <1>1, <3>2, TombstoneFences
  <2> QED  BY <2>1, <2>2
<1> QED  BY <1>1, <1>5, LeaseFrame

\* The receipts a clear deletes at its end belong to an epoch that is over.
LEMMA CompleteLease ==
  ASSUME IInv, LeaseOK, Complete
  PROVE  LeaseOK' /\ UNCHANGED <<file, issued, landed, lease>>
<1>1. UNCHANGED <<file, issued, landed, token, lease, clearOp, begin>>
  BY DEF Complete, authority, captureVars
<1>2. /\ job.origin \in Origins /\ meta[job.origin].clearing # NoClear
      /\ meta' = [meta EXCEPT ![job.origin] =
                    [epoch |-> @.epoch, clearing |-> NoClear, done |-> job.clear,
                     receipts |-> <<>>]]
  BY ConstantTypes DEF Complete, IInv, JobOK, ClearIds
<1>3. ASSUME NEW c \in 1 .. issued, Fenced(c) PROVE Fenced(c)'
  <2>1. token[c].origin \in Origins
    BY TokenTypes
  <2>2. /\ meta'[token[c].origin].epoch = meta[token[c].origin].epoch
        /\ meta[token[c].origin].clearing = NoClear =>
             meta'[token[c].origin] = meta[token[c].origin]
    BY <1>2, <2>1 DEF IInv, TypeOK
  <2> QED  BY <1>1, <1>3, <2>2, FencedStays
<1>4. \A c \in landed \cap {lease} : Fenced(c) => Fenced(c)'
  BY <1>3 DEF LeaseOK
<1> QED  BY <1>1, <1>4, LeaseFrame

\* "Clear all" leaves no clear that would bring an earlier epoch back.
LEMMA ClearAllLease ==
  ASSUME IInv, LeaseOK, OverlapClearAll = FALSE, ClearAll
  PROVE  /\ LeaseOK' /\ UNCHANGED <<issued, landed, lease>>
         /\ \A o \in Origins : file'[o] \subseteq file[o]
<1>1. /\ UNCHANGED <<issued, landed, token, lease, clearOp, begin>>
      /\ \A o \in Origins : file'[o] \subseteq file[o] /\ meta'[o].epoch = 0
  BY DEF ClearAll, authority, NoMeta
<1>2. \A x \in DurableClears, o \in Origins : clearOp'[x].entry[o].state # "pending"
  BY <1>1 DEF ClearAll, PendingOf
<1>3. ASSUME NEW c \in 1 .. issued, Fenced(c) PROVE Fenced(c)'
  <2>1. token[c].origin \in Origins
    BY TokenTypes
  <2> QED  BY <1>1, <1>2, <1>3, <2>1, FencedStays
<1>4. \A c \in landed \cap {lease} : Fenced(c) => Fenced(c)'
  BY <1>3 DEF LeaseOK
<1> QED  BY <1>1, <1>4, LeaseFrame

LEMMA SetEntryLease ==
  ASSUME IInv, LeaseOK, RecordOrigin \/ \E o \in Origins : ConflictOrigin(o)
  PROVE  LeaseOK' /\ UNCHANGED <<file, issued, landed, lease>>
<1>1. UNCHANGED <<file, issued, landed, token, lease, begin, meta>>
  BY DEF RecordOrigin, ConflictOrigin, captureVars
<1>2. \A x \in DurableClears, o \in Origins :
        clearOp'[x].entry[o].state = "pending" =>
          /\ clearOp[x].entry[o].state = "pending"
          /\ clearOp'[x].entry[o].after = clearOp[x].entry[o].after
  <2>1. \E x \in DurableClears, o \in Origins, st \in {"committed", "conflict"} :
          SetEntry(x, o, st)
    BY DEF RecordOrigin, ConflictOrigin, Visits, IInv, JobOK
  <2> QED  BY <2>1, SetEntryOK DEF IInv
<1>3. ASSUME NEW c \in 1 .. issued, Fenced(c) PROVE Fenced(c)'
  <2>1. token[c].origin \in Origins
    BY TokenTypes
  <2> QED  BY <1>1, <1>2, <1>3, <2>1, FencedStays
<1>4. \A c \in landed \cap {lease} : Fenced(c) => Fenced(c)'
  BY <1>3 DEF LeaseOK
<1> QED  BY <1>1, <1>4, LeaseFrame

LEMMA FinalizeClearLease ==
  ASSUME IInv, LeaseOK, NEW x \in DurableClears, NEW gen \in Nat, FinalizeClear(x, gen)
  PROVE  LeaseOK' /\ UNCHANGED <<file, issued, landed, lease>>
<1>1. UNCHANGED <<file, issued, landed, token, lease, begin, meta>>
      /\ clearOp' = [clearOp EXCEPT ![x] = NoOp]
  BY DEF FinalizeClear, captureVars
<1>2. \A y \in DurableClears, o \in Origins :
        clearOp'[y].entry[o].state = "pending" => clearOp'[y] = clearOp[y]
  BY <1>1 DEF NoOp, NoEntry, IInv, TypeOK
<1>3. ASSUME NEW c \in 1 .. issued, Fenced(c) PROVE Fenced(c)'
  <2>1. token[c].origin \in Origins
    BY TokenTypes
  <2>2. \A y \in DurableClears :
          clearOp'[y].entry[token[c].origin].state = "pending" => clearOp'[y] = clearOp[y]
    BY <1>2, <2>1
  <2> QED  BY <1>1, <1>3, <2>2, FencedStays
<1>4. \A c \in landed \cap {lease} : Fenced(c) => Fenced(c)'
  BY <1>3 DEF LeaseOK
<1> QED  BY <1>1, <1>4, LeaseFrame

\* A clear is given epochs beyond those of all tokens.
LEMMA PrepareClearLease ==
  ASSUME IInv, LeaseOK, NEW x \in DurableClears, NEW origins \in SUBSET Origins,
         NEW epoch \in [Origins -> Epochs \cup {0}], PrepareClear(x, origins, epoch)
  PROVE  LeaseOK' /\ UNCHANGED <<file, issued, landed, lease>>
<1> DEFINE op == [gen   |-> generation + 1,
                  entry |-> [o \in Origins |->
                               IF o \in origins
                               THEN [before |-> epoch[o], after |-> epochs[o] + 1,
                                     state |-> "pending"]
                               ELSE NoEntry]]
<1>1. UNCHANGED <<file, issued, landed, token, lease, begin, meta>>
      /\ clearOp' = [clearOp EXCEPT ![x] = op]
  BY DEF PrepareClear
<1>2. \A o \in Origins : op.entry[o].state = "pending" => op.entry[o].after = epochs[o] + 1
  BY DEF NoEntry
<1> HIDE DEF op
<1>3. \A y \in DurableClears, o \in Origins :
        clearOp'[y].entry[o].state = "pending" =>
          clearOp'[y] = clearOp[y] \/ clearOp'[y].entry[o].after = epochs[o] + 1
  BY <1>1, <1>2 DEF IInv, TypeOK
<1>4. ASSUME NEW c \in 1 .. issued, Fenced(c) PROVE Fenced(c)'
  <2>1. token[c].origin \in Origins /\ token[c].epoch < epochs[token[c].origin] + 1
    BY TokenTypes
  <2>2. \A y \in DurableClears :
          clearOp'[y].entry[token[c].origin].state = "pending" =>
            \/ clearOp'[y] = clearOp[y]
            \/ clearOp'[y].entry[token[c].origin].after > token[c].epoch
    BY <1>3, <2>1
  <2> QED  BY <1>1, <1>4, <2>2, FencedStays
<1>5. \A c \in landed \cap {lease} : Fenced(c) => Fenced(c)'
  BY <1>4 DEF LeaseOK
<1> QED  BY <1>1, <1>5, LeaseFrame

\* What a commit adds and replaces; the capture had not been stored.
LEMMA CommitLease ==
  ASSUME IInv, LeaseOK, NEW c \in Captures, MayCommit(c), ~HasReceipt(token[c].origin, c),
         NEW item \in Item, item.by = c,
         NEW items \in SUBSET Item, item \in items,
         \A i \in items : i = item \/ i \in file[token[c].origin],
         WriteCapture(c, token[c].origin, item, items)
  PROVE  /\ LeaseOK'
         /\ lease = c /\ c = issued /\ c \notin landed
         /\ UNCHANGED <<issued, lease>> /\ landed' = landed \cup {c}
         /\ file' = [file EXCEPT ![token[c].origin] = items]
<1> DEFINE o == token[c].origin
           r == [op |-> c, item |-> item.id, ann |-> item.ann]
           receipts == AppendReceipt(meta[o].receipts, r)
<1>1. /\ lease = c /\ meta[o].clearing = NoClear /\ meta[o].epoch = token[c].epoch
  BY DEF MayCommit
<1>2. c # 0 /\ c = issued /\ c \in 1 .. issued
  BY <1>1 DEF LeaseOK, Captures, IInv, TypeOK
<1>3. c \notin landed
  <2> SUFFICES ASSUME c \in landed PROVE FALSE
    OBVIOUS
  <2>1. Fenced(c)
    BY <1>1 DEF LeaseOK
  <2>2. meta[token[c].origin].epoch \in Nat \ {0}
    BY <1>1, <1>2, TokenTypes
  <2> QED  BY <1>1, <2>1, <2>2 DEF Fenced
<1>4. /\ UNCHANGED <<issued, lease, token, clearOp, begin>> /\ landed' = landed \cup {c}
      /\ file' = [file EXCEPT ![o] = items]
      /\ meta' = [meta EXCEPT ![o].receipts = receipts]
  BY DEF WriteCapture, authority
<1>5. o \in Origins /\ meta[o] \in Meta /\ meta[o].receipts \in Seq(Receipt) /\ r \in Receipt
  BY <1>2, TokenTypes, StateTypes DEF Item, Receipt, IInv, Meta
<1>6. PICK k \in DOMAIN receipts : receipts[k] = r
  BY <1>5, AppendedReceipt
<1>7. r.op = c
  OBVIOUS
<1> HIDE DEF receipts, r
<1>8. /\ meta'[o].receipts = receipts /\ meta'[o].epoch = meta[o].epoch
      /\ meta'[o].clearing = NoClear
  BY <1>1, <1>4, <1>5 DEF IInv, TypeOK, Meta
<1>9. Fenced(c)'
  BY <1>1, <1>4, <1>6, <1>7, <1>8 DEF Fenced, HasReceipt
<1>10. Fenced(lease)'
  BY <1>1, <1>4, <1>9 DEF Fenced, HasReceipt
<1>11. \A p \in Origins : \A i \in file'[p] : i.by \in landed'
  BY <1>4, <1>5 DEF IInv, TypeOK, LeaseOK
<1>12. LeaseOK'
  BY <1>1, <1>2, <1>4, <1>10, <1>11 DEF LeaseOK
<1> QED  BY <1>1, <1>2, <1>3, <1>4, <1>12

\* A replay makes its receipt the newest.
LEMMA ReplayLease ==
  ASSUME IInv, LeaseOK, NEW c \in Captures, ReplayCommit(c)
  PROVE  LeaseOK' /\ UNCHANGED <<file, issued, landed, lease>>
<1> DEFINE o == token[c].origin
<1>1. /\ UNCHANGED <<file, issued, landed, token, lease, clearOp, begin>>
      /\ lease = c /\ meta[o].clearing = NoClear /\ meta[o].epoch = token[c].epoch
  BY DEF ReplayCommit, MayCommit, authority
<1>2. PICK k \in DOMAIN meta[o].receipts :
        /\ meta[o].receipts[k].op = c
        /\ meta' = [meta EXCEPT ![o].receipts = RefreshReceipt(@, k)]
  BY DEF ReplayCommit
<1> DEFINE s == meta[o].receipts
           rest == SubSeq(s, 1, k - 1) \o SubSeq(s, k + 1, Len(s))
<1>3. c \in 1 .. issued /\ o \in Origins
  <2>1. c \in 1 .. issued
    BY <1>1 DEF LeaseOK, Captures, IInv, TypeOK
  <2> QED  BY <2>1, TokenTypes
<1> HIDE DEF o
<1>4. s \in Seq(Receipt) /\ meta[o] \in Meta
  BY <1>3, StateTypes DEF Meta, IInv
<1>5. k \in 1 .. Len(s) /\ s[k] \in Receipt /\ Len(s) \in Nat
  BY <1>2, <1>4
<1>6. rest \in Seq(Receipt)
  BY <1>4, <1>5
<1>7. PICK j \in DOMAIN AppendReceipt(rest, s[k]) : AppendReceipt(rest, s[k])[j] = s[k]
  BY <1>5, <1>6, AppendedReceipt
<1>8. RefreshReceipt(s, k) = AppendReceipt(rest, s[k])
  BY DEF RefreshReceipt
<1> DEFINE receipts == RefreshReceipt(s, k)
<1>9. meta' = [meta EXCEPT ![o].receipts = receipts] /\ s[k].op = c
  BY <1>2
<1>10. \E i \in DOMAIN receipts : receipts[i].op = c
  BY <1>7, <1>8, <1>9
<1> HIDE DEF receipts
<1>11. /\ meta'[o].receipts = receipts /\ meta'[o].epoch = meta[o].epoch
       /\ meta'[o].clearing = meta[o].clearing
  BY <1>3, <1>4, <1>9 DEF IInv, TypeOK, Meta
<1>12. Fenced(c)'
  BY <1>1, <1>10, <1>11 DEF Fenced, HasReceipt, o
<1>13. \A d \in landed \cap {lease} : Fenced(d) => Fenced(d)'
  <2> SUFFICES ASSUME NEW d \in landed \cap {lease} PROVE Fenced(d)'
    OBVIOUS
  <2>1. d = c
    BY <1>1
  <2> QED  BY <1>12, <2>1 DEF Fenced, HasReceipt
<1> QED  BY <1>1, <1>13, LeaseFrame

Status == [c \in Captures |-> StatusOf(c)]

LEMMA StoredFacts ==
  ASSUME IInv, LeaseOK
  PROVE  /\ Stored \subseteq landed /\ landed \subseteq 1 .. issued
         /\ issued \in Nat /\ lease \in Nat /\ lease <= issued /\ Captures \subseteq Nat \ {0}
         /\ 0 \notin landed
<1>1. issued \in Nat /\ lease \in Nat /\ lease <= issued /\ Captures \subseteq Nat \ {0}
  BY ConstantTypes DEF IInv, TypeOK, LeaseOK, Captures
<1>2. Stored \subseteq landed
  BY DEF Stored, LeaseOK
<1> QED  BY <1>1, <1>2 DEF LeaseOK

\* A step that issues and stores nothing withdraws what it takes away, if anything.
LEMMA Withdraws ==
  ASSUME IInv, LeaseOK, UNCHANGED <<issued, landed>>, lease' \in {0, lease},
         Stored' \subseteq Stored
  PROVE  [Log!Next]_Status
<1> DEFINE gone == {c \in Captures : Status'[c] # Status[c]}
<1>1. /\ landed \subseteq 1 .. issued /\ Stored \subseteq landed /\ 0 \notin landed
      /\ Captures \subseteq Nat \ {0} /\ issued \in Nat
  BY StoredFacts
<1>2. \A c \in Captures : Status[c] = StatusOf(c) /\ Status'[c] = StatusOf(c)'
  BY DEF Status
<1>3. ASSUME NEW c \in gone PROVE StatusOf(c) \in {"open", "live"} /\ StatusOf(c)' = "dead"
  BY <1>1, <1>2, <1>3 DEF StatusOf
<1>4. Status' = [c \in Captures |-> IF c \in gone THEN "dead" ELSE Status[c]]
  <2>1. \A c \in Captures : Status'[c] = IF c \in gone THEN "dead" ELSE Status[c]
    BY <1>2, <1>3
  <2> QED  BY <2>1 DEF Status
<1>5. \A c \in gone : Status[c] \in {"open", "live"}
  BY <1>2, <1>3
<1>6. gone \in SUBSET Captures
  OBVIOUS
<1> HIDE DEF gone
<1> QED  BY <1>4, <1>5, <1>6 DEF Log!Next, Log!Withdraw, Status

\* A new token opens its capture.
LEMMA Issues ==
  ASSUME IInv, LeaseOK, UNCHANGED <<file, landed>>, lease = 0,
         issued' = issued + 1, lease' = issued + 1, issued' \in Captures
  PROVE  [Log!Next]_Status
<1> DEFINE n == issued + 1
<1>1. /\ landed \subseteq 1 .. issued /\ Stored \subseteq landed
      /\ Captures \subseteq Nat \ {0} /\ issued \in Nat
  BY StoredFacts
<1>2. Stored' = Stored /\ n \in Captures
  BY DEF Stored
<1>3. \A c \in Captures : StatusOf(c)' = IF c = n THEN "open" ELSE StatusOf(c)
  BY <1>1, <1>2 DEF StatusOf
<1>4. StatusOf(n) = "unused"
  BY <1>1 DEF StatusOf
<1> HIDE DEF n
<1>5. Status[n] = "unused" /\ Status' = [Status EXCEPT ![n] = "open"]
  BY <1>2, <1>3, <1>4 DEF Status
<1> QED  BY <1>2, <1>5 DEF Log!Next, Log!Issue, Status

\* A commit is the one time a capture is stored, and it is the newest.
LEMMA Lands ==
  ASSUME IInv, LeaseOK, NEW c \in Captures, lease = c, c = issued, c \notin landed,
         UNCHANGED <<issued, lease>>, landed' = landed \cup {c},
         c \in Stored', Stored' \subseteq Stored \cup {c}
  PROVE  [Log!Next]_Status
<1> DEFINE over == Stored \ Stored'
<1>1. /\ landed \subseteq 1 .. issued /\ Stored \subseteq landed
      /\ Captures \subseteq Nat \ {0} /\ issued \in Nat
  BY StoredFacts
<1>2. over \in SUBSET Captures
  BY <1>1 DEF IInv, TypeOK, Captures
<1>3. /\ StatusOf(c) = "open" /\ \A d \in Captures : d > c => StatusOf(d) = "unused"
      /\ \A d \in over : StatusOf(d) = "live"
  <2>1. ~(c > issued) /\ c \notin Stored
    BY <1>1
  <2>2. StatusOf(c) = "open"
    BY <2>1 DEF StatusOf
  <2>3. \A d \in Captures : d > c => StatusOf(d) = "unused"
    BY DEF StatusOf
  <2>4. \A d \in over : d \in Stored /\ ~(d > issued)
    BY <1>1
  <2> QED  BY <2>2, <2>3, <2>4 DEF StatusOf
<1>4. \A d \in Captures :
        StatusOf(d)' = IF d = c THEN "live" ELSE IF d \in over THEN "dead" ELSE StatusOf(d)
  BY <1>1 DEF StatusOf
<1> HIDE DEF over
<1>5. /\ Status[c] = "open" /\ \A d \in Captures : d > c => Status[d] = "unused"
      /\ \A d \in over : Status[d] = "live"
      /\ Status' = [d \in Captures |-> IF d = c THEN "live"
                                       ELSE IF d \in over THEN "dead" ELSE Status[d]]
  BY <1>2, <1>3, <1>4 DEF Status
<1>6. Log!Land(c, over)
  BY <1>5 DEF Log!Land, Status
<1> QED  BY <1>2, <1>6 DEF Log!Next, Status

\* A commit stores its capture in place of what it replaces.
LEMMA CommitLands ==
  ASSUME IInv, LeaseOK, NEW c \in Captures, CommitNew(c) \/ CommitReplacement(c)
  PROVE  LeaseOK' /\ [Log!Next]_Status
<1> DEFINE o == token[c].origin
<1>1. MayCommit(c) /\ ~HasReceipt(o, c)
  BY DEF CommitNew, CommitReplacement
<1>2. o \in Origins
  BY <1>1 DEF IInv, TypeOK, TokenOK, Captures, MayCommit
<1>3. PICK item \in Item, items \in SUBSET Item :
        /\ item.by = c /\ item \in items
        /\ \A i \in items : i = item \/ i \in file[o]
        /\ WriteCapture(c, o, item, items)
  <2>1. CASE CommitNew(c)
    <3>1. PICK n \in 1 .. MaxItems :
            WriteCapture(c, o, [id |-> n, ann |-> c, by |-> c],
                         file[o] \cup {[id |-> n, ann |-> c, by |-> c]})
      BY <2>1 DEF CommitNew
    <3> DEFINE item == [id |-> n, ann |-> c, by |-> c]
    <3>2. item \in Item /\ item.by = c
      BY DEF Item
    <3>3. WriteCapture(c, o, item, file[o] \cup {item})
      BY <3>1
    <3> HIDE DEF item
    <3> QED  BY <1>2, <3>2, <3>3, StateTypes DEF IInv
  <2>2. CASE CommitReplacement(c)
    <3>1. PICK old \in token[c].replace :
            WriteCapture(c, o, [old EXCEPT !.by = c],
                         (file[o] \ {old}) \cup {[old EXCEPT !.by = c]})
      BY <2>2 DEF CommitReplacement
    <3> DEFINE item == [old EXCEPT !.by = c]
    <3>2. old \in file[o] /\ old \in Item
      BY <1>2, <2>2, StateTypes DEF CommitReplacement, IInv
    <3>3. item \in Item /\ item.by = c
      BY <3>2 DEF Item
    <3>4. WriteCapture(c, o, item, (file[o] \ {old}) \cup {item})
      BY <3>1
    <3> HIDE DEF item
    <3> QED  BY <1>2, <3>3, <3>4, StateTypes DEF IInv
  <2> QED  BY <2>1, <2>2
<1>4. /\ LeaseOK' /\ lease = c /\ c = issued /\ c \notin landed
      /\ UNCHANGED <<issued, lease>> /\ landed' = landed \cup {c}
      /\ file' = [file EXCEPT ![o] = items]
  BY <1>1, <1>3, CommitLease
<1>5. file'[o] = items /\ \A p \in Origins \ {o} : file'[p] = file[p]
  BY <1>2, <1>4 DEF IInv, TypeOK
<1>6. c \in Stored'
  BY <1>2, <1>3, <1>5 DEF Stored
<1>7. Stored' \subseteq Stored \cup {c}
  <2> SUFFICES ASSUME NEW p \in Origins, NEW i \in file'[p] PROVE i.by \in Stored \cup {c}
    BY DEF Stored
  <2>1. i \in file[p] \/ i.by = c
    BY <1>2, <1>3, <1>5
  <2> QED  BY <2>1 DEF Stored
<1> QED  BY <1>4, <1>6, <1>7, Lands

\* What is stored is what the files hold.
LEMMA StoredShrinks ==
  ASSUME \A o \in Origins : file'[o] \subseteq file[o]
  PROVE  Stored' \subseteq Stored
BY DEF Stored

LEMMA StepRefines ==
  ASSUME IInv, LeaseOK, OverlapClearAll = FALSE, [Next]_vars
  PROVE  LeaseOK' /\ [Log!Next]_Status
<1>1. CASE IssueToken
  BY <1>1, IssueTokenLease, Issues
<1>2. CASE \E c \in Captures : CommitNew(c) \/ CommitReplacement(c)
  BY <1>2, CommitLands
<1>3. CASE \/ \E o \in Origins :
                \/ \E replace \in {{}} \cup {{i} : i \in file[o]} : BeginCapture(o, replace)
                \/ AlreadyCleared(o) \/ ResumeOrigin(o)
                \/ \E epoch \in Epochs, n \in 1 .. MaxItems : RemoveItem(o, epoch, n)
           \/ \E x \in ClearIds \cup {AllStored} : RequestClear(x)
           \/ \E x \in DurableClears : ResumeClear(x)
           \/ InvalidateLeases \/ DropRequest \/ Purge \/ RemoveWrite
           \/ StorageError \/ WorkerDeath
           \/ UNCHANGED vars
  BY <1>3, VolatileLease, StoredShrinks, Withdraws
<1>4. CASE ClearAll
  BY <1>4, ClearAllLease, StoredShrinks, Withdraws
<1>5. CASE \/ \E c \in Captures : ReplayCommit(c)
           \/ RefuseToken \/ Complete \/ RecordOrigin
           \/ \E o \in Origins : StartOrigin(o) \/ ConflictOrigin(o)
           \/ \E o \in Origins, epoch \in Epochs \cup {0}, x \in SavedClears :
                SavedClear(o, epoch, x)
           \/ \E x \in DurableClears :
                \/ \E origins \in SUBSET Origins, epoch \in [Origins -> Epochs \cup {0}] :
                     PrepareClear(x, origins, epoch)
                \/ \E gen \in 1 .. generation : FinalizeClear(x, gen)
  <2>1. LeaseOK' /\ UNCHANGED <<file, issued, landed, lease>>
    <3>1. CASE \E c \in Captures : ReplayCommit(c)
      BY <3>1, ReplayLease
    <3>2. CASE RefuseToken \/ Complete
      BY <3>2, RefuseTokenLease, CompleteLease
    <3>3. CASE RecordOrigin \/ \E o \in Origins : ConflictOrigin(o)
      BY <3>3, SetEntryLease
    <3>4. CASE \E o \in Origins : StartOrigin(o)
      BY <3>4, StartOriginLease
    <3>5. CASE \E o \in Origins, epoch \in Epochs \cup {0}, x \in SavedClears :
                 SavedClear(o, epoch, x)
      BY <3>5, SavedClearLease
    <3>6. CASE \E x \in DurableClears, origins \in SUBSET Origins,
                  epoch \in [Origins -> Epochs \cup {0}] : PrepareClear(x, origins, epoch)
      BY <3>6, PrepareClearLease
    <3>7. CASE \E x \in DurableClears, gen \in 1 .. generation : FinalizeClear(x, gen)
      <4>1. generation \in Nat
        BY DEF IInv, TypeOK
      <4> QED  BY <3>7, <4>1, FinalizeClearLease
    <3> QED  BY <1>5, <3>1, <3>2, <3>3, <3>4, <3>5, <3>6, <3>7
  <2>2. Stored' = Stored /\ lease' \in {0, lease}
    BY <2>1 DEF Stored
  <2> QED  BY <2>1, <2>2, Withdraws
<1> QED
  BY <1>1, <1>2, <1>3, <1>4, <1>5 DEF Next, CaptureNext, RemoveNext, ClearNext

LEMMA InitRefines == Init => LeaseOK /\ Log!Init
<1> SUFFICES ASSUME Init PROVE LeaseOK /\ Log!Init
  OBVIOUS
<1>1. /\ issued = 0 /\ lease = 0 /\ landed = {} /\ begin = NoBegin
      /\ \A o \in Origins : file[o] = {}
  BY DEF Init
<1>2. LeaseOK
  BY <1>1 DEF LeaseOK, NoBegin
<1>3. \A c \in Captures : StatusOf(c) = "unused"
  BY <1>1, ConstantTypes DEF StatusOf, Captures
<1> QED  BY <1>2, <1>3 DEF Log!Init

\* Unless "clear all" overlaps a durable clear, every capture is stored at most once
\* and only while it is the newest, and once it was removed, replaced, cleared or its
\* lease lost, no retry, fault or resumed clear brings it back (CaptureLog).
THEOREM StoreRefines ==
  ASSUME OverlapClearAll = FALSE
  PROVE  Spec => ImplementsCaptureLog
<1>1. Init => LeaseOK /\ Log!Init
  BY InitRefines
<1>2. IInv /\ LeaseOK /\ [Next]_vars => LeaseOK' /\ [Log!Next]_Status
  BY StepRefines
<1>3. Spec => Log!Spec
  BY <1>1, <1>2, InvariantHolds, PTL DEF Spec, Log!Spec, Status
<1> QED  BY <1>3 DEF ImplementsCaptureLog
=============================================================================
