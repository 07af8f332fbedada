-------------------------- MODULE LifecycleMailbox --------------------------
(***************************************************************************)
(* The local bridge between coding agents and browsers (local-bridge.ts)   *)
(* with its mailbox of annotation lifecycle operations                     *)
(* (annotation-lifecycle-control-state.ts): an agent proposes to resolve   *)
(* or reopen an annotation, the user approves or rejects it in the         *)
(* browser, the browser claims it, applies it and hands in a receipt.      *)
(*                                                                         *)
(* The bridge is one process; each of its handlers runs without a pause,   *)
(* so each is one action.  A handler that refuses a request changes at     *)
(* most what its look at the clock changes: that is action Read.           *)
(*                                                                         *)
(* The fingerprint of a proposal is the proposal itself.  A capture has    *)
(* one annotation here, so a capture and its annotation are one name.      *)
(***************************************************************************)
EXTENDS Naturals, FiniteSets

CONSTANTS
  Instances,      \* paired browser installations
  NoInstance,
  Operations,     \* operation ids
  Captures,       \* the captures browsers share
  Statuses,       \* what a receipt may report
  MaxOperations,  \* ANNOTATION_LIFECYCLE_CONTROL_DEFAULT_MAX_OPERATIONS, 64
  Ttl,            \* ANNOTATION_LIFECYCLE_CONTROL_DEFAULT_TTL_MS
  StaleAfter,     \* INSTANCE_STALE_AFTER_MS
  MaxTime,        \* bound on the clock
  MaxSequence,    \* bound on the sequence numbers of snapshots
  MaxConnections  \* bound on the pairings

ASSUME MailboxConstantsOK ==
  /\ NoInstance \notin Instances
  /\ IsFiniteSet(Operations)
  /\ Statuses \subseteq {"succeeded", "failed", "blocked", "expired",
                         "cancelled", "rejected", "stale", "conflict"}
  /\ {MaxOperations, Ttl, StaleAfter, MaxTime, MaxSequence, MaxConnections}
       \subseteq Nat

VARIABLES
  now,         \* Date.now(), which the system may move either way
  connections, \* connectionGeneration: how many pairings there were
  link,        \* per instance: its connection, when it was seen, its snapshot
  owner,       \* operationOwners: per operation, the instance it was sent to
  mailbox,     \* per instance and operation: the record
  claims       \* the claims ever handed to browsers, which keep them

vars == <<now, connections, link, owner, mailbox, claims>>

States == {"open", "resolved"}
Other(s) == IF s = "open" THEN "resolved" ELSE "open"
Times == 0 .. MaxTime

\* A change of the annotation from one state to the other.
Proposal == [instance : Instances, capture : Captures,
             sequence : 1 .. MaxSequence, from : States]

\* What a browser shares: one annotation, and when it was last changed.
Snapshot == [sequence : 1 .. MaxSequence, capture : Captures,
             state : States \cup {"absent"}, updated : Times]

\* Where the code has null or a value, there is a set of at most one here:
\* seen (lastSeenAt) and snapshot, later approved, executing and receipt.
Link   == [gen : Nat, seen : SUBSET Nat, snapshot : SUBSET Snapshot]
NoLink == [gen |-> 0, seen |-> {}, snapshot |-> {}]

Phases  == {"none", "awaiting_user", "executing", "applied", "rejected",
            "expired", "blocked", "unknown"}
Receipt == [status : Statuses, at : Nat, gen : Nat]
\* receipt.gen is the connection whose claim the receipt answers.
Record  == [phase : Phases, proposal : SUBSET Proposal, expires : Nat,
            approved : SUBSET Nat, executing : SUBSET Nat,
            fromExecuting : BOOLEAN, receipt : SUBSET Receipt]
NoRecord == [phase |-> "none", proposal |-> {}, expires |-> 0, approved |-> {},
             executing |-> {}, fromExecuting |-> FALSE, receipt |-> {}]
Claims == [instance : Instances, op : Operations, gen : Nat, approved : Nat,
           expires : Nat]

\* operations.size
Size(i) == Cardinality({o \in Operations : mailbox[i][o].phase # "none"})

TypeOK ==
  /\ now \in Nat
  /\ connections \in Nat
  /\ link \in [Instances -> Link]
  /\ owner \in [Operations -> Instances \cup {NoInstance}]
  /\ mailbox \in [Instances -> [Operations -> Record]]
  /\ \A i \in Instances : Size(i) <= MaxOperations
  /\ claims \subseteq Claims

Empty == [o \in Operations |-> NoRecord]

Init ==
  /\ now = 0
  /\ connections = 0
  /\ link = [i \in Instances |-> NoLink]
  /\ owner = [o \in Operations |-> NoInstance]
  /\ mailbox = [i \in Instances |-> Empty]
  /\ claims = {}

-----------------------------------------------------------------------------
\* The connection of a browser.

Connected(i) == link[i].gen > 0

\* toView: not heard of within StaleAfter.
Stale(i) == \A t \in link[i].seen : now > t + StaleAfter

Live(i) == Connected(i) /\ ~Stale(i)

\* MUTANT of Disowned: a new mailbox, the old owners.
DisownedNever(i) == owner

\* The operations sent to an instance are forgotten.
Disowned(i) ==
  [o \in Operations |-> IF owner[o] = i THEN NoInstance ELSE owner[o]]

\* A pairing, by code or by an approved connection request: a new token, a new
\* generation and an empty mailbox, whatever the instance had before.
Pair(i) ==
  /\ connections < MaxConnections
  /\ connections' = connections + 1
  /\ link' = [link EXCEPT ![i] = [NoLink EXCEPT !.gen = connections + 1]]
  /\ owner' = Disowned(i)
  /\ mailbox' = [mailbox EXCEPT ![i] = Empty]
  /\ UNCHANGED <<now, claims>>

Disconnect(i) ==
  /\ Connected(i)
  /\ link' = [link EXCEPT ![i] = NoLink]
  /\ owner' = Disowned(i)
  /\ mailbox' = [mailbox EXCEPT ![i] = Empty]
  /\ UNCHANGED <<now, connections, claims>>

\* The connection request behind the pairing is cancelled, replaced or expires:
\* the instance goes, the owners of its operations stay.
Revoke(i) ==
  /\ Connected(i)
  /\ link' = [link EXCEPT ![i] = NoLink]
  /\ mailbox' = [mailbox EXCEPT ![i] = Empty]
  /\ UNCHANGED <<now, connections, owner, claims>>

\* A snapshot must be newer than the one that is shared.
Publish(i, snapshot) ==
  /\ Connected(i)
  /\ \A old \in link[i].snapshot : snapshot.sequence > old.sequence
  /\ link' = [link EXCEPT ![i].snapshot = {snapshot}, ![i].seen = {now}]
  /\ UNCHANGED <<now, connections, owner, mailbox, claims>>

ClearSharedCapture(i) ==
  /\ Connected(i)
  /\ link' = [link EXCEPT ![i].snapshot = {}, ![i].seen = {now}]
  /\ UNCHANGED <<now, connections, owner, mailbox, claims>>

Heartbeat(i) ==
  /\ Connected(i)
  /\ link' = [link EXCEPT ![i].seen = {now}]
  /\ UNCHANGED <<now, connections, owner, mailbox, claims>>

SetClock(t) ==
  /\ now' = t
  /\ UNCHANGED <<connections, link, owner, mailbox, claims>>
-----------------------------------------------------------------------------
\* The mailbox.

Active(r) == r.phase \in {"awaiting_user", "executing"}

\* expireActive: every look at a record expires it when its time is over.
Lapsed(r) ==
  IF Active(r) /\ now >= r.expires
  THEN [r EXCEPT !.phase = "expired", !.fromExecuting = r.phase = "executing"]
  ELSE r

\* The agent asks for the state of an operation, or any request is refused.
Read(i, o) ==
  /\ Connected(i)
  /\ mailbox' = [mailbox EXCEPT ![i][o] = Lapsed(@)]
  /\ UNCHANGED <<now, connections, link, owner, claims>>

\* The browser asks for the first active operation: all of them are looked at.
ReadNext(i) ==
  /\ Live(i)
  /\ mailbox' = [mailbox EXCEPT ![i] =
                   [o \in Operations |-> Lapsed(mailbox[i][o])]]
  /\ UNCHANGED <<now, connections, link, owner, claims>>

\* lifecycleBinding: the shared capture shows the annotation as the proposal
\* expects it.
Binds(s, p) == s.capture = p.capture /\ s.state = p.from

\* MUTANT of HasRoom: one too many.
HasRoomForOne(i) == Size(i) <= MaxOperations

HasRoom(i) == Size(i) < MaxOperations

\* MUTANT of MayOwn: an id used with another browser is accepted.
MayOwnAny(o, i) == TRUE

MayOwn(o, i) == owner[o] \in {NoInstance, i}

NewRecord(p) ==
  [NoRecord EXCEPT !.phase = "awaiting_user", !.proposal = {p},
                   !.expires = now + Ttl]

\* An agent submits a proposal.  An operation the instance already owns is a
\* repetition: it is not compared with the snapshot again.
Submit(o, p) ==
  LET i == p.instance
      r == mailbox[i][o]
  IN
  /\ Live(i)
  /\ MayOwn(o, i)
  /\ owner[o] = NoInstance =>
       \E s \in link[i].snapshot : Binds(s, p) /\ s.sequence = p.sequence
  /\ \/ /\ r.phase = "none"
        /\ HasRoom(i)
        /\ mailbox' = [mailbox EXCEPT ![i][o] = NewRecord(p)]
     \/ /\ r.phase # "none"
        /\ r.proposal = {p}
        /\ mailbox' = [mailbox EXCEPT ![i][o] = Lapsed(r)]
  /\ owner' = [owner EXCEPT ![o] = i]
  /\ UNCHANGED <<now, connections, link, claims>>

\* The user approves and the browser claims: approveCurrent, then
\* markExecuting, each with its own reading of the clock (now, then t).  A
\* second claim returns the first one's approval and changes nothing.
Claim(i, o, t) ==
  LET r == Lapsed(mailbox[i][o])
      approved == [r EXCEPT !.approved = {now}]
  IN
  /\ Live(i)
  /\ r.phase = "awaiting_user"
  /\ \E s \in link[i].snapshot, p \in r.proposal : Binds(s, p)
  /\ now' = t
  /\ \/ /\ t < r.expires
        /\ mailbox' = [mailbox EXCEPT ![i][o] =
             [approved EXCEPT !.phase = "executing", !.executing = {t}]]
        /\ claims' = claims \cup {[instance |-> i, op |-> o,
             gen |-> link[i].gen, approved |-> now, expires |-> r.expires]}
     \/ /\ t >= r.expires
        /\ mailbox' = [mailbox EXCEPT ![i][o] =
             [approved EXCEPT !.phase = "expired"]]
        /\ UNCHANGED claims
  /\ UNCHANGED <<connections, link, owner>>

\* The user rejects, or the browser drops what it delivered: whatever the
\* snapshot shows by now.
Reject(i, o) ==
  LET r == Lapsed(mailbox[i][o]) IN
  /\ Live(i)
  /\ r.phase = "awaiting_user"
  /\ mailbox' = [mailbox EXCEPT ![i][o] = [r EXCEPT !.phase = "rejected"]]
  /\ UNCHANGED <<now, connections, link, owner, claims>>

\* receiptPhase
PhaseOf(status) ==
  CASE status = "succeeded" -> "applied"
    [] status \in {"rejected", "expired", "blocked"} -> status
    [] OTHER -> "unknown"

\* successfulReceiptMatchesSnapshot: a success must show in a newer snapshot,
\* with the time of the receipt.
Confirms(s, p, at) ==
  /\ s.capture = p.capture
  /\ s.sequence > p.sequence
  /\ s.state = Other(p.from)
  /\ s.updated = at

\* MUTANT of Resolves: the claim of an earlier connection will do.
ResolvesAnyConnection(c) ==
  LET r == mailbox[c.instance][c.op] IN
  /\ r.phase # "none"
  /\ r.approved = {c.approved}
  /\ r.expires = c.expires

\* The claim belongs to this connection and to this approval.
Resolves(c) ==
  LET r == mailbox[c.instance][c.op] IN
  /\ r.phase # "none"
  /\ link[c.instance].gen = c.gen
  /\ r.approved = {c.approved}
  /\ r.expires = c.expires

\* MUTANT of Takes: a receipt that says "expired" may be replaced.
TakesAgain(r, at) ==
  /\ \E x \in r.executing : x <= at
  /\ at < r.expires
  /\ \/ r.phase = "executing" /\ at <= now
     \/ r.phase = "expired" /\ r.fromExecuting

\* A receipt settles what is executing, or what expired while executing and
\* has no receipt yet, if it was observed within the approval.
Takes(r, at) ==
  /\ \E x \in r.executing : x <= at
  /\ at < r.expires
  /\ \/ r.phase = "executing" /\ at <= now
     \/ r.phase = "expired" /\ r.fromExecuting /\ r.receipt = {}

\* The browser hands in the receipt of a claim.
Finalize(c, status, at) ==
  LET i == c.instance
      r == Lapsed(mailbox[i][c.op])
  IN
  /\ Live(i)
  /\ Resolves(c)
  /\ status = "succeeded" =>
       \E s \in link[i].snapshot, p \in r.proposal : Confirms(s, p, at)
  /\ Takes(r, at)
  /\ mailbox' = [mailbox EXCEPT ![i][c.op] =
       [r EXCEPT !.phase = PhaseOf(status),
                 !.receipt = {[status |-> status, at |-> at, gen |-> c.gen]}]]
  /\ UNCHANGED <<now, connections, link, owner, claims>>

Next ==
  \/ \E i \in Instances :
       \/ Pair(i) \/ Disconnect(i) \/ Revoke(i)
       \/ ClearSharedCapture(i) \/ Heartbeat(i) \/ ReadNext(i)
       \/ \E s \in Snapshot : Publish(i, s)
       \/ \E o \in Operations :
            \/ Read(i, o) \/ Reject(i, o)
            \/ \E t \in Times : Claim(i, o, t)
  \/ \E o \in Operations, p \in Proposal : Submit(o, p)
  \/ \E c \in claims, status \in Statuses, at \in Times :
       Finalize(c, status, at)
  \/ \E t \in Times : SetClock(t)

Spec == Init /\ [][Next]_vars
-----------------------------------------------------------------------------
\* An operation is in one mailbox at most, that of the instance it is recorded
\* to belong to, and an instance that is connected holds every operation so
\* recorded: a repetition is recognised, and never takes the way of one that
\* was compared with the snapshot before.
OwnersKnown ==
  \A i \in Instances, o \in Operations :
    /\ mailbox[i][o].phase # "none" => owner[o] = i /\ Connected(i)
    /\ owner[o] = i /\ Connected(i) => mailbox[i][o].phase # "none"

\* A receipt is only kept when it answers a claim of this very connection, and
\* was observed while the approval was being executed and before it expired.
ReceiptsAnswerClaims ==
  \A i \in Instances, o \in Operations :
    LET r == mailbox[i][o] IN
    \A x \in r.receipt :
      /\ x.gen = link[i].gen
      /\ x.at < r.expires
      /\ \E e \in r.executing : e <= x.at
      /\ \E a \in r.approved :
           [instance |-> i, op |-> o, gen |-> x.gen, approved |-> a,
            expires |-> r.expires] \in claims

\* Nothing enters a mailbox that the browser's snapshot of that moment did not
\* show as the agent described it, however ids are reused and browsers reconnect.
SubmittedAsShown ==
  [][\A i \in Instances, o \in Operations :
       mailbox[i][o].phase = "none" /\ mailbox'[i][o].phase # "none" =>
         \E s \in link[i].snapshot, p \in mailbox'[i][o].proposal :
           Binds(s, p) /\ s.sequence = p.sequence]_vars

\* The mailbox keeps the promise of LifecycleOutcome to every submission.
RecordStatus(r) ==
  CASE r.receipt # {} -> CHOOSE s \in Statuses : \E x \in r.receipt : x.status = s
    [] r.receipt = {} /\ r.phase = "none" -> "unused"
    [] r.receipt = {} /\ r.phase = "awaiting_user" -> "offered"
    [] r.receipt = {} /\ r.phase = "executing" -> "claimed"
    [] r.receipt = {} /\ r.phase = "expired" /\ r.fromExecuting -> "lapsed"
    [] OTHER -> "refused"

At(g) == {i \in Instances : link[i].gen = g}

StatusOf(g, o) ==
  IF At(g) # {} THEN RecordStatus(mailbox[CHOOSE i \in At(g) : TRUE][o])
  ELSE IF g <= connections THEN "gone" ELSE "unused"

\* What became of every submission: the refinement mapping.
Became == [s \in (1 .. MaxConnections) \X Operations |-> StatusOf(s[1], s[2])]

Outcome == INSTANCE LifecycleOutcome WITH
  Connections <- 1 .. MaxConnections,
  Outcomes    <- Statuses,
  status      <- Became

ImplementsOutcome == Outcome!Spec
=============================================================================
