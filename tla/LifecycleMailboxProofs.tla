----------------------- MODULE LifecycleMailboxProofs -----------------------
(***************************************************************************)
(* Proofs about the mailbox of the local bridge: types and capacity, who   *)
(* owns an operation, which receipts are kept, and that it implements      *)
(* LifecycleOutcome, for any number of browsers, operations and pairings.  *)
(***************************************************************************)
EXTENDS LifecycleMailbox, FiniteSetTheorems, TLAPS

USE MailboxConstantsOK

\* Every pairing has a number of its own.
LinksOK ==
  /\ connections <= MaxConnections
  /\ \A i \in Instances : link[i].gen <= connections
  /\ \A i, j \in Instances : Connected(i) /\ link[i].gen = link[j].gen => i = j

\* What a record in a phase can hold.
RecordOK(r) ==
  /\ r.phase = "none" => r = NoRecord
  /\ r.phase \in {"awaiting_user", "executing"} =>
       r.receipt = {} /\ ~r.fromExecuting
  /\ r.phase = "awaiting_user" => r.executing = {}
  /\ \A x, y \in r.receipt : x = y

\* The receipts a record keeps: the body of ReceiptsAnswerClaims.
Answered(i, o) ==
  LET r == mailbox[i][o] IN
  \A x \in r.receipt :
    /\ x.gen = link[i].gen
    /\ x.at < r.expires
    /\ \E e \in r.executing : e <= x.at
    /\ \E a \in r.approved :
         [instance |-> i, op |-> o, gen |-> x.gen, approved |-> a,
          expires |-> r.expires] \in claims

RecordsOK ==
  \A i \in Instances, o \in Operations :
    RecordOK(mailbox[i][o]) /\ Answered(i, o)

Inv == TypeOK /\ LinksOK /\ OwnersKnown /\ RecordsOK

-----------------------------------------------------------------------------
\* A look at the clock keeps a record well formed, its identity, and whether
\* there is one.
LEMMA LapsedOK ==
  ASSUME NEW r \in Record, RecordOK(r), now \in Nat
  PROVE  /\ Lapsed(r) \in Record
         /\ RecordOK(Lapsed(r))
         /\ Lapsed(r).phase = "none" <=> r.phase = "none"
         /\ Lapsed(r).proposal = r.proposal
         /\ Lapsed(r).expires = r.expires
         /\ Lapsed(r).approved = r.approved
         /\ Lapsed(r).executing = r.executing
         /\ Lapsed(r).receipt = r.receipt
         /\ Lapsed(r).phase = "awaiting_user" => Lapsed(r) = r
         /\ Lapsed(r).phase = "executing" => Lapsed(r) = r
<1>1. CASE Active(r) /\ now >= r.expires
  <2>1. Lapsed(r) = [r EXCEPT !.phase = "expired",
                              !.fromExecuting = r.phase = "executing"]
    BY <1>1 DEF Lapsed
  <2> QED  BY <1>1, <2>1 DEF Record, RecordOK, Active, Phases
<1>2. CASE ~(Active(r) /\ now >= r.expires)
  BY <1>2 DEF Lapsed
<1> QED  BY <1>1, <1>2

LEMMA NoRecordOK ==
  NoRecord \in Record /\ RecordOK(NoRecord)
BY DEF NoRecord, Record, RecordOK, Phases

\* The number of records does not grow when no record is made.
LEMMA SizeKept ==
  ASSUME NEW i \in Instances, TypeOK,
         \A o \in Operations :
           mailbox'[i][o].phase # "none" => mailbox[i][o].phase # "none"
  PROVE  Size(i)' <= MaxOperations
<1> DEFINE Before == {o \in Operations : mailbox[i][o].phase # "none"}
           After  == {o \in Operations : mailbox'[i][o].phase # "none"}
<1>1. After \subseteq Before /\ IsFiniteSet(Before)
  BY FS_Subset
<1>2. /\ Cardinality(After) <= Cardinality(Before)
      /\ Cardinality(After) \in Nat /\ Cardinality(Before) \in Nat
  BY <1>1, FS_Subset, FS_CardinalityType
<1>3. Cardinality(Before) <= MaxOperations
  BY DEF TypeOK, Size
<1> QED  BY <1>2, <1>3 DEF Size

\* The number of records grows by one when one record is made.
LEMMA SizeAdded ==
  ASSUME NEW i \in Instances, NEW o \in Operations, TypeOK, HasRoom(i),
         \A q \in Operations \ {o} :
           mailbox'[i][q].phase # "none" => mailbox[i][q].phase # "none"
  PROVE  Size(i)' <= MaxOperations
<1> DEFINE Before == {q \in Operations : mailbox[i][q].phase # "none"}
           After  == {q \in Operations : mailbox'[i][q].phase # "none"}
<1>1. After \subseteq Before \cup {o} /\ IsFiniteSet(Before)
  BY FS_Subset
<1>2. /\ IsFiniteSet(Before \cup {o})
      /\ Cardinality(Before \cup {o}) \in {Cardinality(Before), Cardinality(Before) + 1}
  BY <1>1, FS_AddElement
<1>3. /\ Cardinality(After) <= Cardinality(Before \cup {o})
      /\ Cardinality(After) \in Nat /\ Cardinality(Before) \in Nat
  BY <1>1, <1>2, FS_Subset, FS_CardinalityType
<1>4. Cardinality(Before) < MaxOperations
  BY DEF HasRoom, Size
<1> QED  BY <1>2, <1>3, <1>4 DEF Size

\* Changes of records that create none and drop none.
LEMMA RecordsChanged ==
  ASSUME Inv, now' \in Nat,
         UNCHANGED <<connections, link, owner>>,
         claims \subseteq claims', claims' \subseteq Claims,
         mailbox' \in [Instances -> [Operations -> Record]],
         \A j \in Instances, q \in Operations :
           /\ mailbox'[j][q].phase = "none" <=> mailbox[j][q].phase = "none"
           /\ RecordOK(mailbox'[j][q])
           /\ Answered(j, q)'
  PROVE  Inv'
<1>1. TypeOK'
  <2>1. \A j \in Instances : Size(j)' <= MaxOperations
    BY SizeKept DEF Inv
  <2> QED  BY <2>1 DEF Inv, TypeOK
<1>2. LinksOK'
  BY DEF Inv, LinksOK, Connected
<1>3. OwnersKnown'
  BY DEF Inv, OwnersKnown, Connected
<1>4. RecordsOK'
  BY DEF RecordsOK, RecordOK, Answered
<1> QED  BY <1>1, <1>2, <1>3, <1>4 DEF Inv

\* The change of one record.
LEMMA OneRecordChanged ==
  ASSUME Inv, now' \in Nat,
         UNCHANGED <<connections, link, owner>>,
         claims \subseteq claims', claims' \subseteq Claims,
         NEW i \in Instances, NEW o \in Operations, NEW r \in Record,
         RecordOK(r),
         mailbox' = [mailbox EXCEPT ![i][o] = r],
         r.phase = "none" <=> mailbox[i][o].phase = "none",
         \A x \in r.receipt :
           /\ x.gen = link[i].gen
           /\ x.at < r.expires
           /\ \E e \in r.executing : e <= x.at
           /\ \E a \in r.approved :
                [instance |-> i, op |-> o, gen |-> x.gen, approved |-> a,
                 expires |-> r.expires] \in claims
  PROVE  Inv'
<1>1. mailbox' \in [Instances -> [Operations -> Record]]
  BY DEF Inv, TypeOK
<1>2. ASSUME NEW j \in Instances, NEW q \in Operations
      PROVE  /\ mailbox'[j][q].phase = "none" <=> mailbox[j][q].phase = "none"
             /\ RecordOK(mailbox'[j][q])
             /\ Answered(j, q)'
  <2>1. CASE j = i /\ q = o
    <3>1. mailbox'[j][q] = r
      BY <2>1 DEF Inv, TypeOK
    <3>2. \A x \in r.receipt : x.gen = link'[i].gen
      OBVIOUS
    <3> QED  BY <2>1, <3>1, <3>2 DEF Answered
  <2>2. CASE ~(j = i /\ q = o)
    <3>1. mailbox'[j][q] = mailbox[j][q]
      BY <2>2 DEF Inv, TypeOK
    <3>2. RecordOK(mailbox[j][q]) /\ Answered(j, q)
      BY DEF Inv, RecordsOK
    <3> QED  BY <3>1, <3>2 DEF Answered
  <2> QED  BY <2>1, <2>2
<1> QED  BY <1>1, <1>2, RecordsChanged

-----------------------------------------------------------------------------
\* The invariant holds at the start and after every action.

LEMMA InitInv ==
  Init => Inv
<1> SUFFICES ASSUME Init PROVE Inv
  OBVIOUS
<1>1. \A i \in Instances, o \in Operations : mailbox[i][o] = NoRecord
  BY DEF Init, Empty
<1>2. TypeOK
  <2>1. \A i \in Instances :
          {o \in Operations : mailbox[i][o].phase # "none"} = {}
    BY <1>1 DEF NoRecord
  <2>2. \A i \in Instances : Size(i) <= MaxOperations
    <3>1. MaxOperations \in Nat /\ Cardinality({}) = 0
      BY FS_EmptySet
    <3> QED  BY <2>1, <3>1 DEF Size
  <2> QED  BY <2>2, NoRecordOK DEF Init, TypeOK, Empty, Link, NoLink
<1>3. LinksOK
  BY DEF Init, LinksOK, Connected, NoLink
<1>4. OwnersKnown
  BY <1>1 DEF Init, OwnersKnown, NoRecord
<1>5. RecordsOK
  BY <1>1, NoRecordOK DEF RecordsOK, Answered, NoRecord
<1> QED  BY <1>2, <1>3, <1>4, <1>5 DEF Inv

\* Actions that only touch the clock, or what a link says of the browser.
LEMMA QuietInv ==
  ASSUME Inv, now' \in Nat, UNCHANGED <<connections, owner, mailbox, claims>>,
         link' \in [Instances -> Link],
         \A i \in Instances : link'[i].gen = link[i].gen
  PROVE  Inv'
<1>1. TypeOK'
  BY DEF Inv, TypeOK, Size
<1>2. LinksOK'
  BY DEF Inv, LinksOK, Connected
<1>3. OwnersKnown'
  BY DEF Inv, OwnersKnown, Connected
<1>4. RecordsOK'
  <2> SUFFICES ASSUME NEW i \in Instances, NEW o \in Operations
               PROVE  RecordOK(mailbox'[i][o]) /\ Answered(i, o)'
    BY DEF RecordsOK
  <2>1. RecordOK(mailbox[i][o]) /\ Answered(i, o)
    BY DEF Inv, RecordsOK
  <2>2. Answered(i, o)'
    BY <2>1 DEF Answered
  <2> QED  BY <2>1, <2>2
<1> QED  BY <1>1, <1>2, <1>3, <1>4 DEF Inv

\* Actions that end the connection of a browser, and may begin another one.
LEMMA UnlinkInv ==
  ASSUME Inv, NEW i \in Instances, NEW l \in Link,
         connections' \in Nat, connections' <= MaxConnections,
         \/ l.gen = 0 /\ connections' = connections
         \/ l.gen = connections + 1 /\ connections' = connections + 1,
         link' = [link EXCEPT ![i] = l],
         mailbox' = [mailbox EXCEPT ![i] = Empty],
         owner' = Disowned(i) \/ (owner' = owner /\ l.gen = 0),
         UNCHANGED <<now, claims>>
  PROVE  Inv'
<1>1. \A o \in Operations : mailbox'[i][o] = NoRecord
  BY DEF Inv, TypeOK, Empty
<1>2. \A j \in Instances \ {i} :
        mailbox'[j] = mailbox[j] /\ link'[j] = link[j]
  BY DEF Inv, TypeOK
<1>3. link'[i] = l /\ connections \in Nat
  BY DEF Inv, TypeOK
<1>4. TypeOK'
  <2>1. mailbox' \in [Instances -> [Operations -> Record]]
    BY NoRecordOK DEF Inv, TypeOK, Empty
  <2>2. \A j \in Instances : Size(j)' <= MaxOperations
    BY <1>1, <1>2, SizeKept DEF Inv, NoRecord
  <2>3. owner' \in [Operations -> Instances \cup {NoInstance}]
    BY DEF Inv, TypeOK, Disowned
  <2> QED  BY <2>1, <2>2, <2>3 DEF Inv, TypeOK
<1>5. LinksOK'
  <2>1. \A j \in Instances : link[j].gen \in Nat /\ link[j].gen <= connections
    BY DEF Inv, LinksOK, TypeOK, Link
  <2> QED  BY <1>2, <1>3, <2>1 DEF Inv, LinksOK, Connected
<1>6. OwnersKnown'
  <2>1. \A j \in Instances \ {i}, o \in Operations :
          owner'[o] = j <=> owner[o] = j
    BY DEF Inv, TypeOK, Disowned
  <2>2. ASSUME NEW o \in Operations, owner'[o] = i, l.gen # 0
        PROVE  FALSE
    BY <2>2 DEF Inv, TypeOK, Disowned
  <2>3. ASSUME NEW o \in Operations
        PROVE  /\ mailbox'[i][o].phase = "none"
               /\ owner'[o] = i => ~Connected(i)'
    BY <1>1, <1>3, <2>2 DEF NoRecord, Connected
  <2> QED  BY <1>2, <2>1, <2>3 DEF Inv, OwnersKnown, Connected
<1>7. RecordsOK'
  <2>1. ASSUME NEW o \in Operations
        PROVE  RecordOK(mailbox'[i][o]) /\ Answered(i, o)'
    BY <1>1, NoRecordOK DEF Answered, NoRecord
  <2>2. ASSUME NEW j \in Instances \ {i}, NEW o \in Operations
        PROVE  RecordOK(mailbox'[j][o]) /\ Answered(j, o)'
    BY <1>2 DEF Inv, RecordsOK, Answered
  <2> QED  BY <2>1, <2>2 DEF RecordsOK
<1> QED  BY <1>4, <1>5, <1>6, <1>7 DEF Inv

LEMMA PairInv ==
  ASSUME Inv, NEW i \in Instances, Pair(i)
  PROVE  Inv'
<1> DEFINE l == [NoLink EXCEPT !.gen = connections + 1]
<1>1. l \in Link /\ l.gen = connections + 1
  BY DEF Inv, TypeOK, NoLink, Link
<1>2. connections' \in Nat /\ connections' <= MaxConnections
  BY DEF Pair, Inv, TypeOK
<1> QED  BY <1>1, <1>2, UnlinkInv DEF Pair

LEMMA DisconnectInv ==
  ASSUME Inv, NEW i \in Instances, Disconnect(i) \/ Revoke(i)
  PROVE  Inv'
<1>1. NoLink \in Link /\ NoLink.gen = 0
  BY DEF NoLink, Link
<1>2. connections' = connections /\ connections \in Nat
      /\ connections <= MaxConnections
  BY DEF Disconnect, Revoke, Inv, TypeOK, LinksOK
<1> QED  BY <1>1, <1>2, UnlinkInv DEF Disconnect, Revoke

LEMMA ShareInv ==
  ASSUME Inv, NEW i \in Instances,
         \/ ClearSharedCapture(i)
         \/ Heartbeat(i)
         \/ \E s \in Snapshot : Publish(i, s)
  PROVE  Inv'
<1>1. link \in [Instances -> Link] /\ now \in Nat
  BY DEF Inv, TypeOK
<1>2. PICK l \in Link : link' = [link EXCEPT ![i] = l] /\ l.gen = link[i].gen
  <2>1. CASE ClearSharedCapture(i)
    <3> DEFINE l == [link[i] EXCEPT !.snapshot = {}, !.seen = {now}]
    <3>1. l \in Link /\ l.gen = link[i].gen
      BY <1>1 DEF Link
    <3>2. link' = [link EXCEPT ![i] = l]
      BY <1>1, <2>1 DEF ClearSharedCapture, Link
    <3> QED  BY <3>1, <3>2
  <2>2. CASE Heartbeat(i)
    <3> DEFINE l == [link[i] EXCEPT !.seen = {now}]
    <3>1. l \in Link /\ l.gen = link[i].gen
      BY <1>1 DEF Link
    <3>2. link' = [link EXCEPT ![i] = l]
      BY <1>1, <2>2 DEF Heartbeat, Link
    <3> QED  BY <3>1, <3>2
  <2>3. ASSUME NEW s \in Snapshot, Publish(i, s)
        PROVE  \E l \in Link : link' = [link EXCEPT ![i] = l] /\ l.gen = link[i].gen
    <3> DEFINE l == [link[i] EXCEPT !.snapshot = {s}, !.seen = {now}]
    <3>1. l \in Link /\ l.gen = link[i].gen
      BY <1>1 DEF Link
    <3>2. link' = [link EXCEPT ![i] = l]
      BY <1>1, <2>3 DEF Publish, Link
    <3> QED  BY <3>1, <3>2
  <2> QED  BY <2>1, <2>2, <2>3
<1>3. link' \in [Instances -> Link] /\ \A j \in Instances : link'[j].gen = link[j].gen
  BY <1>1, <1>2
<1>4. now' \in Nat /\ UNCHANGED <<connections, owner, mailbox, claims>>
  BY <1>1 DEF ClearSharedCapture, Heartbeat, Publish
<1> QED  BY <1>3, <1>4, QuietInv

LEMMA SetClockInv ==
  ASSUME Inv, NEW t \in Times, SetClock(t)
  PROVE  Inv'
<1>1. now' \in Nat /\ link' \in [Instances -> Link]
  BY DEF SetClock, Inv, TypeOK, Times
<1> QED  BY <1>1, QuietInv DEF SetClock

\* What is known of a record before a step.
LEMMA RecordFacts ==
  ASSUME Inv, NEW i \in Instances, NEW o \in Operations
  PROVE  /\ mailbox[i][o] \in Record
         /\ RecordOK(mailbox[i][o])
         /\ Answered(i, o)
         /\ now \in Nat
BY DEF Inv, TypeOK, RecordsOK

\* A look at one record.
LEMMA LookInv ==
  ASSUME Inv, NEW i \in Instances, NEW o \in Operations,
         mailbox' = [mailbox EXCEPT ![i][o] = Lapsed(mailbox[i][o])],
         UNCHANGED <<now, connections, link, owner, claims>>
  PROVE  Inv'
<1> DEFINE r == Lapsed(mailbox[i][o])
<1>1. /\ r \in Record /\ RecordOK(r)
      /\ r.phase = "none" <=> mailbox[i][o].phase = "none"
      /\ r.receipt = mailbox[i][o].receipt /\ r.expires = mailbox[i][o].expires
      /\ r.approved = mailbox[i][o].approved
      /\ r.executing = mailbox[i][o].executing
  BY RecordFacts, LapsedOK
<1>2. claims \subseteq claims' /\ claims' \subseteq Claims /\ now' \in Nat
  BY DEF Inv, TypeOK
<1>3. Answered(i, o)
  BY RecordFacts
<1>4. \A x \in r.receipt :
        /\ x.gen = link[i].gen
        /\ x.at < r.expires
        /\ \E e \in r.executing : e <= x.at
        /\ \E a \in r.approved :
             [instance |-> i, op |-> o, gen |-> x.gen, approved |-> a,
              expires |-> r.expires] \in claims
  BY <1>1, <1>3 DEF Answered
<1> HIDE DEF r
<1>5. mailbox' = [mailbox EXCEPT ![i][o] = r]
  BY DEF r
<1> QED  BY <1>1, <1>2, <1>4, <1>5, OneRecordChanged

LEMMA ReadInv ==
  ASSUME Inv, NEW i \in Instances, NEW o \in Operations, Read(i, o)
  PROVE  Inv'
<1>1. mailbox' = [mailbox EXCEPT ![i][o] = Lapsed(mailbox[i][o])]
  BY DEF Read, Inv, TypeOK
<1> QED  BY <1>1, LookInv DEF Read

LEMMA ReadNextInv ==
  ASSUME Inv, NEW i \in Instances, ReadNext(i)
  PROVE  Inv'
<1>1. mailbox \in [Instances -> [Operations -> Record]]
  BY DEF Inv, TypeOK
<1>2. ASSUME NEW j \in Instances, NEW q \in Operations
      PROVE  mailbox'[j][q] = IF j = i THEN Lapsed(mailbox[j][q]) ELSE mailbox[j][q]
  BY <1>1 DEF ReadNext
<1>3. ASSUME NEW q \in Operations
      PROVE  Lapsed(mailbox[i][q]) \in Record
  BY RecordFacts, LapsedOK
<1>4. mailbox' \in [Instances -> [Operations -> Record]]
  BY <1>1, <1>3 DEF ReadNext
<1>5. ASSUME NEW j \in Instances, NEW q \in Operations
      PROVE  /\ mailbox'[j][q].phase = "none" <=> mailbox[j][q].phase = "none"
             /\ RecordOK(mailbox'[j][q])
             /\ Answered(j, q)'
  <2>1. mailbox[j][q] \in Record /\ RecordOK(mailbox[j][q]) /\ Answered(j, q)
        /\ now \in Nat
    BY RecordFacts
  <2>2. link' = link /\ claims' = claims
    BY DEF ReadNext
  <2>3. CASE j = i
    <3>1. mailbox'[j][q] = Lapsed(mailbox[j][q])
      BY <1>2, <2>3
    <3> DEFINE r == Lapsed(mailbox[j][q])
    <3>2. /\ RecordOK(r)
          /\ r.phase = "none" <=> mailbox[j][q].phase = "none"
          /\ r.receipt = mailbox[j][q].receipt /\ r.expires = mailbox[j][q].expires
          /\ r.approved = mailbox[j][q].approved
          /\ r.executing = mailbox[j][q].executing
      BY <2>1, LapsedOK
    <3> HIDE DEF r
    <3>3. mailbox'[j][q] = r
      BY <3>1 DEF r
    <3>4. Answered(j, q)'
      BY <2>1, <2>2, <3>2, <3>3 DEF Answered
    <3> QED  BY <3>2, <3>3, <3>4
  <2>4. CASE j # i
    BY <1>2, <2>1, <2>2, <2>4 DEF Answered
  <2> QED  BY <2>3, <2>4
<1>6. now' \in Nat /\ UNCHANGED <<connections, link, owner>>
      /\ claims \subseteq claims' /\ claims' \subseteq Claims
  BY DEF ReadNext, Inv, TypeOK
<1> QED  BY <1>4, <1>5, <1>6, RecordsChanged

\* A record that has no receipt after the step.
LEMMA UnansweredInv ==
  ASSUME Inv, now' \in Nat,
         UNCHANGED <<connections, link, owner>>,
         claims \subseteq claims', claims' \subseteq Claims,
         NEW i \in Instances, NEW o \in Operations, NEW r \in Record,
         RecordOK(r), r.receipt = {}, r.phase # "none",
         mailbox' = [mailbox EXCEPT ![i][o] = r],
         mailbox[i][o].phase # "none"
  PROVE  Inv'
BY OneRecordChanged

LEMMA ClaimInv ==
  ASSUME Inv, NEW i \in Instances, NEW o \in Operations, NEW t \in Times,
         Claim(i, o, t)
  PROVE  Inv'
<1> DEFINE r == Lapsed(mailbox[i][o])
<1>1. /\ r \in Record /\ RecordOK(r) /\ r.phase = "awaiting_user"
      /\ mailbox[i][o].phase # "none" /\ now \in Nat /\ t \in Nat
  BY RecordFacts, LapsedOK DEF Claim, Times
<1>2. r.receipt = {} /\ ~r.fromExecuting /\ r.executing = {}
  BY <1>1 DEF RecordOK
<1>3. now' \in Nat /\ UNCHANGED <<connections, link, owner>>
  BY <1>1 DEF Claim
<1>4. CASE t < r.expires
  <2> DEFINE n == [r EXCEPT !.approved = {now}, !.phase = "executing",
                            !.executing = {t}]
             c == [instance |-> i, op |-> o, gen |-> link[i].gen,
                   approved |-> now, expires |-> r.expires]
  <2>1. mailbox' = [mailbox EXCEPT ![i][o] = n] /\ claims' = claims \cup {c}
    BY <1>1, <1>4 DEF Claim, Record
  <2>2. n \in Record /\ n.receipt = {} /\ n.phase = "executing" /\ ~n.fromExecuting
    BY <1>1, <1>2 DEF Record, Phases
  <2>3. RecordOK(n)
    BY <2>2 DEF RecordOK
  <2>4. c \in Claims
    BY <1>1 DEF Claims, Record, Inv, TypeOK, Link
  <2>5. claims \subseteq claims' /\ claims' \subseteq Claims
    BY <2>1, <2>4 DEF Inv, TypeOK
  <2> HIDE DEF n
  <2> QED  BY <1>1, <1>3, <2>1, <2>2, <2>3, <2>5, UnansweredInv
<1>5. CASE ~(t < r.expires)
  <2> DEFINE n == [r EXCEPT !.approved = {now}, !.phase = "expired"]
  <2>1. mailbox' = [mailbox EXCEPT ![i][o] = n] /\ claims' = claims
    BY <1>1, <1>5 DEF Claim, Record
  <2>2. n \in Record /\ n.receipt = {} /\ n.phase = "expired"
    BY <1>1, <1>2 DEF Record, Phases
  <2>3. RecordOK(n)
    BY <2>2 DEF RecordOK
  <2>4. claims \subseteq claims' /\ claims' \subseteq Claims
    BY <2>1 DEF Inv, TypeOK
  <2> HIDE DEF n
  <2> QED  BY <1>1, <1>3, <2>1, <2>2, <2>3, <2>4, UnansweredInv
<1> QED  BY <1>4, <1>5

LEMMA RejectInv ==
  ASSUME Inv, NEW i \in Instances, NEW o \in Operations, Reject(i, o)
  PROVE  Inv'
<1> DEFINE r == Lapsed(mailbox[i][o])
           n == [r EXCEPT !.phase = "rejected"]
<1>1. /\ r \in Record /\ RecordOK(r) /\ r.phase = "awaiting_user"
      /\ mailbox[i][o].phase # "none" /\ now \in Nat
  BY RecordFacts, LapsedOK DEF Reject
<1>2. n \in Record /\ n.receipt = {} /\ n.phase = "rejected"
  BY <1>1 DEF Record, Phases, RecordOK
<1>3. RecordOK(n)
  BY <1>2 DEF RecordOK
<1>4. mailbox' = [mailbox EXCEPT ![i][o] = n]
      /\ UNCHANGED <<now, connections, link, owner, claims>>
  BY DEF Reject
<1>5. claims' \subseteq Claims
  BY <1>4 DEF Inv, TypeOK
<1> HIDE DEF n
<1> QED  BY <1>1, <1>2, <1>3, <1>4, <1>5, UnansweredInv

LEMMA FinalizeInv ==
  ASSUME Inv, NEW c \in claims, NEW status \in Statuses, NEW at \in Times,
         Finalize(c, status, at)
  PROVE  Inv'
<1> DEFINE i == c.instance
           o == c.op
           r == Lapsed(mailbox[i][o])
           x == [status |-> status, at |-> at, gen |-> c.gen]
           n == [r EXCEPT !.phase = PhaseOf(status), !.receipt = {x}]
<1>1. i \in Instances /\ o \in Operations /\ c \in Claims
  BY DEF Inv, TypeOK, Claims
<1>2. r \in Record /\ RecordOK(r) /\ mailbox[i][o].phase # "none"
      /\ r.approved = mailbox[i][o].approved
      /\ r.expires = mailbox[i][o].expires
  BY <1>1, RecordFacts, LapsedOK DEF Finalize, Resolves
<1>3. Takes(r, at) /\ link[i].gen = c.gen /\ r.approved = {c.approved}
      /\ r.expires = c.expires
  BY <1>2 DEF Finalize, Resolves
<1>4. PhaseOf(status) \in Phases /\ PhaseOf(status) \notin {"none", "awaiting_user", "executing"}
  BY DEF PhaseOf, Phases
<1>5. x \in Receipt
  BY <1>1 DEF Receipt, Times, Claims
<1>6. n \in Record /\ n.receipt = {x} /\ n.phase = PhaseOf(status)
      /\ n.expires = r.expires /\ n.executing = r.executing
      /\ n.approved = r.approved
  BY <1>2, <1>4, <1>5 DEF Record
<1>7. RecordOK(n)
  BY <1>4, <1>6 DEF RecordOK
<1>8. c = [instance |-> i, op |-> o, gen |-> x.gen, approved |-> c.approved,
           expires |-> n.expires]
  BY <1>1, <1>3, <1>6 DEF Claims
<1>9. /\ x.gen = link[i].gen
      /\ x.at < n.expires
      /\ \E e \in n.executing : e <= x.at
      /\ \E a \in n.approved :
           [instance |-> i, op |-> o, gen |-> x.gen, approved |-> a,
            expires |-> n.expires] \in claims
  <2>1. c.approved \in n.approved
    BY <1>3, <1>6
  <2>2. x.at < n.expires /\ \E e \in n.executing : e <= x.at
    BY <1>3, <1>6 DEF Takes
  <2> QED  BY <1>3, <1>8, <2>1, <2>2
<1>10. mailbox' = [mailbox EXCEPT ![i][o] = n]
       /\ UNCHANGED <<now, connections, link, owner, claims>>
  BY DEF Finalize
<1>11. now' \in Nat /\ claims' \subseteq Claims /\ n.phase # "none"
  BY <1>4, <1>6, <1>10 DEF Inv, TypeOK
<1> HIDE DEF n, x, i, o
<1> QED  BY <1>1, <1>2, <1>6, <1>7, <1>9, <1>10, <1>11, OneRecordChanged

\* A proposal that is new becomes the only record of its id; one that is
\* repeated is looked at.
LEMMA SubmitInv ==
  ASSUME Inv, NEW o \in Operations, NEW p \in Proposal, Submit(o, p)
  PROVE  Inv'
<1> DEFINE i == p.instance
<1>1. i \in Instances /\ Connected(i)
  BY DEF Proposal, Submit, Live
<1>2. mailbox \in [Instances -> [Operations -> Record]]
      /\ owner \in [Operations -> Instances \cup {NoInstance}] /\ now \in Nat
  BY DEF Inv, TypeOK
<1>3. owner' = [owner EXCEPT ![o] = i]
      /\ UNCHANGED <<now, connections, link, claims>>
  BY DEF Submit
<1>4. CASE mailbox[i][o].phase # "none"
  <2>1. mailbox' = [mailbox EXCEPT ![i][o] = Lapsed(mailbox[i][o])]
    BY <1>4 DEF Submit
  <2>2. owner[o] = i
    BY <1>1, <1>4 DEF Inv, OwnersKnown
  <2>3. owner' = owner
    BY <1>2, <1>3, <2>2
  <2> QED  BY <1>1, <1>3, <2>1, <2>3, LookInv
<1>5. CASE mailbox[i][o].phase = "none"
  <2> DEFINE n == NewRecord(p)
  <2>1. mailbox' = [mailbox EXCEPT ![i][o] = n] /\ HasRoom(i)
    BY <1>5 DEF Submit
  <2>2. owner[o] = NoInstance
    BY <1>1, <1>5 DEF Submit, MayOwn, Inv, OwnersKnown
  <2>3. n \in Record /\ n.phase = "awaiting_user" /\ n.receipt = {}
        /\ n.executing = {} /\ ~n.fromExecuting
    <3>1. Ttl \in Nat /\ now + Ttl \in Nat
      BY <1>2
    <3>2. NoRecord \in Record /\ NoRecord.receipt = {}
          /\ NoRecord.executing = {} /\ ~NoRecord.fromExecuting
      BY NoRecordOK DEF NoRecord
    <3>3. "awaiting_user" \in Phases /\ {p} \in SUBSET Proposal
      BY DEF Phases
    <3> QED  BY <3>1, <3>2, <3>3 DEF NewRecord, Record
  <2> HIDE DEF n
  <2>4. ASSUME NEW j \in Instances, NEW q \in Operations
        PROVE  mailbox'[j][q] = IF j = i /\ q = o THEN n ELSE mailbox[j][q]
    BY <1>2, <2>1
  <2>5. ASSUME NEW j \in Instances
        PROVE  Size(j)' <= MaxOperations
    <3>1. CASE j = i
      BY <1>1, <2>1, <2>4, <3>1, SizeAdded DEF Inv
    <3>2. CASE j # i
      BY <2>4, <3>2, SizeKept DEF Inv
    <3> QED  BY <3>1, <3>2
  <2>6. TypeOK'
    BY <1>1, <1>2, <1>3, <2>1, <2>3, <2>5 DEF Inv, TypeOK
  <2>7. LinksOK'
    BY <1>3 DEF Inv, LinksOK, Connected
  <2>8. OwnersKnown'
    <3> SUFFICES ASSUME NEW j \in Instances, NEW q \in Operations
                 PROVE  /\ mailbox'[j][q].phase # "none" => owner'[q] = j /\ Connected(j)'
                        /\ owner'[q] = j /\ Connected(j)' => mailbox'[j][q].phase # "none"
      BY DEF OwnersKnown
    <3>1. CASE q = o
      <4>1. j # i => mailbox[j][q].phase = "none"
        BY <2>2, <3>1 DEF Inv, OwnersKnown
      <4> QED  BY <1>1, <1>2, <1>3, <2>3, <2>4, <3>1, <4>1 DEF Connected
    <3>2. CASE q # o
      BY <1>2, <1>3, <2>4, <3>2 DEF Inv, OwnersKnown, Connected
    <3> QED  BY <3>1, <3>2
  <2>9. RecordsOK'
    <3> SUFFICES ASSUME NEW j \in Instances, NEW q \in Operations
                 PROVE  RecordOK(mailbox'[j][q]) /\ Answered(j, q)'
      BY DEF RecordsOK
    <3>1. CASE j = i /\ q = o
      BY <2>3, <2>4, <3>1 DEF RecordOK, Answered
    <3>2. CASE ~(j = i /\ q = o)
      <4>1. RecordOK(mailbox[j][q]) /\ Answered(j, q)
        BY RecordFacts
      <4>2. mailbox'[j][q] = mailbox[j][q]
        BY <2>4, <3>2
      <4> QED  BY <1>3, <4>1, <4>2 DEF Answered
    <3> QED  BY <3>1, <3>2
  <2> QED  BY <2>6, <2>7, <2>8, <2>9 DEF Inv
<1> QED  BY <1>4, <1>5

LEMMA StepInv ==
  Inv /\ [Next]_vars => Inv'
<1> SUFFICES ASSUME Inv, [Next]_vars PROVE Inv'
  OBVIOUS
<1>1. CASE UNCHANGED vars
  BY <1>1, QuietInv DEF vars, Inv, TypeOK
<1>2. ASSUME NEW i \in Instances, Pair(i)
      PROVE  Inv'
  BY <1>2, PairInv
<1>3. ASSUME NEW i \in Instances, Disconnect(i) \/ Revoke(i)
      PROVE  Inv'
  BY <1>3, DisconnectInv
<1>4. ASSUME NEW i \in Instances,
             \/ ClearSharedCapture(i)
             \/ Heartbeat(i)
             \/ \E s \in Snapshot : Publish(i, s)
      PROVE  Inv'
  BY <1>4, ShareInv
<1>5. ASSUME NEW i \in Instances, ReadNext(i)
      PROVE  Inv'
  BY <1>5, ReadNextInv
<1>6. ASSUME NEW i \in Instances, NEW o \in Operations, Read(i, o)
      PROVE  Inv'
  BY <1>6, ReadInv
<1>7. ASSUME NEW i \in Instances, NEW o \in Operations, Reject(i, o)
      PROVE  Inv'
  BY <1>7, RejectInv
<1>8. ASSUME NEW i \in Instances, NEW o \in Operations, NEW t \in Times,
             Claim(i, o, t)
      PROVE  Inv'
  BY <1>8, ClaimInv
<1>9. ASSUME NEW o \in Operations, NEW p \in Proposal, Submit(o, p)
      PROVE  Inv'
  BY <1>9, SubmitInv
<1>10. ASSUME NEW c \in claims, NEW status \in Statuses, NEW at \in Times,
              Finalize(c, status, at)
       PROVE  Inv'
  BY <1>10, FinalizeInv
<1>11. ASSUME NEW t \in Times, SetClock(t)
       PROVE  Inv'
  BY <1>11, SetClockInv
<1> QED
  BY <1>1, <1>2, <1>3, <1>4, <1>5, <1>6, <1>7, <1>8, <1>9, <1>10, <1>11 DEF Next

\* The inductive invariant of the mailbox.
THEOREM MailboxInvariant ==
  Spec => []Inv
<1>1. Init => Inv
  BY InitInv
<1>2. Inv /\ [Next]_vars => Inv'
  BY StepInv
<1> QED  BY <1>1, <1>2, PTL DEF Spec

\* Records keep their shape, and no mailbox holds more than its capacity.
THEOREM MailboxTyped ==
  Spec => []TypeOK
<1>1. Inv => TypeOK
  BY DEF Inv
<1> QED  BY <1>1, MailboxInvariant, PTL

\* Every operation has one owner, which holds it while it is connected.
THEOREM MailboxOwners ==
  Spec => []OwnersKnown
<1>1. Inv => OwnersKnown
  BY DEF Inv
<1> QED  BY <1>1, MailboxInvariant, PTL

\* Every receipt that is kept answers a claim of the same connection.
THEOREM MailboxReceipts ==
  Spec => []ReceiptsAnswerClaims
<1>1. Inv => ReceiptsAnswerClaims
  BY DEF Inv, RecordsOK, Answered, ReceiptsAnswerClaims
<1> QED  BY <1>1, MailboxInvariant, PTL

-----------------------------------------------------------------------------
\* Every proposal in a mailbox was compared with the browser's snapshot.

\* The body of SubmittedAsShown.
Shown ==
  \A i \in Instances, o \in Operations :
    mailbox[i][o].phase = "none" /\ mailbox'[i][o].phase # "none" =>
      \E s \in link[i].snapshot, p \in mailbox'[i][o].proposal :
        Binds(s, p) /\ s.sequence = p.sequence

\* Steps that make no record.
NoneMade ==
  \A i \in Instances, o \in Operations :
    mailbox[i][o].phase = "none" => mailbox'[i][o].phase = "none"

LEMMA SubmitShown ==
  ASSUME Inv, NEW o \in Operations, NEW p \in Proposal, Submit(o, p)
  PROVE  Shown
<1> DEFINE i == p.instance
           r == mailbox[i][o]
<1>1. i \in Instances /\ Connected(i) /\ mailbox \in [Instances -> [Operations -> Record]]
  BY DEF Proposal, Submit, Live, Inv, TypeOK
<1>2. CASE r.phase # "none"
  <2>1. mailbox' = [mailbox EXCEPT ![i][o] = Lapsed(r)]
    BY <1>2 DEF Submit
  <2> QED  BY <1>1, <1>2, <2>1 DEF Shown
<1>3. CASE r.phase = "none"
  <2>1. owner[o] = NoInstance
    BY <1>1, <1>3 DEF Submit, MayOwn, Inv, OwnersKnown
  <2>2. PICK s \in link[i].snapshot : Binds(s, p) /\ s.sequence = p.sequence
    BY <2>1 DEF Submit
  <2>3. mailbox' = [mailbox EXCEPT ![i][o] = NewRecord(p)]
    BY <1>3 DEF Submit
  <2>4. NewRecord(p).proposal = {p}
    BY DEF NewRecord, NoRecord
  <2>5. ASSUME NEW j \in Instances, NEW q \in Operations
        PROVE  mailbox'[j][q] = IF j = i /\ q = o THEN NewRecord(p) ELSE mailbox[j][q]
    BY <1>1, <2>3
  <2> QED  BY <2>2, <2>4, <2>5 DEF Shown
<1> QED  BY <1>2, <1>3

LEMMA OthersMakeNone ==
  ASSUME Inv, [Next]_vars,
         ~ \E o \in Operations, p \in Proposal : Submit(o, p)
  PROVE  NoneMade
<1> SUFFICES ASSUME NEW j \in Instances, NEW q \in Operations,
                    mailbox[j][q].phase = "none"
             PROVE  mailbox'[j][q].phase = "none"
  BY DEF NoneMade
<1>1. /\ mailbox \in [Instances -> [Operations -> Record]]
      /\ Lapsed(mailbox[j][q]).phase = "none"
      /\ Empty[q].phase = "none"
  BY RecordFacts, LapsedOK DEF Inv, TypeOK, Empty, NoRecord
<1>2. ASSUME NEW i \in Instances, Pair(i) \/ Disconnect(i) \/ Revoke(i)
      PROVE  mailbox'[j][q].phase = "none"
  BY <1>1, <1>2 DEF Pair, Disconnect, Revoke
<1>3. ASSUME NEW i \in Instances, ReadNext(i)
      PROVE  mailbox'[j][q].phase = "none"
  BY <1>1, <1>3 DEF ReadNext
<1>4. ASSUME NEW i \in Instances, NEW o \in Operations, Read(i, o)
      PROVE  mailbox'[j][q].phase = "none"
  BY <1>1, <1>4 DEF Read
<1>5. ASSUME NEW i \in Instances, NEW o \in Operations, NEW r,
             mailbox[i][o].phase # "none",
             mailbox' = [mailbox EXCEPT ![i][o] = r]
      PROVE  mailbox'[j][q].phase = "none"
  BY <1>1, <1>5
<1>6. ASSUME NEW i \in Instances, NEW o \in Operations,
             Lapsed(mailbox[i][o]).phase = "awaiting_user"
      PROVE  mailbox[i][o].phase # "none"
  BY <1>6, RecordFacts, LapsedOK
<1>7. ASSUME NEW i \in Instances, NEW o \in Operations, Reject(i, o)
      PROVE  mailbox'[j][q].phase = "none"
  BY <1>5, <1>6, <1>7 DEF Reject
<1>8. ASSUME NEW i \in Instances, NEW o \in Operations, NEW t \in Times,
             Claim(i, o, t)
      PROVE  mailbox'[j][q].phase = "none"
  <2>1. mailbox[i][o].phase # "none" /\ \E r : mailbox' = [mailbox EXCEPT ![i][o] = r]
    BY <1>6, <1>8 DEF Claim
  <2> QED  BY <1>5, <2>1
<1>9. ASSUME NEW c \in claims, NEW status \in Statuses, NEW at \in Times,
             Finalize(c, status, at)
      PROVE  mailbox'[j][q].phase = "none"
  <2>1. c.instance \in Instances /\ c.op \in Operations
    BY DEF Inv, TypeOK, Claims
  <2> QED  BY <1>5, <1>9, <2>1 DEF Finalize, Resolves
<1> QED
  BY <1>2, <1>3, <1>4, <1>7, <1>8, <1>9
  DEF Next, vars, ClearSharedCapture, Heartbeat, Publish, SetClock

\* A record is only made of a proposal the snapshot of that moment shows.
THEOREM MailboxSubmissions ==
  Spec => SubmittedAsShown
<1>1. ASSUME Inv, [Next]_vars
      PROVE  Shown
  <2>1. CASE \E o \in Operations, p \in Proposal : Submit(o, p)
    BY <1>1, <2>1, SubmitShown
  <2>2. CASE ~ \E o \in Operations, p \in Proposal : Submit(o, p)
    BY <1>1, <2>2, OthersMakeNone DEF NoneMade, Shown
  <2> QED  BY <2>1, <2>2
<1>2. Inv /\ [Next]_vars => [Shown]_vars
  BY <1>1
<1>3. Spec => [][Shown]_vars
  BY <1>2, MailboxInvariant, PTL DEF Spec
<1> QED  BY <1>3 DEF SubmittedAsShown, Shown

-----------------------------------------------------------------------------
\* The mailbox implements LifecycleOutcome.

Subs == (1 .. MaxConnections) \X Operations

\* What has a receipt settled on its status.
LEMMA AnsweredStatus ==
  ASSUME NEW r, NEW x, r.receipt = {x}, x.status \in Statuses
  PROVE  RecordStatus(r) = x.status
<1>1. RecordStatus(r) = CHOOSE s \in Statuses : \E y \in r.receipt : y.status = s
  BY DEF RecordStatus
<1> QED  BY <1>1

LEMMA OpenStatus ==
  ASSUME NEW r, r.receipt = {}
  PROVE  /\ r.phase = "none" => RecordStatus(r) = "unused"
         /\ r.phase = "awaiting_user" => RecordStatus(r) = "offered"
         /\ r.phase = "executing" => RecordStatus(r) = "claimed"
         /\ r.phase = "expired" /\ r.fromExecuting => RecordStatus(r) = "lapsed"
         /\ r.phase = "expired" /\ ~r.fromExecuting => RecordStatus(r) = "refused"
         /\ r.phase = "rejected" => RecordStatus(r) = "refused"
BY DEF RecordStatus

\* A look at the clock only ends what was offered or claimed.
LEMMA LapsedStatus ==
  ASSUME NEW r \in Record, RecordOK(r), now \in Nat
  PROVE  \/ RecordStatus(Lapsed(r)) = RecordStatus(r)
         \/ RecordStatus(r) = "offered" /\ RecordStatus(Lapsed(r)) = "refused"
         \/ RecordStatus(r) = "claimed" /\ RecordStatus(Lapsed(r)) = "lapsed"
<1>1. CASE Active(r) /\ now >= r.expires
  <2> DEFINE n == [r EXCEPT !.phase = "expired",
                            !.fromExecuting = r.phase = "executing"]
  <2>1. Lapsed(r) = n /\ r.receipt = {}
    BY <1>1 DEF Lapsed, RecordOK, Active
  <2>2. n.receipt = {} /\ n.phase = "expired"
        /\ n.fromExecuting = (r.phase = "executing")
    BY <2>1 DEF Record
  <2>3. r.phase = "awaiting_user" \/ r.phase = "executing"
    BY <1>1 DEF Active
  <2> HIDE DEF n
  <2> QED  BY <2>1, <2>2, <2>3, OpenStatus
<1>2. CASE ~(Active(r) /\ now >= r.expires)
  BY <1>2 DEF Lapsed
<1> QED  BY <1>1, <1>2

\* What a connection that exists was sent is what its mailbox says.
Placed ==
  \A i \in Instances, o \in Operations :
    Connected(i) =>
      /\ link[i].gen \in 1 .. MaxConnections
      /\ StatusOf(link[i].gen, o) = RecordStatus(mailbox[i][o])

LEMMA StatusHere ==
  Inv => Placed
<1> SUFFICES ASSUME Inv, NEW i \in Instances, NEW o \in Operations, Connected(i)
             PROVE  /\ link[i].gen \in 1 .. MaxConnections
                    /\ StatusOf(link[i].gen, o) = RecordStatus(mailbox[i][o])
  BY DEF Placed
<1>1. link[i].gen \in Nat /\ connections \in Nat /\ MaxConnections \in Nat
  BY DEF Inv, TypeOK, Link
<1>2. At(link[i].gen) = {i}
  BY DEF At, Inv, LinksOK
<1>3. (CHOOSE j \in {i} : TRUE) = i
  OBVIOUS
<1> QED  BY <1>1, <1>2, <1>3 DEF StatusOf, Inv, LinksOK, Connected

\* What other connections were sent is gone, or they are yet to come.
LEMMA StatusElsewhere ==
  \A g \in 1 .. MaxConnections, o \in Operations :
    (\A i \in Instances : link[i].gen # g) =>
      StatusOf(g, o) = IF g <= connections THEN "gone" ELSE "unused"
BY DEF StatusOf, At

\* While connections stay, a status changes only with its record.
LEMMA SameConnections ==
  ASSUME Inv, Inv', connections' = connections,
         \A i \in Instances : link'[i].gen = link[i].gen,
         NEW s \in Subs
  PROVE  \/ Became'[s] = Became[s]
         \/ \E i \in Instances :
              /\ Connected(i) /\ link[i].gen = s[1]
              /\ Became[s] = RecordStatus(mailbox[i][s[2]])
              /\ Became'[s] = RecordStatus(mailbox'[i][s[2]])
<1>1. s[1] \in 1 .. MaxConnections /\ s[2] \in Operations /\ s = <<s[1], s[2]>>
  BY DEF Subs
<1>2. Became[s] = StatusOf(s[1], s[2]) /\ Became'[s] = StatusOf(s[1], s[2])'
  BY <1>1 DEF Became
<1>3. CASE \A i \in Instances : link[i].gen # s[1]
  <2>1. StatusOf(s[1], s[2]) = IF s[1] <= connections THEN "gone" ELSE "unused"
    BY <1>1, <1>3, StatusElsewhere
  <2>2. StatusOf(s[1], s[2])' = IF s[1] <= connections' THEN "gone" ELSE "unused"
    BY <1>1, <1>3 DEF StatusOf, At
  <2> QED  BY <1>2, <2>1, <2>2
<1>4. CASE \E i \in Instances : link[i].gen = s[1]
  <2>1. PICK i \in Instances : link[i].gen = s[1]
    BY <1>4
  <2>2. Connected(i) /\ Connected(i)'
    BY <1>1, <2>1 DEF Connected
  <2>3. StatusOf(s[1], s[2]) = RecordStatus(mailbox[i][s[2]])
    BY <1>1, <2>1, <2>2, StatusHere DEF Placed
  <2>4. Placed'
    BY StatusHere, PTL
  <2>5. StatusOf(link[i].gen, s[2])' = RecordStatus(mailbox'[i][s[2]])
    BY <1>1, <2>2, <2>4 DEF Placed
  <2>6. StatusOf(s[1], s[2])' = RecordStatus(mailbox'[i][s[2]])
    BY <2>1, <2>5 DEF StatusOf, At
  <2> QED  BY <1>2, <2>1, <2>2, <2>3, <2>6
<1> QED  BY <1>3, <1>4

\* Actions that change no record change no status.
LEMMA QuietBecame ==
  ASSUME Inv, Inv', connections' = connections, mailbox' = mailbox,
         \A i \in Instances : link'[i].gen = link[i].gen
  PROVE  UNCHANGED Became
<1>1. \A s \in Subs : Became'[s] = Became[s]
  BY SameConnections
<1> QED  BY <1>1 DEF Became, Subs

\* Looks at records are an Expire.
LEMMA LookBecame ==
  ASSUME Inv, Inv', UNCHANGED <<connections, link>>,
         \A j \in Instances, q \in Operations :
           mailbox'[j][q] \in {mailbox[j][q], Lapsed(mailbox[j][q])}
  PROVE  Outcome!Next
<1> DEFINE over == {s \in Subs : Became'[s] # Became[s]}
<1>1. ASSUME NEW s \in over
      PROVE  \/ Became[s] = "offered" /\ Became'[s] = "refused"
             \/ Became[s] = "claimed" /\ Became'[s] = "lapsed"
  <2>1. PICK i \in Instances :
          /\ Became[s] = RecordStatus(mailbox[i][s[2]])
          /\ Became'[s] = RecordStatus(mailbox'[i][s[2]])
    BY SameConnections
  <2>2. s[2] \in Operations
    BY DEF Subs
  <2> QED  BY <2>1, <2>2, RecordFacts, LapsedStatus
<1>2. Became' = [s \in Subs |-> Became'[s]]
  BY DEF Became, Subs
<1>3. Became' = [s \in Subs |-> IF s \notin over THEN Became[s]
                               ELSE IF Became[s] = "offered" THEN "refused" ELSE "lapsed"]
  BY <1>1, <1>2
<1>4. \A s \in over : Became[s] \in {"offered", "claimed"}
  BY <1>1
<1>5. over \in SUBSET Subs
  OBVIOUS
<1> HIDE DEF over
<1>6. Outcome!Expire(over)
  BY <1>3, <1>4 DEF Outcome!Expire, Outcome!Submissions, Subs
<1> QED  BY <1>5, <1>6 DEF Outcome!Next, Outcome!Submissions, Subs

\* The change of one record is the change of one status.
LEMMA OneBecame ==
  ASSUME Inv, Inv', UNCHANGED <<connections, link>>,
         NEW i \in Instances, NEW o \in Operations, NEW r, Connected(i),
         mailbox' = [mailbox EXCEPT ![i][o] = r]
  PROVE  /\ <<link[i].gen, o>> \in Subs
         /\ Became[<<link[i].gen, o>>] = RecordStatus(mailbox[i][o])
         /\ Became' = [Became EXCEPT ![<<link[i].gen, o>>] = RecordStatus(r)]
<1> DEFINE s == <<link[i].gen, o>>
<1>1. link[i].gen \in 1 .. MaxConnections
      /\ StatusOf(link[i].gen, o) = RecordStatus(mailbox[i][o])
  BY StatusHere DEF Placed
<1>2. s \in Subs
  BY <1>1 DEF Subs
<1>3. Became[s] = RecordStatus(mailbox[i][o])
  BY <1>1, <1>2 DEF Became, Subs
<1>4. mailbox \in [Instances -> [Operations -> Record]]
  BY DEF Inv, TypeOK
<1>5. mailbox'[i][o] = r
  BY <1>4
<1>6. Became'[s] = RecordStatus(r)
  <2>1. Connected(i)'
    BY DEF Connected
  <2>2. Placed'
    BY StatusHere, PTL
  <2>3. StatusOf(link[i].gen, o)' = RecordStatus(r)
    BY <1>5, <2>1, <2>2 DEF Placed
  <2>4. Became'[s] = StatusOf(link[i].gen, o)'
    BY <1>1 DEF Became
  <2> QED  BY <2>3, <2>4
<1>7. ASSUME NEW z \in Subs, z # s
      PROVE  Became'[z] = Became[z]
  <2>1. z = <<z[1], z[2]>> /\ z[2] \in Operations
    BY DEF Subs
  <2>2. ASSUME NEW j \in Instances, Connected(j), link[j].gen = z[1]
        PROVE  mailbox'[j][z[2]] = mailbox[j][z[2]]
    <3>1. j # i \/ z[2] # o
      BY <1>7, <2>1, <2>2
    <3> QED  BY <1>4, <2>1, <3>1
  <2> QED  BY <2>2, SameConnections
<1>8. Became' = [z \in Subs |-> Became'[z]] /\ Became = [z \in Subs |-> Became[z]]
  BY DEF Became, Subs
<1>9. Became' = [Became EXCEPT ![s] = RecordStatus(r)]
  BY <1>2, <1>6, <1>7, <1>8
<1> QED  BY <1>2, <1>3, <1>9

\* When a browser is disconnected or paired again, what it was sent is gone,
\* and nothing else changes.
LEMMA UnlinkBecame ==
  ASSUME Inv, Inv', NEW i \in Instances, NEW l \in Link,
         \/ l.gen = 0 /\ connections' = connections
         \/ l.gen = connections + 1 /\ connections' = connections + 1,
         link' = [link EXCEPT ![i] = l],
         mailbox' = [mailbox EXCEPT ![i] = Empty]
  PROVE  Outcome!Next \/ UNCHANGED Became
<1> DEFINE g == link[i].gen
<1>1. /\ link \in [Instances -> Link] /\ mailbox \in [Instances -> [Operations -> Record]]
      /\ connections \in Nat /\ MaxConnections \in Nat
      /\ \A j \in Instances : link[j].gen \in Nat /\ link[j].gen <= connections
  BY DEF Inv, TypeOK, LinksOK, Link
<1>2. ASSUME NEW j \in Instances, j # i
      PROVE  link'[j] = link[j] /\ mailbox'[j] = mailbox[j]
  BY <1>1, <1>2
<1>3. link'[i] = l /\ mailbox'[i] = Empty
  BY <1>1
<1>4. Placed /\ Placed'
  BY StatusHere, PTL
<1>5. ASSUME NEW s \in Subs
      PROVE  Became'[s] = IF s[1] = g THEN "gone" ELSE Became[s]
  <2>1. s[1] \in 1 .. MaxConnections /\ s[2] \in Operations /\ s = <<s[1], s[2]>>
    BY DEF Subs
  <2>2. Became[s] = StatusOf(s[1], s[2]) /\ Became'[s] = StatusOf(s[1], s[2])'
    BY <2>1 DEF Became
  <2>3. ASSUME \A j \in Instances : link'[j].gen # s[1]
        PROVE  Became'[s] = IF s[1] <= connections' THEN "gone" ELSE "unused"
    BY <2>1, <2>2, <2>3 DEF StatusOf, At
  <2>4. CASE s[1] = g
    <3>1. ASSUME NEW j \in Instances PROVE link'[j].gen # s[1]
      <4>1. CASE j = i
        BY <1>1, <1>3, <2>1, <2>4, <4>1
      <4>2. CASE j # i
        BY <1>2, <2>1, <2>4, <4>2 DEF Inv, LinksOK, Connected
      <4> QED  BY <4>1, <4>2
    <3>2. s[1] <= connections'
      BY <1>1, <2>4
    <3> QED  BY <2>3, <2>4, <3>1, <3>2
  <2>5. ASSUME NEW j \in Instances, j # i, link[j].gen = s[1]
        PROVE  Became'[s] = Became[s]
    <3>1. Connected(j) /\ StatusOf(s[1], s[2]) = RecordStatus(mailbox[j][s[2]])
      BY <1>4, <2>1, <2>5 DEF Placed, Connected
    <3>2. Connected(j)' /\ link'[j].gen = s[1]
      BY <1>2, <2>5, <3>1 DEF Connected
    <3>3. StatusOf(link[j].gen, s[2])' = RecordStatus(mailbox'[j][s[2]])
      BY <1>4, <2>1, <3>2 DEF Placed
    <3>4. StatusOf(s[1], s[2])' = RecordStatus(mailbox'[j][s[2]])
      BY <3>2, <3>3 DEF StatusOf, At
    <3> QED  BY <1>2, <2>2, <2>5, <3>1, <3>4
  <2>6. CASE \A j \in Instances : link[j].gen # s[1]
    <3>1. Became[s] = IF s[1] <= connections THEN "gone" ELSE "unused"
      BY <2>1, <2>2, <2>6, StatusElsewhere
    <3>2. CASE l.gen = s[1]
      <4>1. Became[s] = "unused"
        BY <1>1, <2>1, <3>1, <3>2
      <4>2. Connected(i)' /\ link'[i].gen = s[1]
        BY <1>3, <2>1, <3>2 DEF Connected
      <4>3. StatusOf(link[i].gen, s[2])' = RecordStatus(mailbox'[i][s[2]])
        BY <1>4, <2>1, <4>2 DEF Placed
      <4>4. StatusOf(s[1], s[2])' = RecordStatus(mailbox'[i][s[2]])
        BY <4>2, <4>3 DEF StatusOf, At
      <4>5. RecordStatus(Empty[s[2]]) = "unused"
        BY <2>1, OpenStatus DEF Empty, NoRecord
      <4> QED  BY <1>3, <2>2, <2>6, <4>1, <4>4, <4>5
    <3>3. CASE l.gen # s[1]
      <4>1. \A j \in Instances : link'[j].gen # s[1]
        BY <1>2, <1>3, <2>6, <3>3
      <4>2. s[1] <= connections' <=> s[1] <= connections
        <5>1. s[1] \in Nat /\ l.gen \in Nat
          BY <2>1 DEF Link
        <5>2. CASE connections' = connections
          BY <5>2
        <5>3. CASE l.gen = connections + 1 /\ connections' = connections + 1
          <6>1. \A x, y \in Nat : x # y + 1 => (x <= y + 1 <=> x <= y)
            OBVIOUS
          <6>2. s[1] # connections + 1
            BY <3>3, <5>3
          <6> QED  BY <1>1, <5>1, <5>3, <6>1, <6>2
        <5> QED  BY <5>2, <5>3
      <4> QED  BY <2>3, <2>6, <3>1, <4>1, <4>2
    <3> QED  BY <3>2, <3>3
  <2> QED  BY <2>4, <2>5, <2>6
<1>6. Became' = [s \in Subs |-> Became'[s]] /\ Became = [s \in Subs |-> Became[s]]
  BY DEF Became, Subs
<1>7. CASE g = 0
  <2>1. \A s \in Subs : Became'[s] = Became[s]
    BY <1>5, <1>7 DEF Subs
  <2> QED  BY <1>6, <2>1
<1>8. CASE g # 0
  <2>1. g \in 1 .. MaxConnections
    BY <1>1, <1>8 DEF Inv, LinksOK
  <2>2. Became' = [s \in Subs |-> IF s[1] = g THEN "gone" ELSE Became[s]]
    BY <1>5, <1>6
  <2>3. Outcome!Drop(g)
    BY <2>2 DEF Outcome!Drop, Outcome!Submissions, Subs
  <2> QED  BY <2>1, <2>3 DEF Outcome!Next
<1> QED  BY <1>7, <1>8

\* The change of one record that is a Move or a Settle.
LEMMA MoveBecame ==
  ASSUME Inv, Inv', UNCHANGED <<connections, link>>,
         NEW i \in Instances, NEW o \in Operations, NEW r, Connected(i),
         mailbox' = [mailbox EXCEPT ![i][o] = r],
         \/ /\ RecordStatus(mailbox[i][o]) = "unused"
            /\ RecordStatus(r) = "offered"
         \/ /\ RecordStatus(mailbox[i][o]) = "offered"
            /\ RecordStatus(r) \in {"claimed", "refused"}
         \/ /\ RecordStatus(mailbox[i][o]) \in {"claimed", "lapsed"}
            /\ RecordStatus(r) \in Statuses
  PROVE  Outcome!Next
<1> DEFINE s == <<link[i].gen, o>>
<1>1. /\ s \in Subs
      /\ Became[s] = RecordStatus(mailbox[i][o])
      /\ Became' = [Became EXCEPT ![s] = RecordStatus(r)]
  BY OneBecame
<1> HIDE DEF s
<1> QED
  BY <1>1 DEF Outcome!Next, Outcome!Move, Outcome!Settle, Outcome!Submissions, Subs

\* The initial state promises nothing yet.
LEMMA InitBecame ==
  Init => Outcome!Init
<1> SUFFICES ASSUME Init PROVE Outcome!Init
  OBVIOUS
<1>1. ASSUME NEW s \in Subs
      PROVE  Became[s] = "unused"
  <2>1. s[1] \in 1 .. MaxConnections /\ s[2] \in Operations /\ s = <<s[1], s[2]>>
    BY DEF Subs
  <2>2. \A i \in Instances : link[i].gen # s[1]
    BY <2>1 DEF Init, NoLink
  <2>3. StatusOf(s[1], s[2]) = "unused"
    BY <2>1, <2>2, StatusElsewhere DEF Init
  <2> QED  BY <2>1, <2>3 DEF Became
<1> QED  BY <1>1 DEF Outcome!Init, Outcome!Submissions, Became, Subs

LEMMA SubmitBecame ==
  ASSUME Inv, Inv', NEW o \in Operations, NEW p \in Proposal, Submit(o, p)
  PROVE  Outcome!Next
<1> DEFINE i == p.instance
           r == mailbox[i][o]
<1>1. i \in Instances /\ Connected(i) /\ UNCHANGED <<connections, link>>
      /\ mailbox \in [Instances -> [Operations -> Record]]
  BY DEF Proposal, Submit, Live, Inv, TypeOK
<1>2. CASE r.phase # "none"
  <2>1. mailbox' = [mailbox EXCEPT ![i][o] = Lapsed(r)]
    BY <1>2 DEF Submit
  <2>2. \A j \in Instances, q \in Operations :
          mailbox'[j][q] \in {mailbox[j][q], Lapsed(mailbox[j][q])}
    BY <1>1, <2>1
  <2> QED  BY <1>1, <2>2, LookBecame
<1>3. CASE r.phase = "none"
  <2> DEFINE n == NewRecord(p)
  <2>1. mailbox' = [mailbox EXCEPT ![i][o] = n]
    BY <1>3 DEF Submit
  <2>2. n.phase = "awaiting_user" /\ n.receipt = {}
    BY DEF NewRecord, NoRecord
  <2>3. r.receipt = {}
    BY <1>1, <1>3, RecordFacts DEF RecordOK, NoRecord
  <2>4. RecordStatus(r) = "unused" /\ RecordStatus(n) = "offered"
    BY <1>3, <2>2, <2>3, OpenStatus
  <2> HIDE DEF n
  <2> QED  BY <1>1, <2>1, <2>4, MoveBecame
<1> QED  BY <1>2, <1>3

LEMMA ClaimBecame ==
  ASSUME Inv, Inv', NEW i \in Instances, NEW o \in Operations, NEW t \in Times,
         Claim(i, o, t)
  PROVE  Outcome!Next
<1> DEFINE r == mailbox[i][o]
<1>1. r \in Record /\ RecordOK(r) /\ now \in Nat /\ t \in Nat
      /\ Connected(i) /\ UNCHANGED <<connections, link>>
  BY RecordFacts DEF Claim, Times, Live
<1>2. Lapsed(r) = r /\ r.phase = "awaiting_user"
  BY <1>1, LapsedOK DEF Claim
<1>3. r.receipt = {} /\ ~r.fromExecuting /\ RecordStatus(r) = "offered"
  BY <1>1, <1>2, OpenStatus DEF RecordOK
<1>4. CASE t < r.expires
  <2> DEFINE n == [r EXCEPT !.approved = {now}, !.phase = "executing",
                            !.executing = {t}]
  <2>1. mailbox' = [mailbox EXCEPT ![i][o] = n]
    BY <1>1, <1>2, <1>4 DEF Claim, Record
  <2>2. n.receipt = {} /\ n.phase = "executing"
    BY <1>1, <1>3 DEF Record
  <2>3. RecordStatus(n) = "claimed"
    BY <2>2, OpenStatus
  <2> HIDE DEF n
  <2> QED  BY <1>1, <1>3, <2>1, <2>3, MoveBecame
<1>5. CASE ~(t < r.expires)
  <2> DEFINE n == [r EXCEPT !.approved = {now}, !.phase = "expired"]
  <2>1. mailbox' = [mailbox EXCEPT ![i][o] = n]
    BY <1>1, <1>2, <1>5 DEF Claim, Record
  <2>2. n.receipt = {} /\ n.phase = "expired" /\ ~n.fromExecuting
    BY <1>1, <1>3 DEF Record
  <2>3. RecordStatus(n) = "refused"
    BY <2>2, OpenStatus
  <2> HIDE DEF n
  <2> QED  BY <1>1, <1>3, <2>1, <2>3, MoveBecame
<1> QED  BY <1>4, <1>5

LEMMA RejectBecame ==
  ASSUME Inv, Inv', NEW i \in Instances, NEW o \in Operations, Reject(i, o)
  PROVE  Outcome!Next
<1> DEFINE r == mailbox[i][o]
           n == [r EXCEPT !.phase = "rejected"]
<1>1. r \in Record /\ RecordOK(r) /\ Connected(i)
      /\ UNCHANGED <<connections, link>>
  BY RecordFacts DEF Reject, Live
<1>2. Lapsed(r) = r /\ r.phase = "awaiting_user"
  BY RecordFacts, LapsedOK DEF Reject
<1>3. r.receipt = {} /\ RecordStatus(r) = "offered"
  BY <1>1, <1>2, OpenStatus DEF RecordOK
<1>4. mailbox' = [mailbox EXCEPT ![i][o] = n]
  BY <1>2 DEF Reject
<1>5. n.receipt = {} /\ n.phase = "rejected"
  BY <1>1, <1>3 DEF Record
<1>6. RecordStatus(n) = "refused"
  BY <1>5, OpenStatus
<1> HIDE DEF n
<1> QED  BY <1>1, <1>3, <1>4, <1>6, MoveBecame

LEMMA FinalizeBecame ==
  ASSUME Inv, Inv', NEW c \in claims, NEW status \in Statuses, NEW at \in Times,
         Finalize(c, status, at)
  PROVE  Outcome!Next
<1> DEFINE i == c.instance
           o == c.op
           r == mailbox[i][o]
           x == [status |-> status, at |-> at, gen |-> c.gen]
           n == [Lapsed(r) EXCEPT !.phase = PhaseOf(status), !.receipt = {x}]
<1>1. i \in Instances /\ o \in Operations
  BY DEF Inv, TypeOK, Claims
<1>2. r \in Record /\ RecordOK(r) /\ now \in Nat /\ Connected(i)
      /\ UNCHANGED <<connections, link>>
  BY <1>1, RecordFacts DEF Finalize, Live
<1>3. Lapsed(r) \in Record /\ RecordOK(Lapsed(r))
  BY <1>2, LapsedOK
<1>4. RecordStatus(Lapsed(r)) \in {"claimed", "lapsed"}
  <2>1. Takes(Lapsed(r), at)
    BY DEF Finalize
  <2>2. CASE Lapsed(r).phase = "executing"
    BY <1>3, <2>2, OpenStatus DEF RecordOK
  <2>3. CASE Lapsed(r).phase = "expired" /\ Lapsed(r).fromExecuting
             /\ Lapsed(r).receipt = {}
    BY <2>3, OpenStatus
  <2> QED  BY <2>1, <2>2, <2>3 DEF Takes
<1>5. RecordStatus(r) \in {"claimed", "lapsed"}
  BY <1>2, <1>4, LapsedStatus
<1>6. mailbox' = [mailbox EXCEPT ![i][o] = n]
  BY DEF Finalize
<1>7. n.receipt = {x} /\ x.status = status
  BY <1>3 DEF Record
<1>8. RecordStatus(n) \in Statuses
  BY <1>7, AnsweredStatus
<1> HIDE DEF n, i, o
<1> QED  BY <1>1, <1>2, <1>5, <1>6, <1>8, MoveBecame DEF i, o

LEMMA StepBecame ==
  ASSUME Inv, Inv', [Next]_vars
  PROVE  [Outcome!Next]_Became
<1>1. CASE UNCHANGED vars
  BY <1>1, QuietBecame DEF vars
<1>2. ASSUME NEW i \in Instances, Pair(i)
      PROVE  [Outcome!Next]_Became
  <2> DEFINE l == [NoLink EXCEPT !.gen = connections + 1]
  <2>1. l \in Link /\ l.gen = connections + 1
    BY DEF Inv, TypeOK, NoLink, Link
  <2>2. connections' = connections + 1 /\ link' = [link EXCEPT ![i] = l]
        /\ mailbox' = [mailbox EXCEPT ![i] = Empty]
    BY <1>2 DEF Pair
  <2> HIDE DEF l
  <2> QED  BY <2>1, <2>2, UnlinkBecame
<1>3. ASSUME NEW i \in Instances, Disconnect(i) \/ Revoke(i)
      PROVE  [Outcome!Next]_Became
  <2>1. NoLink \in Link /\ NoLink.gen = 0
    BY DEF NoLink, Link
  <2> QED  BY <1>3, <2>1, UnlinkBecame DEF Disconnect, Revoke
<1>4. ASSUME NEW i \in Instances,
             \/ ClearSharedCapture(i)
             \/ Heartbeat(i)
             \/ \E s \in Snapshot : Publish(i, s)
      PROVE  [Outcome!Next]_Became
  <2>1. link \in [Instances -> Link]
    BY DEF Inv, TypeOK
  <2>2. /\ connections' = connections /\ mailbox' = mailbox
        /\ \A j \in Instances : j # i => link'[j] = link[j]
    BY <1>4, <2>1 DEF ClearSharedCapture, Heartbeat, Publish
  <2>3. link'[i].gen = link[i].gen
    <3>1. ASSUME NEW x, NEW y
          PROVE  /\ [link[i] EXCEPT !.seen = x].gen = link[i].gen
                 /\ [link[i] EXCEPT !.snapshot = y, !.seen = x].gen = link[i].gen
      BY <2>1 DEF Link
    <3>2. CASE ClearSharedCapture(i)
      BY <2>1, <3>1, <3>2 DEF ClearSharedCapture
    <3>3. CASE Heartbeat(i)
      BY <2>1, <3>1, <3>3 DEF Heartbeat
    <3>4. CASE \E s \in Snapshot : Publish(i, s)
      BY <2>1, <3>1, <3>4 DEF Publish
    <3> QED  BY <1>4, <3>2, <3>3, <3>4
  <2> QED  BY <2>2, <2>3, QuietBecame
<1>5. ASSUME NEW i \in Instances,
             ReadNext(i) \/ \E o \in Operations : Read(i, o)
      PROVE  [Outcome!Next]_Became
  <2>1. mailbox \in [Instances -> [Operations -> Record]]
    BY DEF Inv, TypeOK
  <2>2. \A j \in Instances, q \in Operations :
          mailbox'[j][q] \in {mailbox[j][q], Lapsed(mailbox[j][q])}
    BY <1>5, <2>1 DEF Read, ReadNext
  <2> QED  BY <1>5, <2>2, LookBecame DEF Read, ReadNext
<1>6. ASSUME NEW i \in Instances, NEW o \in Operations, Reject(i, o)
      PROVE  [Outcome!Next]_Became
  BY <1>6, RejectBecame
<1>7. ASSUME NEW i \in Instances, NEW o \in Operations, NEW t \in Times,
             Claim(i, o, t)
      PROVE  [Outcome!Next]_Became
  BY <1>7, ClaimBecame
<1>8. ASSUME NEW o \in Operations, NEW p \in Proposal, Submit(o, p)
      PROVE  [Outcome!Next]_Became
  BY <1>8, SubmitBecame
<1>9. ASSUME NEW c \in claims, NEW status \in Statuses, NEW at \in Times,
             Finalize(c, status, at)
      PROVE  [Outcome!Next]_Became
  BY <1>9, FinalizeBecame
<1>10. ASSUME NEW t \in Times, SetClock(t)
       PROVE  [Outcome!Next]_Became
  BY <1>10, QuietBecame DEF SetClock
<1> QED
  BY <1>1, <1>2, <1>3, <1>4, <1>5, <1>6, <1>7, <1>8, <1>9, <1>10 DEF Next

\* Every behaviour of the mailbox keeps the promise of LifecycleOutcome.
THEOREM MailboxRefines ==
  Spec => ImplementsOutcome
<1>1. Init => Outcome!Init
  BY InitBecame
<1>2. Inv /\ Inv' /\ [Next]_vars => [Outcome!Next]_Became
  BY StepBecame
<1>3. Spec => Outcome!Spec
  BY <1>1, <1>2, MailboxInvariant, PTL DEF Spec, Outcome!Spec
<1> QED  BY <1>3 DEF ImplementsOutcome
=============================================================================
