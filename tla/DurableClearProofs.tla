------------------------- MODULE DurableClearProofs -------------------------
(***************************************************************************)
(* Proofs about the durable clear: its use of the journal is that of       *)
(* ClearJournal, what it writes can be read back, and journal and store    *)
(* never contradict each other, for any number of clears, requests,        *)
(* frames, moves of the user and faults.                                   *)
(***************************************************************************)
EXTENDS DurableClear, FiniteSetTheorems, TLAPS

-----------------------------------------------------------------------------
(* The types, stronger than TypeOK.                                        *)

Holding == {"prepared", "cleared", "drop"}
Places == Running \cup {"new", "looked", "asked", "settle", "gone", "done"}
Request(q) ==
  /\ q = [pc |-> q.pc, op |-> q.op, origin |-> q.origin, epoch |-> q.epoch,
          fresh |-> q.fresh, resumed |-> q.resumed, before |-> q.before, subs |-> q.subs,
          after |-> q.after, gen |-> q.gen, unsent |-> q.unsent, waiting |-> q.waiting,
          failed |-> q.failed, reply |-> q.reply]
  /\ q.pc \in Places /\ q.op \in Ops \cup {None} /\ q.epoch \in Nat
  /\ q.pc \notin {"new", "done"} => q.op \in Ops /\ q.origin \in Origins
  /\ q.fresh \in BOOLEAN /\ q.resumed \in BOOLEAN
  /\ Partial(q.before, Origins, Nat) /\ q.subs \subseteq Subject
  /\ q.unsent \subseteq Ref /\ q.waiting \subseteq Ref
Canonical(c) ==
  /\ c = [gen |-> c.gen, entry |-> c.entry]
  /\ c.gen \in Nat \ {0} /\ Partial(c.entry, Origins, Entry)
Attempt == Requests \cup {None, Boot}
Message == [kind : {"state", "restore"}, sub : Subject, epoch : Nat]
             \cup [kind : {"ask"}, sub : Subject]
             \cup [kind : {"tomb", "ack"}, sub : Subject, ref : Ref, after : Nat]

StoreTyped ==
  /\ epoch \in [Origins -> Nat] /\ made \in [Origins -> Nat] /\ gens \in Nat
  /\ DOMAIN canon \in SUBSET Ops /\ canon = [op \in DOMAIN canon |-> canon[op]]
  /\ \A op \in DOMAIN canon : Canonical(canon[op])
  /\ last \in [Origins -> Ops \cup {None}]
  /\ saved \subseteq Frames \X Origins \X Paths
PageTyped ==
  /\ live \in [Frames -> Subject] /\ closed \subseteq Frames
  /\ marks \in [Frames -> Nat]
  /\ moves \in 0 .. MaxMoves /\ \A f \in Frames : live[f].doc <= moves
  /\ net \subseteq Message /\ navs \subseteq Subject
RequestTyped ==
  /\ req = [r \in Requests |-> req[r]]
  /\ \A r \in Requests : Request(req[r])
WorkerTyped ==
  /\ alarm \in BOOLEAN /\ loaded \in BOOLEAN /\ reread \in BOOLEAN
  /\ barrier \in [Ops -> Attempt]
  /\ \A t \in tasks : t.sub \in Subject /\ t.todo \subseteq Ops
  /\ sends \subseteq Ref
  /\ recon \in [busy : BOOLEAN, again : BOOLEAN, todo : SUBSET Ops, held : Ops \cup {None},
                att : Attempt, drop : BOOLEAN, drains : BOOLEAN]
  /\ drain \in [busy : BOOLEAN, again : BOOLEAN, batch : SUBSET Ref, waiting : SUBSET Ref]
  /\ fin \in [Ops -> [pc : {"idle", "asked", "half"}, att : Attempt]]
Typed == JournalTypeOK /\ StoreTyped /\ PageTyped /\ RequestTyped /\ WorkerTyped

-----------------------------------------------------------------------------
(* The inductive invariant.                                                *)

\* What one process at a time may do to an operation: the request that clears it,
\* the reconcile pass or a finalisation holds its lease.
Holds(r, op) == req[r].op = op /\ req[r].pc \in Holding
LeaseOK ==
  /\ \A r, q \in Requests : r # q /\ req[r].pc \in Holding => ~Holds(q, req[r].op)
  /\ \A r \in Requests : req[r].pc \in Holding =>
       recon.held # req[r].op /\ fin[req[r].op].pc # "half"
  /\ \A op \in Ops : recon.held = op => fin[op].pc # "half"

\* What the holder of the lease knows.
HolderOK ==
  /\ \A r \in Requests : req[r].pc = "prepared" =>
       /\ Present(req[r].op) /\ ~Bound(req[r].op)
       /\ req[r].before = journal[req[r].op].before
  /\ \A r \in Requests : req[r].pc = "cleared" =>
       /\ Present(req[r].op) /\ ~Bound(req[r].op) /\ Settled(req[r].op)
  /\ \A r \in Requests : req[r].pc = "drop" => ~InCanon(req[r].op)
  /\ \A op \in Ops : fin[op].pc = "half" => ~InCanon(op)

\* A clear is in the journal before it is in the store, and longer.
CanonOK ==
  /\ \A op \in DOMAIN canon : Present(op) /\ canon[op].gen <= gens
  /\ \A x, y \in DOMAIN canon : canon[x].gen = canon[y].gen => x = y
  /\ \A op \in DOMAIN journal : journal[op].gen <= gens

\* The sets that the parser counts are finite.
JournalFinite ==
  /\ IsFiniteSet(DOMAIN journal)
  /\ \A op \in DOMAIN journal : IsFiniteSet(DOMAIN journal[op].targets)

JournalOK == JournalTypeOK /\ JournalReadable /\ JournalFinite
RestOK ==
  /\ \A r \in Requests : req[r].pc = "found" => IsFiniteSet(req[r].subs)
  /\ LeaseOK /\ HolderOK /\ CanonOK /\ SnapshotConsistent
IInv == Typed /\ JournalOK /\ RestOK

-----------------------------------------------------------------------------
(* Functions on part of a set.                                             *)

LEMMA PartialIs ==
  ASSUME NEW f, NEW D, NEW R, Partial(f, D, R)
  PROVE  /\ DOMAIN f \subseteq D /\ f = [x \in DOMAIN f |-> f[x]]
         /\ \A x \in DOMAIN f : f[x] \in R
BY DEF Partial

LEMMA PartialIf ==
  ASSUME NEW f, NEW D, NEW R, DOMAIN f \subseteq D, f = [x \in DOMAIN f |-> f[x]],
         \A x \in DOMAIN f : f[x] \in R
  PROVE  Partial(f, D, R)
<1>1. f \in [DOMAIN f -> R]  OBVIOUS
<1> QED  BY <1>1 DEF Partial

-----------------------------------------------------------------------------
(* The operations of the journal, one operation of it rewritten at a time. *)

\* What the parser demands of one operation.
Readable(j) ==
  /\ j.endpoint.origin \in DOMAIN j.before
  /\ DOMAIN j.after \subseteq DOMAIN j.before
  /\ (j.gen = Unbound) <=> (DOMAIN j.after = {})
  /\ \A s \in DOMAIN j.targets :
       s.origin \in (IF j.gen = Unbound THEN DOMAIN j.before ELSE DOMAIN j.after)
  /\ Cardinality(DOMAIN j.targets) <= MaxSubjects

LEMMA ReadableIs ==
  JournalReadable <=>
    /\ Cardinality(DOMAIN journal) <= MaxActive
    /\ \A op \in DOMAIN journal : Readable(journal[op])
    /\ \A x, y \in DOMAIN journal :
         (x # y /\ journal[x].gen = journal[y].gen) => journal[x].gen = Unbound
BY DEF JournalReadable, Readable

LEMMA RewriteKeeps ==
  ASSUME JournalOK, NEW op \in DOMAIN journal, NEW n, Operation(n), Readable(n),
         IsFiniteSet(DOMAIN n.targets),
         \A y \in DOMAIN journal \ {op} : n.gen = journal[y].gen => n.gen = Unbound,
         journal' = [journal EXCEPT ![op] = n]
  PROVE  JournalOK'
<1>1. /\ DOMAIN journal' = DOMAIN journal /\ journal'[op] = n
      /\ \A y \in DOMAIN journal \ {op} : journal'[y] = journal[y]
      /\ journal' = [x \in DOMAIN journal' |-> journal'[x]]
  BY DEF JournalOK, JournalTypeOK
<1>2. JournalTypeOK'
  BY <1>1 DEF JournalOK, JournalTypeOK, Operation
<1>3. /\ \A x \in DOMAIN journal' : Readable(journal[x])'
      /\ Cardinality(DOMAIN journal') <= MaxActive
      /\ \A x, y \in DOMAIN journal' :
           (x # y /\ journal'[x].gen = journal'[y].gen) => journal'[x].gen = Unbound
  <2>1. \A x \in DOMAIN journal : Readable(journal'[x])
    BY <1>1, ReadableIs DEF JournalOK
  <2>2. \A x \in DOMAIN journal' : Readable(journal[x])'
    BY <1>1, <2>1 DEF Readable
  <2> QED  BY <1>1, <2>2, ReadableIs DEF JournalOK
<1>4. JournalReadable'
  BY <1>3 DEF JournalReadable, Readable
<1>5. JournalFinite'
  BY <1>1 DEF JournalOK, JournalFinite
<1> QED  BY <1>2, <1>4, <1>5 DEF JournalOK

\* A step that changes nothing of the operations but their targets.
Retargets ==
  /\ DOMAIN journal' = DOMAIN journal
  /\ \A x \in DOMAIN journal : /\ journal'[x].gen = journal[x].gen
                               /\ journal'[x].before = journal[x].before
                               /\ journal'[x].after = journal[x].after

\* The step that WorkKept allows.
WorkStep ==
  \A op \in DOMAIN journal : Bound(op) =>
    \A s \in OpenSubjects(op) :
      /\ op \in DOMAIN journal'
      /\ \/ /\ s \in DOMAIN journal'[op].targets
            /\ journal'[op].targets[s].state = "acknowledged" =>
                 journal[op].targets[s].state = "delivered"
         \/ \E n \in DOMAIN journal'[op].targets :
              /\ n.frame = s.frame /\ n.origin = s.origin
              /\ journal'[op].targets[n].state = "pending"
              /\ journal'[op].targets[n].rev > journal[op].targets[s].rev

LEMMA WorkSame == UNCHANGED journal => WorkStep
<1> SUFFICES ASSUME UNCHANGED journal, NEW op \in DOMAIN journal, Bound(op),
                    NEW s \in OpenSubjects(op)
             PROVE  /\ op \in DOMAIN journal'
                    /\ s \in DOMAIN journal'[op].targets
                    /\ journal'[op].targets[s].state = "acknowledged" =>
                         journal[op].targets[s].state = "delivered"
  BY DEF WorkStep
<1> QED  BY DEF OpenSubjects, IsOpen

LEMMA TargetTyped ==
  ASSUME JournalOK, NEW op \in DOMAIN journal, NEW s \in DOMAIN journal[op].targets
  PROVE  /\ s \in Subject /\ journal[op].targets[s] \in Target
         /\ journal[op].gen \in Nat
BY PartialIs DEF JournalOK, JournalTypeOK, Operation

\* The targets of one operation become T, the rest stays.
LEMMA NewTargets ==
  ASSUME JournalOK, NEW op \in DOMAIN journal, NEW T, NEW n,
         Partial(T, Subject, Target),
         \A s \in DOMAIN T : \/ s \in DOMAIN journal[op].targets
                             \/ /\ journal[op].gen # Unbound
                                /\ s.origin \in DOMAIN journal[op].after,
         IsFiniteSet(DOMAIN T), Cardinality(DOMAIN T) <= MaxSubjects,
         n = [gen |-> journal[op].gen, endpoint |-> journal[op].endpoint,
              before |-> journal[op].before, after |-> journal[op].after, targets |-> T],
         journal' = [journal EXCEPT ![op] = n]
  PROVE  /\ JournalOK' /\ Retargets
         /\ journal'[op].targets = T
         /\ \A y \in DOMAIN journal \ {op} : journal'[y] = journal[y]
<1>1. journal' = [journal EXCEPT ![op] = n]  OBVIOUS
<1>2. Operation(journal[op]) /\ Readable(journal[op])
  BY ReadableIs DEF JournalOK, JournalTypeOK
<1>3. /\ n = [gen |-> n.gen, endpoint |-> n.endpoint, before |-> n.before,
              after |-> n.after, targets |-> n.targets]
      /\ n.gen = journal[op].gen /\ n.endpoint = journal[op].endpoint
      /\ n.before = journal[op].before /\ n.after = journal[op].after /\ n.targets = T
  BY <1>2 DEF Operation
<1>4. Operation(n)
  BY <1>2, <1>3 DEF Operation
<1>5. Readable(n)
  BY <1>2, <1>3 DEF Readable
<1>6. \A y \in DOMAIN journal \ {op} : n.gen = journal[y].gen => n.gen = Unbound
  BY <1>3 DEF JournalOK, JournalReadable
<1>7. JournalOK'
  BY <1>1, <1>3, <1>4, <1>5, <1>6, RewriteKeeps
<1>8. /\ Retargets /\ journal'[op].targets = T
      /\ \A y \in DOMAIN journal \ {op} : journal'[y] = journal[y]
  BY <1>1, <1>3 DEF Retargets, JournalOK, JournalTypeOK
<1> QED  BY <1>7, <1>8

\* A write of one target.
LEMMA SetTargetKeeps ==
  ASSUME JournalOK, NEW op \in DOMAIN journal, NEW s \in DOMAIN journal[op].targets,
         NEW t \in Target, SetTarget(op, s, t)
  PROVE  /\ JournalOK' /\ Retargets
         /\ DOMAIN journal'[op].targets = DOMAIN journal[op].targets
         /\ \A x \in DOMAIN journal[op].targets :
              journal'[op].targets[x] = IF x = s THEN t ELSE journal[op].targets[x]
         /\ \A y \in DOMAIN journal \ {op} : journal'[y] = journal[y]
<1> PICK T : T = [x \in DOMAIN journal[op].targets |->
                    IF x = s THEN t ELSE journal[op].targets[x]]
  OBVIOUS
<1> PICK n : n = [gen |-> journal[op].gen, endpoint |-> journal[op].endpoint,
                  before |-> journal[op].before, after |-> journal[op].after,
                  targets |-> T]
  OBVIOUS
<1>1. journal' = [journal EXCEPT ![op] = n]
  <2>1. Operation(journal[op])
    BY DEF JournalOK, JournalTypeOK
  <2>2. n = [journal[op] EXCEPT !.targets = T]
    BY <2>1 DEF Operation
  <2> QED  BY <2>2 DEF SetTarget
<1>2. \A x \in DOMAIN journal[op].targets :
        x \in Subject /\ journal[op].targets[x] \in Target
  BY TargetTyped
<1>3. /\ IsFiniteSet(DOMAIN journal[op].targets)
      /\ Cardinality(DOMAIN journal[op].targets) <= MaxSubjects
  BY DEF JournalOK, JournalFinite, JournalReadable
<1>4. /\ DOMAIN T = DOMAIN journal[op].targets /\ T = [x \in DOMAIN T |-> T[x]]
      /\ \A x \in DOMAIN T : T[x] \in Target
  BY <1>2
<1>5. \A x \in DOMAIN T : T[x] = IF x = s THEN t ELSE journal[op].targets[x]
  OBVIOUS
<1>6. /\ JournalOK' /\ Retargets /\ journal'[op].targets = T
      /\ \A y \in DOMAIN journal \ {op} : journal'[y] = journal[y]
  <2>1. Partial(T, Subject, Target)
    BY <1>2, <1>4, PartialIf
  <2>2. IsFiniteSet(DOMAIN T) /\ Cardinality(DOMAIN T) <= MaxSubjects
    BY <1>3, <1>4
  <2>3. \A x \in DOMAIN T : x \in DOMAIN journal[op].targets
    BY <1>4
  <2> QED  BY <1>1, <2>1, <2>2, <2>3, NewTargets
<1> QED  BY <1>4, <1>5, <1>6

LEMMA MarkDeliveredKeeps ==
  ASSUME JournalOK, NEW op \in Ops, NEW gen, NEW s, NEW rev, MarkDelivered(op, gen, s, rev)
  PROVE  JournalOK' /\ Retargets /\ WorkStep
<1>1. /\ op \in DOMAIN journal /\ s \in DOMAIN journal[op].targets
      /\ rev = journal[op].targets[s].rev
      /\ SetTarget(op, s, [rev |-> rev, state |-> "delivered"])
  BY DEF MarkDelivered, Exact, Present
<1>2. [rev |-> rev, state |-> "delivered"] \in Target
  BY <1>1, TargetTyped DEF Target
<1> PICK t : t = [rev |-> rev, state |-> "delivered"]  OBVIOUS
<1>3. /\ JournalOK' /\ Retargets
      /\ DOMAIN journal'[op].targets = DOMAIN journal[op].targets
      /\ \A x \in DOMAIN journal[op].targets :
           journal'[op].targets[x] = IF x = s THEN t ELSE journal[op].targets[x]
      /\ \A y \in DOMAIN journal \ {op} : journal'[y] = journal[y]
  BY <1>1, <1>2, SetTargetKeeps
<1>4. WorkStep
  BY <1>1, <1>3 DEF WorkStep, Retargets, OpenSubjects, IsOpen
<1> QED  BY <1>3, <1>4

LEMMA AcknowledgeKeeps ==
  ASSUME JournalOK, NEW op \in Ops, NEW gen, NEW s, NEW rev, Acknowledge(op, gen, s, rev)
  PROVE  JournalOK' /\ Retargets /\ WorkStep
<1>1. /\ op \in DOMAIN journal /\ s \in DOMAIN journal[op].targets
      /\ rev = journal[op].targets[s].rev
      /\ journal[op].targets[s].state = "delivered"
      /\ SetTarget(op, s, [rev |-> rev, state |-> "acknowledged"])
  BY DEF Acknowledge, Exact, Present
<1>2. [rev |-> rev, state |-> "acknowledged"] \in Target
  BY <1>1, TargetTyped DEF Target
<1> PICK t : t = [rev |-> rev, state |-> "acknowledged"]  OBVIOUS
<1>3. /\ JournalOK' /\ Retargets
      /\ DOMAIN journal'[op].targets = DOMAIN journal[op].targets
      /\ \A x \in DOMAIN journal[op].targets :
           journal'[op].targets[x] = IF x = s THEN t ELSE journal[op].targets[x]
      /\ \A y \in DOMAIN journal \ {op} : journal'[y] = journal[y]
  BY <1>1, <1>2, SetTargetKeeps
<1>4. WorkStep
  BY <1>1, <1>3 DEF WorkStep, Retargets, OpenSubjects, IsOpen
<1> QED  BY <1>3, <1>4

LEMMA SupersedeKeeps ==
  ASSUME JournalOK, NEW op \in Ops, NEW gen, NEW s, NEW rev, Supersede(op, gen, s, rev)
  PROVE  JournalOK' /\ Retargets /\ WorkStep
<1>1. /\ op \in DOMAIN journal /\ s \in DOMAIN journal[op].targets
      /\ rev = journal[op].targets[s].rev
      /\ SetTarget(op, s, [rev |-> rev, state |-> "superseded"])
  BY DEF Supersede, Exact, Present
<1>2. [rev |-> rev, state |-> "superseded"] \in Target
  BY <1>1, TargetTyped DEF Target
<1> PICK t : t = [rev |-> rev, state |-> "superseded"]  OBVIOUS
<1>3. /\ JournalOK' /\ Retargets
      /\ DOMAIN journal'[op].targets = DOMAIN journal[op].targets
      /\ \A x \in DOMAIN journal[op].targets :
           journal'[op].targets[x] = IF x = s THEN t ELSE journal[op].targets[x]
      /\ \A y \in DOMAIN journal \ {op} : journal'[y] = journal[y]
  BY <1>1, <1>2, SetTargetKeeps
<1>4. WorkStep
  BY <1>1, <1>3 DEF WorkStep, Retargets, OpenSubjects, IsOpen
<1> QED  BY <1>3, <1>4

\* A replaced target is one for one, of the same origin, under a later revision.
LEMMA ReplaceTargetKeeps ==
  ASSUME JournalOK, NEW op \in Ops, NEW gen, NEW s, NEW rev, NEW next \in Subject,
         ReplaceTarget(op, gen, s, rev, next)
  PROVE  JournalOK' /\ Retargets /\ WorkStep
<1>1. /\ op \in DOMAIN journal /\ s \in DOMAIN journal[op].targets
      /\ rev = journal[op].targets[s].rev /\ journal[op].gen # Unbound
      /\ next.frame = s.frame /\ next.origin = s.origin
      /\ next.origin \in DOMAIN journal[op].after
      /\ next \notin DOMAIN journal[op].targets
  BY DEF ReplaceTarget, Exact, Present
<1>2. /\ \A x \in DOMAIN journal[op].targets :
           x \in Subject /\ journal[op].targets[x] \in Target
      /\ rev \in Nat
  BY <1>1, TargetTyped DEF Target
<1> PICK T : T = [x \in (DOMAIN journal[op].targets \ {s}) \cup {next} |->
                    IF x = next THEN [rev |-> rev + 1, state |-> "pending"]
                    ELSE journal[op].targets[x]]
  OBVIOUS
<1> PICK n : n = [gen |-> journal[op].gen, endpoint |-> journal[op].endpoint,
                  before |-> journal[op].before, after |-> journal[op].after,
                  targets |-> T]
  OBVIOUS
<1>3. journal' = [journal EXCEPT ![op] = n]
  <2>1. Operation(journal[op])
    BY <1>1 DEF JournalOK, JournalTypeOK
  <2>2. n = [journal[op] EXCEPT !.targets = T]
    BY <2>1 DEF Operation
  <2> QED  BY <2>2 DEF ReplaceTarget
<1>4. /\ DOMAIN T = (DOMAIN journal[op].targets \ {s}) \cup {next}
      /\ T = [x \in DOMAIN T |-> T[x]]
      /\ T[next].state = "pending" /\ T[next].rev = rev + 1
      /\ \A x \in DOMAIN journal[op].targets \ {s} : T[x] = journal[op].targets[x]
  BY <1>1
<1>5. Partial(T, Subject, Target)
  <2>1. [rev |-> rev + 1, state |-> "pending"] \in Target
    BY <1>2 DEF Target
  <2>2. \A x \in DOMAIN T : T[x] \in Target
    BY <1>2, <2>1
  <2> QED  BY <1>2, <1>4, <2>2, PartialIf
<1>6. IsFiniteSet(DOMAIN T) /\ Cardinality(DOMAIN T) <= MaxSubjects
  <2>1. /\ IsFiniteSet(DOMAIN journal[op].targets)
        /\ Cardinality(DOMAIN journal[op].targets) <= MaxSubjects
    BY <1>1 DEF JournalOK, JournalFinite, JournalReadable
  <2>2. /\ IsFiniteSet(DOMAIN journal[op].targets \ {s})
        /\ Cardinality(DOMAIN journal[op].targets \ {s})
             = Cardinality(DOMAIN journal[op].targets) - 1
    BY <1>1, <2>1, FS_RemoveElement
  <2>3. /\ IsFiniteSet(DOMAIN T)
        /\ Cardinality(DOMAIN T) = Cardinality(DOMAIN journal[op].targets \ {s}) + 1
    <3> PICK R : R = DOMAIN journal[op].targets \ {s}  OBVIOUS
    <3>1. IsFiniteSet(R) /\ next \notin R /\ DOMAIN T = R \cup {next}
      BY <1>1, <1>4, <2>2
    <3>2. IsFiniteSet(R \cup {next}) /\ Cardinality(R \cup {next}) = Cardinality(R) + 1
      BY <3>1, FS_AddElement
    <3> QED  BY <3>1, <3>2
  <2>4. Cardinality(DOMAIN journal[op].targets) \in Nat
    BY <2>1, FS_CardinalityType
  <2> QED  BY <2>1, <2>2, <2>3, <2>4
<1>7. /\ JournalOK' /\ Retargets /\ journal'[op].targets = T
      /\ \A y \in DOMAIN journal \ {op} : journal'[y] = journal[y]
  BY <1>1, <1>3, <1>4, <1>5, <1>6, NewTargets
<1>8. WorkStep
  <2> SUFFICES ASSUME NEW x \in DOMAIN journal, Bound(x), NEW z \in OpenSubjects(x)
               PROVE  /\ x \in DOMAIN journal'
                      /\ \/ /\ z \in DOMAIN journal'[x].targets
                            /\ journal'[x].targets[z].state = "acknowledged" =>
                                 journal[x].targets[z].state = "delivered"
                         \/ \E m \in DOMAIN journal'[x].targets :
                              /\ m.frame = z.frame /\ m.origin = z.origin
                              /\ journal'[x].targets[m].state = "pending"
                              /\ journal'[x].targets[m].rev > journal[x].targets[z].rev
    BY DEF WorkStep
  <2>1. CASE x = op /\ z = s
    <3>1. next \in DOMAIN journal'[op].targets
      BY <1>4, <1>7
    <3>2. journal'[op].targets[next].rev > journal[op].targets[s].rev
      BY <1>1, <1>2, <1>4, <1>7
    <3> QED  BY <1>1, <1>4, <1>7, <2>1, <3>1, <3>2 DEF Retargets
  <2>2. CASE x = op /\ z # s
    BY <1>4, <1>7, <2>2 DEF Retargets, OpenSubjects, IsOpen
  <2>3. CASE x # op
    BY <1>7, <2>3 DEF Retargets, OpenSubjects, IsOpen
  <2> QED  BY <2>1, <2>2, <2>3
<1> QED  BY <1>7, <1>8

\* A prepared operation is unbound, and what was there stays as it is.
Prepares(op, before) ==
  /\ op \notin DOMAIN journal /\ DOMAIN journal' = DOMAIN journal \cup {op}
  /\ \A x \in DOMAIN journal : journal'[x] = journal[x]
  /\ journal'[op].gen = Unbound /\ journal'[op].before = before
  /\ \A x \in DOMAIN journal : DOMAIN journal[x].before \cap DOMAIN before = {}

LEMMA PrepareKeeps ==
  ASSUME JournalOK, NEW op \in Ops, NEW endpoint \in Subject, NEW before,
         NEW subjects \in SUBSET Subject, Partial(before, Origins, Nat),
         IsFiniteSet(subjects), Prepare(op, endpoint, before, subjects)
  PROVE  JournalOK' /\ WorkStep /\ Prepares(op, before)
<1> PICK T : T = [s \in subjects |-> [rev |-> 1, state |-> "pending"]]
  OBVIOUS
<1> PICK n : n = [gen |-> Unbound, endpoint |-> endpoint, before |-> before,
                  after |-> [o \in {} |-> 0], targets |-> T]
  OBVIOUS
<1>1. /\ op \notin DOMAIN journal
      /\ journal' = [x \in DOMAIN journal \cup {op} |-> IF x = op THEN n ELSE journal[x]]
      /\ Cardinality(DOMAIN journal) < MaxActive
      /\ \A x \in DOMAIN journal : DOMAIN journal[x].before \cap DOMAIN before = {}
      /\ Cardinality(subjects) <= MaxSubjects
      /\ endpoint.origin \in DOMAIN before
      /\ \A s \in subjects : s.origin \in DOMAIN before
  BY DEF Prepare, Present
<1>2. /\ DOMAIN journal' = DOMAIN journal \cup {op}
      /\ \A x \in DOMAIN journal : journal'[x] = journal[x]
      /\ journal'[op] = n
      /\ journal' = [x \in DOMAIN journal' |-> journal'[x]]
  BY <1>1
<1>3. /\ n.gen = Unbound /\ n.endpoint = endpoint /\ n.before = before /\ DOMAIN n.after = {}
      /\ n.targets = T /\ DOMAIN T = subjects
      /\ n = [gen |-> n.gen, endpoint |-> n.endpoint, before |-> n.before,
              after |-> n.after, targets |-> n.targets]
  OBVIOUS
<1>4. Operation(n)
  <2>1. [rev |-> 1, state |-> "pending"] \in Target
    BY DEF Target
  <2>2. Partial(T, Subject, Target)
    BY <1>3, <2>1, PartialIf
  <2>3. Partial(n.after, Origins, Nat)
    BY <1>3, PartialIf
  <2> QED  BY <1>3, <2>2, <2>3 DEF Operation, Unbound
<1>5. Readable(n) /\ IsFiniteSet(DOMAIN n.targets)
  BY <1>1, <1>3 DEF Readable
<1>6. JournalTypeOK'
  BY <1>2, <1>4 DEF JournalOK, JournalTypeOK, Operation
<1>7. IsFiniteSet(DOMAIN journal') /\ Cardinality(DOMAIN journal') <= MaxActive
  <2>1. /\ IsFiniteSet(DOMAIN journal \cup {op})
        /\ Cardinality(DOMAIN journal \cup {op}) = Cardinality(DOMAIN journal) + 1
    BY <1>1, FS_AddElement DEF JournalOK, JournalFinite
  <2>2. Cardinality(DOMAIN journal) \in Nat
    BY FS_CardinalityType DEF JournalOK, JournalFinite
  <2> QED  BY <1>1, <1>2, <2>1, <2>2, JournalConstantsOK
<1>8. JournalReadable'
  <2>1. \A x \in DOMAIN journal' : Readable(journal'[x])
    BY <1>2, <1>5, ReadableIs DEF JournalOK
  <2>2. \A x, y \in DOMAIN journal' :
          (x # y /\ journal'[x].gen = journal'[y].gen) => journal'[x].gen = Unbound
    BY <1>2, <1>3, ReadableIs DEF JournalOK
  <2> QED  BY <1>7, <2>1, <2>2 DEF JournalReadable, Readable
<1>9. JournalFinite'
  BY <1>2, <1>5, <1>7 DEF JournalOK, JournalFinite
<1>10. WorkStep
  BY <1>2 DEF WorkStep, OpenSubjects, IsOpen
<1>11. Prepares(op, before)
  BY <1>1, <1>2, <1>3 DEF Prepares
<1> QED  BY <1>6, <1>8, <1>9, <1>10, <1>11 DEF JournalOK

\* What CommitOrigins may be asked: a new authority and the epochs of some origins.
LEMMA CommitOriginsKeeps ==
  ASSUME JournalOK, NEW op \in Ops, NEW gen \in Nat, NEW after,
         Partial(after, Origins, Nat), CommitOrigins(op, gen, after)
  PROVE  /\ JournalOK' /\ WorkStep
         /\ op \in DOMAIN journal /\ DOMAIN journal' = DOMAIN journal
         /\ \A x \in DOMAIN journal \ {op} : journal'[x] = journal[x]
         /\ journal[op].gen = Unbound /\ journal'[op].gen = gen
         /\ journal'[op].before = journal[op].before /\ journal'[op].after = after
<1> PICK T : T = [s \in {x \in DOMAIN journal[op].targets : x.origin \in DOMAIN after} |->
                    journal[op].targets[s]]
  OBVIOUS
<1> PICK n : n = [gen |-> gen, endpoint |-> journal[op].endpoint,
                  before |-> journal[op].before, after |-> after, targets |-> T]
  OBVIOUS
<1>1. /\ op \in DOMAIN journal /\ journal[op].gen = Unbound /\ gen # Unbound
      /\ \A x \in DOMAIN journal : journal[x].gen # gen
      /\ DOMAIN after # {} /\ DOMAIN after \subseteq DOMAIN journal[op].before
  BY DEF CommitOrigins, Present
<1>2. Operation(journal[op]) /\ Readable(journal[op])
  BY <1>1, ReadableIs DEF JournalOK, JournalTypeOK
<1>3. journal' = [journal EXCEPT ![op] = n]
  <2> PICK a : a = [gen |-> gen, endpoint |-> journal[op].endpoint,
                    before |-> journal[op].before, after |-> journal[op].after,
                    targets |-> journal[op].targets]
    OBVIOUS
  <2> PICK b : b = [gen |-> gen, endpoint |-> journal[op].endpoint,
                    before |-> journal[op].before, after |-> after,
                    targets |-> journal[op].targets]
    OBVIOUS
  <2>1. a = [journal[op] EXCEPT !.gen = gen]
    BY <1>2 DEF Operation
  <2>2. b = [a EXCEPT !.after = after]
    OBVIOUS
  <2>3. n = [b EXCEPT !.targets = T]
    OBVIOUS
  <2>4. n = [journal[op] EXCEPT !.gen = gen, !.after = after, !.targets = T]
    BY <2>1, <2>2, <2>3
  <2> QED  BY <1>1, <2>4 DEF CommitOrigins, JournalOK, JournalTypeOK, Operation
<1>4. /\ n.gen = gen /\ n.endpoint = journal[op].endpoint /\ n.before = journal[op].before
      /\ n.after = after /\ n.targets = T
      /\ n = [gen |-> n.gen, endpoint |-> n.endpoint, before |-> n.before,
              after |-> n.after, targets |-> n.targets]
  OBVIOUS
<1>5. /\ DOMAIN T \subseteq DOMAIN journal[op].targets
      /\ \A s \in DOMAIN T : s.origin \in DOMAIN after
      /\ Partial(T, Subject, Target)
  <2>1. \A s \in DOMAIN T : s \in Subject /\ T[s] \in Target
    BY <1>1, TargetTyped
  <2> QED  BY <2>1, PartialIf
<1>6. Operation(n)
  BY <1>2, <1>4, <1>5 DEF Operation
<1>7. IsFiniteSet(DOMAIN T) /\ Cardinality(DOMAIN T) <= MaxSubjects
  <2>1. /\ IsFiniteSet(DOMAIN journal[op].targets)
        /\ Cardinality(DOMAIN journal[op].targets) <= MaxSubjects
    BY <1>1 DEF JournalOK, JournalFinite, JournalReadable
  <2>2. /\ IsFiniteSet(DOMAIN T)
        /\ Cardinality(DOMAIN T) <= Cardinality(DOMAIN journal[op].targets)
    BY <1>5, <2>1, FS_Subset
  <2> QED  BY <2>1, <2>2, FS_CardinalityType, JournalConstantsOK
<1>8. Readable(n)
  BY <1>1, <1>2, <1>4, <1>5, <1>7 DEF Readable
<1>9. JournalOK'
  BY <1>1, <1>3, <1>4, <1>6, <1>7, <1>8, RewriteKeeps
<1>10. /\ DOMAIN journal' = DOMAIN journal /\ journal'[op] = n
       /\ \A x \in DOMAIN journal \ {op} : journal'[x] = journal[x]
  BY <1>1, <1>3
<1>11. WorkStep
  BY <1>1, <1>10 DEF WorkStep, OpenSubjects, IsOpen, Bound
<1> QED  BY <1>1, <1>4, <1>9, <1>10, <1>11

LEMMA RemoveOperationKeeps ==
  ASSUME JournalOK, NEW op \in Ops, NEW gen, RemoveOperation(op, gen)
  PROVE  /\ JournalOK' /\ WorkStep
         /\ DOMAIN journal' = DOMAIN journal \ {op}
         /\ \A x \in DOMAIN journal' : journal'[x] = journal[x]
<1>1. /\ op \in DOMAIN journal /\ journal[op].gen = gen
      /\ gen # Unbound => AllTerminal(op)
      /\ journal' = [x \in DOMAIN journal \ {op} |-> journal[x]]
  BY DEF RemoveOperation, Present, Without
<1>2. /\ DOMAIN journal' = DOMAIN journal \ {op}
      /\ \A x \in DOMAIN journal' : journal'[x] = journal[x]
      /\ journal' = [x \in DOMAIN journal' |-> journal'[x]]
  BY <1>1
<1>3. JournalTypeOK'
  BY <1>2 DEF JournalOK, JournalTypeOK, Operation
<1>4. IsFiniteSet(DOMAIN journal') /\ Cardinality(DOMAIN journal') <= MaxActive
  <2>1. IsFiniteSet(DOMAIN journal) /\ Cardinality(DOMAIN journal) <= MaxActive
    BY DEF JournalOK, JournalFinite, JournalReadable
  <2>2. /\ IsFiniteSet(DOMAIN journal')
        /\ Cardinality(DOMAIN journal') <= Cardinality(DOMAIN journal)
    BY <1>2, <2>1, FS_Subset
  <2> QED  BY <2>1, <2>2, FS_CardinalityType, JournalConstantsOK
<1>5. JournalReadable'
  <2>1. \A x \in DOMAIN journal' : Readable(journal'[x])
    BY <1>2, ReadableIs DEF JournalOK
  <2>2. \A x, y \in DOMAIN journal' :
          (x # y /\ journal'[x].gen = journal'[y].gen) => journal'[x].gen = Unbound
    BY <1>2, ReadableIs DEF JournalOK
  <2> QED  BY <1>4, <2>1, <2>2 DEF JournalReadable, Readable
<1>6. JournalFinite'
  BY <1>2, <1>4 DEF JournalOK, JournalFinite
<1>7. WorkStep
  BY <1>1, <1>2 DEF WorkStep, OpenSubjects, IsOpen, AllTerminal, Bound
<1> QED  BY <1>2, <1>3, <1>5, <1>6, <1>7 DEF JournalOK

-----------------------------------------------------------------------------
(* Steps that neither take a lease nor change the stores but for targets.  *)

StoresQuiet == Retargets /\ UNCHANGED <<canon, gens>>
RequestsQuiet ==
  \A r \in Requests : req'[r].pc \in Holding \cup {"found"} =>
    /\ req'[r].pc = req[r].pc /\ req'[r].op = req[r].op
    /\ req'[r].before = req[r].before /\ req'[r].subs = req[r].subs
PassQuiet ==
  /\ recon'.held \in {None, recon.held}
  /\ \A op \in Ops : fin'[op].pc = "half" => fin[op].pc = "half"

LEMMA LeaseShape ==
  ASSUME Typed
  PROVE  /\ \A r \in Requests : req[r].pc \in Holding => req[r].op \in Ops
         /\ \A op \in Ops : op # None
         /\ \A r \in Requests : r # None /\ r # Boot
BY ConstantsOK DEF Typed, RequestTyped, Request, Holding

LEMMA QuietKeeps ==
  ASSUME Typed, RestOK, StoresQuiet, RequestsQuiet, PassQuiet
  PROVE  RestOK'
<1>1. \A r \in Requests : req'[r].pc = "found" => IsFiniteSet(req'[r].subs)
  BY DEF RestOK, RequestsQuiet
<1>2. LeaseOK'
  BY LeaseShape DEF RestOK, RequestsQuiet, PassQuiet, LeaseOK, Holds, Holding
<1>3. /\ \A op : Present(op)' <=> Present(op)
      /\ \A op : Bound(op)' <=> Bound(op)
      /\ \A op : InCanon(op)' <=> InCanon(op)
      /\ \A op : Settled(op)' <=> Settled(op)
      /\ \A op : Owned(op)' = Owned(op)
      /\ \A op : Committed(op)' = Committed(op)
  BY DEF StoresQuiet, Retargets, Present, Bound, InCanon, Settled, Entries, Owned, Committed
<1>4. HolderOK'
  <2>1. ASSUME NEW r \in Requests, req'[r].pc \in Holding
        PROVE  /\ req'[r].pc = "prepared" =>
                    /\ Present(req[r].op)' /\ ~Bound(req[r].op)'
                    /\ req'[r].before = journal'[req'[r].op].before
               /\ req'[r].pc = "cleared" =>
                    /\ Present(req[r].op)' /\ ~Bound(req[r].op)' /\ Settled(req[r].op)'
               /\ req'[r].pc = "drop" => ~InCanon(req[r].op)'
    <3> PICK c : c = req[r].op  OBVIOUS
    <3>1. /\ req'[r].op = c /\ req'[r].pc = req[r].pc /\ req'[r].before = req[r].before
      BY <2>1 DEF RequestsQuiet
    <3>2. /\ req[r].pc = "prepared" =>
               Present(c) /\ ~Bound(c) /\ req[r].before = journal[c].before
          /\ req[r].pc = "cleared" => Present(c) /\ ~Bound(c) /\ Settled(c)
          /\ req[r].pc = "drop" => ~InCanon(c)
      BY DEF RestOK, HolderOK
    <3>3. /\ req[r].pc = "prepared" =>
               Present(c)' /\ ~Bound(c)' /\ req[r].before = journal'[c].before
          /\ req[r].pc = "cleared" => Present(c)' /\ ~Bound(c)' /\ Settled(c)'
          /\ req[r].pc = "drop" => ~InCanon(c)'
      BY <1>3, <3>2 DEF StoresQuiet, Retargets, Present
    <3> QED  BY <3>1, <3>3 DEF Present, Bound, Settled, InCanon, Entries
  <2>2. \A op \in Ops : fin'[op].pc = "half" => ~InCanon(op)'
    BY <1>3 DEF RestOK, HolderOK, PassQuiet
  <2> QED  BY <2>1, <2>2 DEF HolderOK, Holding
<1>5. CanonOK'
  BY DEF RestOK, CanonOK, StoresQuiet, Retargets, Present
<1>6. SnapshotConsistent'
  BY <1>3 DEF RestOK, SnapshotConsistent, StoresQuiet, Retargets, Present, Bound, Settled,
              InCanon, Entries, Owned, Committed
<1> QED  BY <1>1, <1>2, <1>4, <1>5, <1>6 DEF RestOK

-----------------------------------------------------------------------------
(* Steps of the one that holds, or takes, the lease of an operation.       *)

QuietAt(r) ==
  /\ req'[r].pc = req[r].pc /\ req'[r].op = req[r].op
  /\ req'[r].before = req[r].before /\ req'[r].subs = req[r].subs
HolderAt(r) ==
  /\ req[r].pc = "prepared" =>
       /\ Present(req[r].op) /\ ~Bound(req[r].op)
       /\ req[r].before = journal[req[r].op].before
  /\ req[r].pc = "cleared" =>
       /\ Present(req[r].op) /\ ~Bound(req[r].op) /\ Settled(req[r].op)
  /\ req[r].pc = "drop" => ~InCanon(req[r].op)

\* The stores change at most at that operation.
OnlyAt(op) ==
  /\ DOMAIN journal' \ {op} = DOMAIN journal \ {op}
  /\ \A x \in DOMAIN journal \ {op} : journal'[x] = journal[x]
  /\ DOMAIN canon' \ {op} = DOMAIN canon \ {op}
  /\ \A x \in DOMAIN canon \ {op} : canon'[x] = canon[x]
  /\ gens \in Nat /\ gens' \in Nat /\ gens <= gens'

\* No one else's part changes.
OthersQuiet(op) ==
  /\ \A r \in Requests : req'[r].pc \in Holding \cup {"found"} =>
       QuietAt(r) \/ (req'[r].op = op /\ req'[r].pc # "found")
  /\ \A c \in Ops : fin'[c].pc = "half" => fin[c].pc = "half" \/ c = op

\* What both stores have of one operation agrees.
Agree(op) ==
  /\ InCanon(op) => /\ Present(op) /\ canon[op].gen <= gens
                    /\ DOMAIN canon[op].entry = DOMAIN journal[op].before
                    /\ Bound(op) => /\ journal[op].gen = canon[op].gen
                                    /\ Settled(op)
                                    /\ journal[op].after = Committed(op)
  /\ Present(op) => journal[op].gen <= gens

\* It stays apart from all others.
Apart(op) ==
  /\ \A x \in Ops \ {op} : Owned(op)' \cap Owned(x) = {}
  /\ \A x \in DOMAIN canon \ {op} :
       /\ InCanon(op)' => canon'[op].gen # canon[x].gen
       /\ Present(op)' => journal'[op].gen # canon[x].gen
  /\ \A y \in DOMAIN journal \ {op} : InCanon(op)' => canon'[op].gen # journal[y].gen

LEMMA Elsewhere ==
  ASSUME NEW op, OnlyAt(op), NEW x, x # op
  PROVE  /\ Present(x)' <=> Present(x)
         /\ Bound(x)' <=> Bound(x)
         /\ InCanon(x)' <=> InCanon(x)
         /\ Settled(x)' <=> Settled(x)
         /\ Present(x) => journal'[x] = journal[x]
         /\ InCanon(x) => canon'[x] = canon[x]
         /\ InCanon(x) => Committed(x)' = Committed(x)
         /\ Owned(x)' = Owned(x)
<1>1. /\ Present(x)' <=> Present(x)
      /\ InCanon(x)' <=> InCanon(x)
      /\ Present(x) => journal'[x] = journal[x]
      /\ InCanon(x) => canon'[x] = canon[x]
  BY DEF OnlyAt, Present, InCanon
<1>2. (Bound(x)' <=> Bound(x)) /\ (Settled(x)' <=> Settled(x))
  BY <1>1 DEF Bound, Settled, Entries, Present, InCanon
<1>3. (InCanon(x) => Committed(x)' = Committed(x)) /\ Owned(x)' = Owned(x)
  BY <1>1 DEF Committed, Entries, Owned, InCanon, Present
<1> QED  BY <1>1, <1>2, <1>3

LEMMA OpKeeps ==
  ASSUME Typed, RestOK, NEW op \in Ops, OnlyAt(op), OthersQuiet(op), LeaseOK',
         \A r \in Requests : req'[r].op = op /\ req'[r].pc \in Holding => HolderAt(r)',
         fin'[op].pc = "half" => ~InCanon(op)',
         Agree(op)', Apart(op)
  PROVE  RestOK'
<1>1. \A r \in Requests : req'[r].pc = "found" => IsFiniteSet(req'[r].subs)
  BY DEF RestOK, OthersQuiet, QuietAt
<1>2. HolderOK'
  <2>1. ASSUME NEW r \in Requests, req'[r].pc \in Holding, req'[r].op # op
        PROVE  HolderAt(r)'
    <3> PICK c : c = req[r].op  OBVIOUS
    <3>1. /\ req'[r].op = c /\ req'[r].pc = req[r].pc /\ req'[r].before = req[r].before
          /\ c # op
      BY <2>1 DEF OthersQuiet, QuietAt
    <3>2. /\ req[r].pc = "prepared" =>
               Present(c) /\ ~Bound(c) /\ req[r].before = journal[c].before
          /\ req[r].pc = "cleared" => Present(c) /\ ~Bound(c) /\ Settled(c)
          /\ req[r].pc = "drop" => ~InCanon(c)
      BY DEF RestOK, HolderOK
    <3>3. /\ req[r].pc = "prepared" =>
               Present(c)' /\ ~Bound(c)' /\ req[r].before = journal'[c].before
          /\ req[r].pc = "cleared" => Present(c)' /\ ~Bound(c)' /\ Settled(c)'
          /\ req[r].pc = "drop" => ~InCanon(c)'
      BY <3>1, <3>2, Elsewhere
    <3> QED  BY <3>1, <3>3 DEF HolderAt, Present, Bound, Settled, InCanon, Entries
  <2>2. \A r \in Requests : req'[r].pc \in Holding => HolderAt(r)'
    BY <2>1
  <2>3. \A c \in Ops : fin'[c].pc = "half" => ~InCanon(c)'
    BY Elsewhere DEF OthersQuiet, RestOK, HolderOK
  <2> QED  BY <2>2, <2>3 DEF HolderOK, HolderAt, Holding
<1>3. CanonOK'
  <2>1. ASSUME NEW c \in DOMAIN canon'  PROVE Present(c)' /\ canon'[c].gen <= gens'
    <3>1. CASE c = op
      BY <3>1 DEF Agree, InCanon
    <3>2. CASE c # op
      <4>1. InCanon(c) /\ Present(c)' /\ canon'[c] = canon[c]
        BY <2>1, <3>2, Elsewhere DEF RestOK, CanonOK, InCanon
      <4>2. c \in DOMAIN canon /\ canon[c].gen <= gens /\ canon[c].gen \in Nat
        BY <4>1 DEF RestOK, CanonOK, InCanon, Typed, StoreTyped, Canonical
      <4> QED  BY <4>1, <4>2 DEF OnlyAt
    <3> QED  BY <3>1, <3>2
  <2>2. ASSUME NEW x \in DOMAIN canon', NEW y \in DOMAIN canon', canon'[x].gen = canon'[y].gen
        PROVE  x = y
    <3>1. \A z : z # op => (InCanon(z)' <=> InCanon(z)) /\ (InCanon(z) => canon'[z] = canon[z])
      BY Elsewhere
    <3> QED  BY <2>2, <3>1 DEF RestOK, CanonOK, InCanon, Apart
  <2>3. ASSUME NEW c \in DOMAIN journal'  PROVE journal'[c].gen <= gens'
    <3>1. CASE c = op
      BY <3>1 DEF Agree, Present
    <3>2. CASE c # op
      <4>1. Present(c) /\ journal'[c] = journal[c]
        BY <2>3, <3>2, Elsewhere DEF Present
      <4>2. journal[c].gen <= gens /\ journal[c].gen \in Nat
        BY <4>1 DEF RestOK, CanonOK, Present, Typed, JournalTypeOK, Operation
      <4> QED  BY <4>1, <4>2 DEF OnlyAt
    <3> QED  BY <3>1, <3>2
  <2> QED  BY <2>1, <2>2, <2>3 DEF CanonOK, Present
<1>4. SnapshotConsistent'
  <2>1. ASSUME NEW c, InCanon(c)', Present(c)'
        PROVE  /\ DOMAIN canon'[c].entry = DOMAIN journal'[c].before
               /\ Bound(c)' => /\ journal'[c].gen = canon'[c].gen
                               /\ Settled(c)'
                               /\ journal'[c].after = Committed(c)'
    <3>1. CASE c = op
      BY <2>1, <3>1 DEF Agree
    <3>2. CASE c # op
      <4>1. /\ InCanon(c) /\ Present(c) /\ canon'[c] = canon[c] /\ journal'[c] = journal[c]
            /\ Bound(c)' => Bound(c)
            /\ Settled(c) => Settled(c)'
            /\ Committed(c)' = Committed(c)
        BY <2>1, <3>2, Elsewhere
      <4> QED  BY <4>1 DEF RestOK, SnapshotConsistent, InCanon, Present
    <3> QED  BY <3>1, <3>2
  <2>2. ASSUME NEW x \in Ops, NEW y \in Ops, x # y
        PROVE  Owned(x)' \cap Owned(y)' = {}
    <3>1. \A z \in Ops : z # op => Owned(z)' = Owned(z)
      BY Elsewhere
    <3>2. Owned(x) \cap Owned(y) = {}
      BY <2>2 DEF RestOK, SnapshotConsistent
    <3>3. CASE x # op /\ y # op
      BY <3>1, <3>2, <3>3
    <3>4. CASE x = op
      BY <2>2, <3>1, <3>4 DEF Apart
    <3>5. CASE y = op
      BY <2>2, <3>1, <3>5 DEF Apart
    <3> QED  BY <3>3, <3>4, <3>5
  <2>3. ASSUME NEW x, NEW y, InCanon(x)', Present(y)', x # y
        PROVE  canon'[x].gen # journal'[y].gen
    <3>1. \A z : z # op => /\ (InCanon(z)' <=> InCanon(z)) /\ (InCanon(z) => canon'[z] = canon[z])
                           /\ (Present(z)' <=> Present(z)) /\ (Present(z) => journal'[z] = journal[z])
      BY Elsewhere
    <3> QED  BY <2>3, <3>1 DEF RestOK, SnapshotConsistent, InCanon, Present, Apart
  <2>4. \A c \in DOMAIN canon' \cap DOMAIN journal' :
          /\ DOMAIN canon'[c].entry = DOMAIN journal'[c].before
          /\ Bound(c)' => /\ journal'[c].gen = canon'[c].gen
                          /\ Settled(c)'
                          /\ journal'[c].after = Committed(c)'
    BY <2>1 DEF InCanon, Present
  <2>5. \A x \in DOMAIN canon', y \in DOMAIN journal' : x # y => canon'[x].gen # journal'[y].gen
    BY <2>3 DEF InCanon, Present
  <2> QED  BY <2>2, <2>4, <2>5 DEF SnapshotConsistent
<1> QED  BY <1>1, <1>2, <1>3, <1>4 DEF RestOK

LEMMA NoNewLease ==
  ASSUME Typed, LeaseOK, PassQuiet,
         \A r \in Requests : req'[r].pc \in Holding =>
           req[r].pc \in Holding /\ req'[r].op = req[r].op
  PROVE  LeaseOK'
BY LeaseShape DEF PassQuiet, LeaseOK, Holds

LEMMA RequestTakesLease ==
  ASSUME Typed, LeaseOK, PassQuiet, NEW r \in Requests, LeaseFree(req[r].op),
         req[r].op \in Ops, req'[r].op = req[r].op,
         \A q \in Requests \ {r} : req'[q].pc \in Holding =>
           req[q].pc \in Holding /\ req'[q].op = req[q].op
  PROVE  LeaseOK'
<1>1. /\ \A q \in Requests : req[q].pc \in Holding => req[q].op # req[r].op
      /\ recon.held # req[r].op /\ fin[req[r].op].pc # "half"
  BY DEF LeaseFree, Holding
<1>2. /\ recon'.held # req[r].op /\ fin'[req[r].op].pc # "half"
  BY <1>1, LeaseShape DEF PassQuiet
<1> QED  BY <1>1, <1>2, LeaseShape DEF PassQuiet, LeaseOK, Holds

-----------------------------------------------------------------------------
(* The requests' part of the stores.                                       *)

LEMMA FailSets ==
  ASSUME RequestTyped, NEW r \in Requests, NEW d, Fail(r, d)
  PROVE  /\ req'[r].pc = "settle"
         /\ \A q \in Requests \ {r} : req'[q] = req[q]
BY DEF Fail, RequestTyped, Request

LEMMA RequestIs ==
  ASSUME Typed, NEW r \in Requests, req[r].pc \in Holding \cup {"found", "cleared"}
  PROVE  /\ req[r].op \in Ops /\ Request(req[r])
         /\ Partial(req[r].before, Origins, Nat) /\ req[r].subs \subseteq Subject
BY DEF Typed, RequestTyped, Request, Holding

LEMMA StartClearKeeps ==
  ASSUME IInv, NEW r \in Requests, StartClear(r)
  PROVE  JournalOK' /\ RestOK' /\ WorkStep
<1> PICK op : op = req[r].op  OBVIOUS
<1> PICK b : b = req[r].before  OBVIOUS
<1>1. /\ req[r].pc = "found" /\ LeaseFree(op)
      /\ UNCHANGED <<canon, gens, recon, fin>>
  BY DEF StartClear, storeVars
<1>2. op \in Ops /\ Partial(b, Origins, Nat) /\ req[r].subs \subseteq Subject
      /\ IsFiniteSet(req[r].subs)
  BY <1>1, RequestIs DEF IInv, RestOK
<1>3. PassQuiet
  BY <1>1 DEF PassQuiet
<1>4. CASE /\ Prepare(op, Top, b, req[r].subs)
           /\ req' = [req EXCEPT ![r].pc = "prepared"]
  <2>1. Top \in Subject
    BY ConstantsOK DEF Top, IInv, Typed, PageTyped
  <2>2. /\ JournalOK' /\ WorkStep
        /\ op \notin DOMAIN journal /\ DOMAIN journal' = DOMAIN journal \cup {op}
        /\ \A x \in DOMAIN journal : journal'[x] = journal[x]
        /\ journal'[op].gen = Unbound /\ journal'[op].before = b
        /\ \A x \in DOMAIN journal : DOMAIN journal[x].before \cap DOMAIN b = {}
    <3> PICK e, S : e = Top /\ S = req[r].subs  OBVIOUS
    <3>1. JournalOK /\ e \in Subject /\ S \in SUBSET Subject /\ IsFiniteSet(S)
      BY <1>2, <2>1 DEF IInv
    <3>2. Prepare(op, e, b, S)
      BY <1>4
    <3>3. JournalOK' /\ WorkStep /\ Prepares(op, b)
      BY <1>2, <3>1, <3>2, PrepareKeeps
    <3> QED  BY <3>3 DEF Prepares
  <2>3. /\ req'[r].pc = "prepared" /\ req'[r].op = op /\ req'[r].before = b
        /\ \A q \in Requests \ {r} : req'[q] = req[q]
    BY <1>4 DEF IInv, Typed, RequestTyped, Request
  <2>4. OnlyAt(op)
    BY <1>1, <2>2 DEF OnlyAt, IInv, Typed, StoreTyped
  <2>5. OthersQuiet(op)
    BY <1>1, <2>3 DEF OthersQuiet, QuietAt
  <2>6. LeaseOK'
    BY <1>1, <1>2, <1>3, <2>3, RequestTakesLease DEF IInv, RestOK
  <2>7. \A q \in Requests : req'[q].op = op /\ req'[q].pc \in Holding => q = r
    BY <1>1, <2>3 DEF LeaseFree, Holding
  <2>8. HolderAt(r)'
    BY <2>2, <2>3 DEF HolderAt, Present, Bound
  <2>9. fin'[op].pc # "half"
    BY <1>1 DEF LeaseFree
  <2>10. ~InCanon(op)'
    BY <1>1, <2>2 DEF IInv, RestOK, CanonOK, InCanon, Present
  <2>11. Agree(op)'
    BY <1>1, <2>2, <2>10 DEF Agree, Present, Unbound, IInv, Typed, StoreTyped
  <2>12. Apart(op)
    <3>1. \A x \in DOMAIN canon : x \in DOMAIN journal
      BY DEF IInv, RestOK, CanonOK, Present
    <3>2. \A x \in Ops \ {op} : Owned(x) \cap DOMAIN b = {}
      BY <2>2, <3>1 DEF IInv, RestOK, SnapshotConsistent, Owned, InCanon, Present
    <3>3. Owned(op)' = DOMAIN b
      BY <2>2, <2>10 DEF Owned, Present
    <3>4. \A x \in DOMAIN canon : canon[x].gen # journal'[op].gen
      BY <2>2 DEF IInv, Typed, StoreTyped, Canonical, Unbound
    <3> QED  BY <2>10, <3>2, <3>3, <3>4 DEF Apart
  <2> QED  BY <1>2, <2>2, <2>4, <2>5, <2>6, <2>7, <2>8, <2>9, <2>11, <2>12, OpKeeps DEF IInv
<1>5. CASE (\E d : Fail(r, d)) /\ UNCHANGED journal
  <2>1. RequestsQuiet
    BY <1>5, FailSets DEF RequestsQuiet, IInv, Typed, Holding
  <2>2. StoresQuiet
    BY <1>1, <1>5 DEF StoresQuiet, Retargets
  <2> QED  BY <1>3, <1>5, <2>1, <2>2, QuietKeeps, WorkSame DEF IInv, JournalOK, JournalTypeOK,
              JournalReadable, JournalFinite
<1> QED  BY <1>4, <1>5 DEF StartClear

LEMMA JournalSame ==
  ASSUME JournalOK, UNCHANGED journal
  PROVE  JournalOK' /\ Retargets /\ WorkStep
BY WorkSame DEF JournalOK, JournalTypeOK, JournalReadable, JournalFinite, Retargets

\* The removal of an operation that is not in the store.
LEMMA RemovedAgree ==
  ASSUME IInv, NEW op \in Ops, NEW gen, RemoveOperation(op, gen), UNCHANGED <<canon, gens>>,
         ~InCanon(op)
  PROVE  /\ JournalOK' /\ WorkStep /\ OnlyAt(op) /\ Agree(op)' /\ Apart(op) /\ ~InCanon(op)'
<1>1. /\ JournalOK' /\ WorkStep
      /\ DOMAIN journal' = DOMAIN journal \ {op}
      /\ \A x \in DOMAIN journal' : journal'[x] = journal[x]
  BY RemoveOperationKeeps DEF IInv
<1>2. OnlyAt(op)
  BY <1>1 DEF OnlyAt, IInv, Typed, StoreTyped
<1>3. ~InCanon(op)' /\ ~Present(op)'
  BY <1>1 DEF InCanon, Present
<1>4. Agree(op)' /\ Apart(op)
  BY <1>3 DEF Agree, Apart, Owned
<1> QED  BY <1>1, <1>2, <1>3, <1>4

LEMMA WithdrawKeeps ==
  ASSUME IInv, NEW r \in Requests, Withdraw(r)
  PROVE  JournalOK' /\ RestOK' /\ WorkStep
<1> PICK op : op = req[r].op  OBVIOUS
<1>1. /\ req[r].pc = "prepared" /\ ~InCanon(op) /\ Fail(r, TRUE)
      /\ UNCHANGED <<canon, gens, recon, fin>>
  BY DEF Withdraw, storeVars
<1>2. op \in Ops
  BY <1>1, RequestIs DEF IInv, Holding
<1>3. PassQuiet
  BY <1>1 DEF PassQuiet
<1>4. /\ req'[r].pc = "settle"
      /\ \A q \in Requests \ {r} : req'[q] = req[q]
  BY <1>1, FailSets DEF IInv, Typed
<1>5. RequestsQuiet
  BY <1>4 DEF RequestsQuiet, Holding
<1>6. CASE RemoveOperation(op, Unbound)
  <2>1. /\ JournalOK' /\ WorkStep /\ OnlyAt(op) /\ Agree(op)' /\ Apart(op) /\ ~InCanon(op)'
    BY <1>1, <1>2, <1>6, RemovedAgree
  <2>2. OthersQuiet(op)
    BY <1>1, <1>4 DEF OthersQuiet, QuietAt, Holding
  <2>3. LeaseOK'
    BY <1>3, <1>5, NoNewLease DEF IInv, RestOK, RequestsQuiet
  <2>4. \A q \in Requests : req'[q].pc \in Holding => req'[q].op # op
    BY <1>1, <1>4 DEF IInv, RestOK, LeaseOK, Holds, Holding
  <2> QED  BY <1>2, <2>1, <2>2, <2>3, <2>4, OpKeeps DEF IInv
<1>7. CASE UNCHANGED journal
  <2>1. StoresQuiet
    BY <1>1, <1>7 DEF StoresQuiet, Retargets
  <2> QED  BY <1>3, <1>5, <1>7, <2>1, QuietKeeps, JournalSame DEF IInv
<1> QED  BY <1>6, <1>7 DEF Withdraw

-----------------------------------------------------------------------------
(* The store's clear, whoever runs it: it has the lease of its operation,  *)
(* which is in the journal.                                                *)

LEMMA CanonIs ==
  ASSUME IInv, NEW op, InCanon(op)
  PROVE  /\ op \in Ops /\ op \in DOMAIN canon /\ op \in DOMAIN journal
         /\ canon[op].gen \in Nat \ {0} /\ canon[op].gen <= gens /\ gens \in Nat
         /\ Partial(canon[op].entry, Origins, Entry)
         /\ DOMAIN canon[op].entry = DOMAIN journal[op].before
BY DEF IInv, Typed, StoreTyped, Canonical, InCanon, Present, RestOK, CanonOK, SnapshotConsistent

LEMMA BeginClearAgrees ==
  ASSUME IInv, NEW op \in Ops, NEW before, BeginClear(op, before), UNCHANGED journal,
         Present(op), ~Bound(op), before = journal[op].before
  PROVE  OnlyAt(op) /\ Agree(op)' /\ Apart(op)
<1>1. /\ ~InCanon(op) /\ gens \in Nat /\ gens' = gens + 1
      /\ DOMAIN canon' = DOMAIN canon \cup {op}
      /\ canon'[op].gen = gens + 1 /\ DOMAIN canon'[op].entry = DOMAIN before
      /\ \A x \in DOMAIN canon \ {op} : canon'[x] = canon[x]
  BY DEF BeginClear, IInv, Typed, StoreTyped
<1>2. OnlyAt(op)
  BY <1>1 DEF OnlyAt
<1>3. \A x \in DOMAIN journal : journal[x].gen <= gens /\ journal[x].gen \in Nat
  BY DEF IInv, RestOK, CanonOK, Typed, JournalTypeOK, Operation
<1>4. \A x \in DOMAIN canon : canon[x].gen <= gens /\ canon[x].gen \in Nat
  BY DEF IInv, RestOK, CanonOK, Typed, StoreTyped, Canonical
<1>5. Agree(op)'
  BY <1>1, <1>3 DEF Agree, InCanon, Present, Bound
<1>6. Apart(op)
  <2>1. Owned(op)' = Owned(op)
    BY <1>1 DEF Owned, InCanon, Present
  <2>2. \A x \in DOMAIN canon \ {op} : canon'[op].gen # canon[x].gen
    BY <1>1, <1>4
  <2>3. \A y \in DOMAIN journal \ {op} : canon'[op].gen # journal[y].gen
    BY <1>1, <1>3
  <2>4. \A x \in DOMAIN canon \ {op} : journal'[op].gen # canon[x].gen
    BY DEF IInv, RestOK, SnapshotConsistent, Present
  <2> QED  BY <2>1, <2>2, <2>3, <2>4 DEF Apart, IInv, RestOK, SnapshotConsistent
<1> QED  BY <1>2, <1>5, <1>6

LEMMA ClearOriginSets ==
  ASSUME IInv, NEW op, NEW o, ClearOrigin(op, o)
  PROVE  /\ InCanon(op) /\ o \in Entries(op, "pending") /\ ~Bound(op)
         /\ DOMAIN canon' = DOMAIN canon /\ gens' = gens
         /\ \A x \in DOMAIN canon \ {op} : canon'[x] = canon[x]
         /\ canon'[op].gen = canon[op].gen
         /\ DOMAIN canon'[op].entry = DOMAIN canon[op].entry
         /\ \A p \in DOMAIN canon[op].entry \ {o} : canon'[op].entry[p] = canon[op].entry[p]
         /\ canon'[op].entry[o].state # "pending"
<1>1. /\ InCanon(op) /\ o \in Entries(op, "pending") /\ gens' = gens
  BY DEF ClearOrigin
<1>2. o \in DOMAIN canon[op].entry
  BY <1>1 DEF Entries
<1>3. /\ canon[op] = [gen |-> canon[op].gen, entry |-> canon[op].entry]
      /\ Partial(canon[op].entry, Origins, Entry)
  BY <1>1 DEF IInv, Typed, StoreTyped, Canonical, InCanon
<1> PICK e : e = canon[op].entry  OBVIOUS
<1> PICK st : st = IF Clearable(op, o) THEN "committed" ELSE "conflict"  OBVIOUS
<1>4. e = [x \in DOMAIN e |-> e[x]] /\ e[o] \in Entry
  BY <1>2, <1>3, PartialIs
<1> PICK en : en = [e[o] EXCEPT !.state = st]  OBVIOUS
<1>5. en.state # "pending"
  BY <1>4 DEF Entry
<1> PICK f : f = [e EXCEPT ![o] = en]  OBVIOUS
<1>6. /\ DOMAIN f = DOMAIN e /\ f[o] = en
      /\ \A p \in DOMAIN e \ {o} : f[p] = e[p]
  BY <1>2, <1>4
<1> PICK c : c = [canon[op] EXCEPT !.entry = f]  OBVIOUS
<1>7. c.gen = canon[op].gen /\ c.entry = f
  BY <1>3
<1>8. canon' = [canon EXCEPT ![op] = c]
  BY DEF ClearOrigin
<1>9. /\ DOMAIN canon' = DOMAIN canon /\ canon'[op] = c
      /\ \A x \in DOMAIN canon \ {op} : canon'[x] = canon[x]
  BY <1>1, <1>8 DEF IInv, Typed, StoreTyped, InCanon
<1>10. ~Bound(op)
  <2>1. Bound(op) => Settled(op)
    BY <1>1 DEF IInv, RestOK, SnapshotConsistent, InCanon, Bound, Present
  <2> QED  BY <1>1, <2>1 DEF Settled
<1>11. canon'[op].gen = canon[op].gen /\ canon'[op].entry = f
  BY <1>7, <1>9
<1>12. /\ DOMAIN canon'[op].entry = DOMAIN canon[op].entry
       /\ \A p \in DOMAIN canon[op].entry \ {o} : canon'[op].entry[p] = canon[op].entry[p]
       /\ canon'[op].entry[o].state # "pending"
  BY <1>5, <1>6, <1>11
<1> QED  BY <1>1, <1>9, <1>10, <1>11, <1>12

LEMMA ClearOriginAgrees ==
  ASSUME IInv, NEW op, NEW o, ClearOrigin(op, o), UNCHANGED journal
  PROVE  /\ OnlyAt(op) /\ Agree(op)' /\ Apart(op)
         /\ Entries(op, "pending")' = Entries(op, "pending") \ {o}
<1>1. /\ InCanon(op) /\ o \in Entries(op, "pending") /\ ~Bound(op)
      /\ DOMAIN canon' = DOMAIN canon /\ gens' = gens
      /\ \A x \in DOMAIN canon \ {op} : canon'[x] = canon[x]
      /\ canon'[op].gen = canon[op].gen
      /\ DOMAIN canon'[op].entry = DOMAIN canon[op].entry
      /\ \A p \in DOMAIN canon[op].entry \ {o} : canon'[op].entry[p] = canon[op].entry[p]
      /\ canon'[op].entry[o].state # "pending"
  BY ClearOriginSets
<1>2. OnlyAt(op)
  BY <1>1, CanonIs DEF OnlyAt
<1>3. Entries(op, "pending")' = Entries(op, "pending") \ {o}
  BY <1>1 DEF Entries
<1>4. Agree(op)'
  <2>1. InCanon(op)' /\ Present(op)' /\ ~Bound(op)' /\ canon'[op].gen <= gens'
        /\ DOMAIN canon'[op].entry = DOMAIN journal'[op].before
    BY <1>1, CanonIs DEF InCanon, Present, Bound
  <2>2. journal'[op].gen <= gens'
    BY <1>1, CanonIs DEF IInv, RestOK, CanonOK
  <2> QED  BY <2>1, <2>2 DEF Agree
<1>5. Apart(op)
  <2>1. Owned(op)' = Owned(op)
    BY <1>1 DEF Owned, InCanon, Present
  <2>2. \A x \in DOMAIN canon \ {op} : canon'[op].gen # canon[x].gen
    BY <1>1 DEF IInv, RestOK, CanonOK, InCanon
  <2>3. \A y \in DOMAIN journal \ {op} : canon'[op].gen # journal[y].gen
    BY <1>1 DEF IInv, RestOK, SnapshotConsistent, InCanon
  <2>4. \A x \in DOMAIN canon \ {op} : journal'[op].gen # canon[x].gen
    BY <1>1, CanonIs DEF IInv, RestOK, SnapshotConsistent
  <2> QED  BY <1>1, <2>1, <2>2, <2>3, <2>4, CanonIs DEF Apart, IInv, RestOK, SnapshotConsistent
<1> QED  BY <1>2, <1>3, <1>4, <1>5

LEMMA FinalizeClearAgrees ==
  ASSUME IInv, NEW op \in Ops, FinalizeClear(op), UNCHANGED <<journal, gens>>
  PROVE  OnlyAt(op) /\ Agree(op)' /\ Apart(op) /\ ~InCanon(op)'
<1>1. /\ DOMAIN canon' = DOMAIN canon \ {op}
      /\ \A x \in DOMAIN canon' : canon'[x] = canon[x]
  BY DEF FinalizeClear
<1>2. OnlyAt(op)
  BY <1>1 DEF OnlyAt, IInv, Typed, StoreTyped
<1>3. ~InCanon(op)'
  BY <1>1 DEF InCanon
<1>4. Agree(op)'
  BY <1>3 DEF Agree, IInv, RestOK, CanonOK, Present
<1>5. Apart(op)
  <2>1. Owned(op)' \subseteq Owned(op)
    BY <1>3 DEF Owned, Present
  <2>2. \A x \in DOMAIN canon \ {op} : Present(op)' => journal'[op].gen # canon[x].gen
    BY DEF IInv, RestOK, SnapshotConsistent, Present
  <2> QED  BY <1>3, <2>1, <2>2 DEF Apart, IInv, RestOK, SnapshotConsistent
<1> QED  BY <1>2, <1>3, <1>4, <1>5

LEMMA CommitAgrees ==
  ASSUME IInv, NEW op \in Ops, Settled(op), CommitOrigins(op, canon[op].gen, Committed(op)),
         UNCHANGED <<canon, gens>>
  PROVE  JournalOK' /\ WorkStep /\ OnlyAt(op) /\ Agree(op)' /\ Apart(op)
<1> PICK g, a : g = canon[op].gen /\ a = Committed(op)  OBVIOUS
<1>1. InCanon(op) /\ g \in Nat /\ g <= gens /\ gens \in Nat
  BY CanonIs DEF Settled
<1>2. Partial(a, Origins, Nat)
  <2>1. Partial(canon[op].entry, Origins, Entry)
    BY <1>1, CanonIs
  <2>2. \A o \in DOMAIN canon[op].entry : o \in Origins /\ canon[op].entry[o] \in Entry
    BY <2>1, PartialIs
  <2>3. /\ DOMAIN a \subseteq DOMAIN canon[op].entry /\ a = [o \in DOMAIN a |-> a[o]]
        /\ \A o \in DOMAIN a : a[o] = canon[op].entry[o].after
    BY DEF Committed, Entries
  <2>4. \A o \in DOMAIN a : o \in Origins /\ a[o] \in Nat
    BY <2>2, <2>3 DEF Entry
  <2> QED  BY <2>3, <2>4, PartialIf
<1>3. /\ JournalOK' /\ WorkStep
      /\ op \in DOMAIN journal /\ DOMAIN journal' = DOMAIN journal
      /\ \A x \in DOMAIN journal \ {op} : journal'[x] = journal[x]
      /\ journal[op].gen = Unbound /\ journal'[op].gen = g
      /\ journal'[op].before = journal[op].before /\ journal'[op].after = a
  BY <1>1, <1>2, CommitOriginsKeeps DEF IInv
<1>4. OnlyAt(op)
  BY <1>1, <1>3 DEF OnlyAt
<1>5. Agree(op)'
  <2>1. InCanon(op)' /\ Present(op)' /\ Settled(op)' /\ Committed(op)' = Committed(op)
    BY <1>1, <1>3 DEF InCanon, Present, Settled, Entries, Committed
  <2> QED  BY <1>1, <1>3, <2>1, CanonIs DEF Agree
<1>6. Apart(op)
  <2>1. Owned(op)' = Owned(op)
    BY <1>3 DEF Owned, InCanon, Present
  <2>2. \A x \in DOMAIN canon \ {op} : canon'[op].gen # canon[x].gen
    BY <1>1 DEF IInv, RestOK, CanonOK, InCanon
  <2>3. \A y \in DOMAIN journal \ {op} : canon'[op].gen # journal[y].gen
    BY <1>1 DEF IInv, RestOK, SnapshotConsistent, InCanon
  <2>4. \A x \in DOMAIN canon \ {op} : journal'[op].gen # canon[x].gen
    BY <1>3, <2>2
  <2> QED  BY <2>1, <2>2, <2>3, <2>4 DEF Apart, IInv, RestOK, SnapshotConsistent
<1> QED  BY <1>3, <1>4, <1>5, <1>6

LEMMA SoleHolder ==
  ASSUME IInv, NEW r \in Requests, req[r].pc \in Holding
  PROVE  /\ \A q \in Requests \ {r} : req[q].pc \in Holding => req[q].op # req[r].op
         /\ recon.held # req[r].op /\ fin[req[r].op].pc # "half"
         /\ req[r].op \in Ops
BY LeaseShape DEF IInv, RestOK, LeaseOK, Holds

\* A step of the request that holds the lease, for which only its place changes.
LEMMA HolderKeeps ==
  ASSUME IInv, NEW r \in Requests, req[r].pc \in Holding, NEW op, op = req[r].op,
         \A q \in Requests \ {r} : req'[q] = req[q],
         req'[r].pc # "found", req'[r].pc \in Holding => req'[r].op = op,
         UNCHANGED <<recon, fin>>, OnlyAt(op), Agree(op)', Apart(op),
         req'[r].pc \in Holding => HolderAt(r)'
  PROVE  RestOK'
<1>1. /\ op \in Ops /\ recon.held # op /\ fin[op].pc # "half"
      /\ \A q \in Requests \ {r} : req[q].pc \in Holding => req[q].op # op
  BY SoleHolder
<1>2. PassQuiet
  BY DEF PassQuiet
<1>3. OthersQuiet(op)
  BY DEF OthersQuiet, QuietAt, Holding
<1>4. LeaseOK'
  BY <1>2, NoNewLease DEF IInv, RestOK
<1>5. \A q \in Requests : req'[q].op = op /\ req'[q].pc \in Holding => HolderAt(q)'
  BY <1>1
<1> QED  BY <1>1, <1>3, <1>4, <1>5, OpKeeps DEF IInv

LEMMA ClearSessionsKeeps ==
  ASSUME IInv, NEW r \in Requests, ClearSessions(r)
  PROVE  JournalOK' /\ RestOK' /\ WorkStep
<1> PICK op : op = req[r].op  OBVIOUS
<1>1. /\ req[r].pc = "prepared" /\ req[r].pc \in Holding
      /\ UNCHANGED <<journal, recon, fin>>
  BY DEF ClearSessions, Holding
<1>2. /\ Present(op) /\ ~Bound(op) /\ req[r].before = journal[op].before
  BY <1>1 DEF IInv, RestOK, HolderOK
<1>3. op \in Ops
  BY <1>1, SoleHolder
<1>4. JournalOK' /\ WorkStep
  BY <1>1, JournalSame DEF IInv
<1>5. Present(op)' /\ ~Bound(op)'
  BY <1>1, <1>2 DEF Present, Bound
<1>6. CASE BeginClear(op, req[r].before) /\ UNCHANGED req
  <2>1. OnlyAt(op) /\ Agree(op)' /\ Apart(op)
    <3> PICK b : b = req[r].before  OBVIOUS
    <3> QED  BY <1>1, <1>2, <1>3, <1>6, BeginClearAgrees
  <2>2. HolderAt(r)'
    BY <1>1, <1>2, <1>5, <1>6 DEF HolderAt, Present, Bound
  <2>3. RestOK'
    BY <1>1, <1>6, <2>1, <2>2, HolderKeeps
  <2> QED  BY <1>4, <2>3
<1>7. CASE Fail(r, TRUE) /\ UNCHANGED storeVars
  <2>1. RequestsQuiet
    BY <1>7, FailSets DEF RequestsQuiet, IInv, Typed, Holding
  <2>2. StoresQuiet /\ PassQuiet
    BY <1>1, <1>7 DEF StoresQuiet, Retargets, PassQuiet, storeVars
  <2> QED  BY <1>4, <2>1, <2>2, QuietKeeps DEF IInv
<1>8. ASSUME NEW o \in Origins, ClearOrigin(op, o),
             IF CutShort(op, o) THEN Fail(r, TRUE)
             ELSE req' = [req EXCEPT ![r].pc = IF Entries(op, "pending") = {o}
                                               THEN "cleared" ELSE @]
      PROVE  RestOK'
  <2>1. /\ OnlyAt(op) /\ Agree(op)' /\ Apart(op)
        /\ Entries(op, "pending")' = Entries(op, "pending") \ {o}
    BY <1>1, <1>8, ClearOriginAgrees
  <2>2. CASE CutShort(op, o)
    <3>1. req'[r].pc = "settle" /\ \A q \in Requests \ {r} : req'[q] = req[q]
      BY <1>8, <2>2, FailSets DEF IInv, Typed
    <3> QED  BY <1>1, <2>1, <3>1, HolderKeeps DEF Holding
  <2>3. CASE ~CutShort(op, o)
    <3>1. /\ req'[r].pc = IF Entries(op, "pending") = {o} THEN "cleared" ELSE "prepared"
          /\ req'[r].op = op /\ req'[r].before = req[r].before
          /\ \A q \in Requests \ {r} : req'[q] = req[q]
      BY <1>1, <1>8, <2>3 DEF IInv, Typed, RequestTyped, Request
    <3>2. InCanon(op)'
      BY <1>8, ClearOriginSets DEF InCanon
    <3>3. Entries(op, "pending") = {o} => Settled(op)'
      BY <2>1, <3>2 DEF Settled
    <3>4. HolderAt(r)'
      BY <1>1, <1>2, <1>5, <3>1, <3>3 DEF HolderAt, Present, Bound, Settled, InCanon, Entries
    <3> QED  BY <1>1, <2>1, <3>1, <3>4, HolderKeeps DEF Holding
  <2> QED  BY <2>2, <2>3
<1> QED  BY <1>4, <1>6, <1>7, <1>8 DEF ClearSessions

LEMMA BindKeeps ==
  ASSUME IInv, NEW r \in Requests, Bind(r)
  PROVE  JournalOK' /\ RestOK' /\ WorkStep
<1> PICK op : op = req[r].op  OBVIOUS
<1>1. /\ req[r].pc = "cleared" /\ req[r].pc \in Holding
      /\ CommitOrigins(op, canon[op].gen, Committed(op))
      /\ UNCHANGED <<canon, gens, recon, fin>>
  BY DEF Bind, Holding, storeVars, passVars
<1>2. Settled(op) /\ op \in Ops
  BY <1>1, SoleHolder DEF IInv, RestOK, HolderOK
<1>3. JournalOK' /\ WorkStep /\ OnlyAt(op) /\ Agree(op)' /\ Apart(op)
  BY <1>1, <1>2, CommitAgrees
<1>4. req'[r].pc = "await" /\ \A q \in Requests \ {r} : req'[q] = req[q]
  <2> DEFINE n == [req[r] EXCEPT
        !.pc = "await", !.gen = canon[op].gen, !.after = Committed(op),
        !.subs = DOMAIN journal'[op].targets,
        !.unsent = {[op |-> op, gen |-> canon[op].gen, sub |-> s,
                     rev |-> journal[op].targets[s].rev] :
                      s \in {x \in OpenSubjects(op) : x.origin \in DOMAIN Committed(op)}},
        !.waiting = {[op |-> op, gen |-> canon[op].gen, sub |-> s,
                      rev |-> journal[op].targets[s].rev] :
                       s \in {x \in OpenSubjects(op) : x.origin \in DOMAIN Committed(op)}}]
  <2>0. req' = [req EXCEPT ![r] = n]
    BY DEF Bind
  <2>1. n.pc = "await"
    BY DEF IInv, Typed, RequestTyped, Request
  <2> HIDE DEF n
  <2> QED  BY <2>0, <2>1 DEF IInv, Typed, RequestTyped
<1>5. RestOK'
  BY <1>1, <1>3, <1>4, HolderKeeps DEF Holding
<1> QED  BY <1>3, <1>5

LEMMA GiveUpKeeps ==
  ASSUME IInv, NEW r \in Requests, GiveUp(r)
  PROVE  JournalOK' /\ RestOK' /\ WorkStep
<1> PICK op : op = req[r].op  OBVIOUS
<1>1. UNCHANGED <<gens, recon, fin>>
  BY DEF GiveUp
<1>2. CASE /\ req[r].pc = "cleared" /\ FinalizeClear(op)
           /\ req' = [req EXCEPT ![r].pc = "drop"] /\ UNCHANGED journal
  <2>1. op \in Ops
    BY <1>2, SoleHolder DEF Holding
  <2>2. OnlyAt(op) /\ Agree(op)' /\ Apart(op) /\ ~InCanon(op)'
    BY <1>1, <1>2, <2>1, FinalizeClearAgrees
  <2>3. /\ req'[r].pc = "drop" /\ req'[r].op = op
        /\ \A q \in Requests \ {r} : req'[q] = req[q]
    BY <1>2 DEF IInv, Typed, RequestTyped, Request
  <2>4. HolderAt(r)'
    BY <2>2, <2>3 DEF HolderAt, InCanon
  <2>5. RestOK'
    BY <1>1, <1>2, <2>2, <2>3, <2>4, HolderKeeps DEF Holding
  <2> QED  BY <1>2, <2>5, JournalSame DEF IInv
<1>3. CASE /\ req[r].pc = "drop" /\ RemoveOperation(op, Unbound) /\ Fail(r, FALSE)
           /\ UNCHANGED canon
  <2>1. ~InCanon(op) /\ op \in Ops
    BY <1>3, SoleHolder DEF Holding, IInv, RestOK, HolderOK
  <2>2. /\ JournalOK' /\ WorkStep /\ OnlyAt(op) /\ Agree(op)' /\ Apart(op)
    BY <1>1, <1>3, <2>1, RemovedAgree
  <2>3. /\ req'[r].pc = "settle"
        /\ \A q \in Requests \ {r} : req'[q] = req[q]
    BY <1>3, FailSets DEF IInv, Typed
  <2>4. RestOK'
    BY <1>1, <1>3, <2>2, <2>3, HolderKeeps DEF Holding
  <2> QED  BY <2>2, <2>4
<1> QED  BY <1>2, <1>3 DEF GiveUp

\* The stores as they are agree, and stay so while they stay.
LEMMA AgreeSame ==
  ASSUME IInv, NEW op, UNCHANGED <<journal, canon, gens>>
  PROVE  OnlyAt(op) /\ Agree(op)' /\ Apart(op)
<1>1. OnlyAt(op)
  BY DEF OnlyAt, IInv, Typed, StoreTyped
<1>2. Agree(op)
  BY CanonIs DEF Agree, IInv, RestOK, CanonOK, SnapshotConsistent, InCanon, Present
<1>3. Agree(op)'
  BY <1>2 DEF Agree, InCanon, Present, Bound, Settled, Entries, Committed
<1>4. Apart(op)
  <2>1. Owned(op)' = Owned(op)
    BY DEF Owned, InCanon, Present
  <2>2. \A x \in DOMAIN canon \ {op} :
          /\ InCanon(op)' => canon'[op].gen # canon[x].gen
          /\ Present(op)' => journal'[op].gen # canon[x].gen
    BY DEF IInv, RestOK, CanonOK, SnapshotConsistent, InCanon, Present
  <2>3. \A y \in DOMAIN journal \ {op} : InCanon(op)' => canon'[op].gen # journal[y].gen
    BY DEF IInv, RestOK, SnapshotConsistent, InCanon
  <2> QED  BY <2>1, <2>2, <2>3 DEF Apart, IInv, RestOK, SnapshotConsistent, Owned, InCanon, Present,
              Typed, JournalTypeOK, StoreTyped
<1> QED  BY <1>1, <1>3, <1>4

\* A request that takes up a clear left by another: it finds what it relies on.
LEMMA ResumeKeeps ==
  ASSUME IInv, NEW r \in Requests, Resume(r)
  PROVE  JournalOK' /\ RestOK' /\ WorkStep
<1> PICK op : op = req[r].op  OBVIOUS
<1>1. /\ req[r].pc = "asked" /\ LeaseFree(op) /\ Present(op)
      /\ UNCHANGED <<journal, canon, gens, recon, fin>>
  BY DEF Resume, MayResume, storeVars, passVars
<1>2. op \in Ops
  BY <1>1 DEF Present, IInv, Typed, JournalTypeOK
<1>3. /\ req'[r].op = op
      /\ IF Bound(op) THEN req'[r].pc = "await"
         ELSE /\ req'[r].before = journal[op].before
              /\ req'[r].pc = IF Settled(op) THEN "cleared" ELSE "prepared"
      /\ \A q \in Requests \ {r} : req'[q] = req[q]
  <2> DEFINE a == [req[r] EXCEPT
        !.pc = "await", !.resumed = TRUE, !.gen = journal[op].gen,
        !.after = journal[op].after, !.subs = DOMAIN journal[op].targets,
        !.unsent = OpenRefs(op), !.waiting = OpenRefs(op)]
  <2> DEFINE b == [req[r] EXCEPT
        !.resumed = TRUE, !.before = journal[op].before,
        !.pc = IF Settled(op) THEN "cleared" ELSE "prepared"]
  <2>1. req' = [req EXCEPT ![r] = IF Bound(op) THEN a ELSE b]
    BY DEF Resume
  <2>2. /\ a.pc = "await" /\ a.op = op
        /\ b.before = journal[op].before /\ b.op = op
        /\ b.pc = IF Settled(op) THEN "cleared" ELSE "prepared"
    BY DEF IInv, Typed, RequestTyped, Request
  <2> HIDE DEF a, b
  <2> QED  BY <2>1, <2>2 DEF IInv, Typed, RequestTyped
<1>4. PassQuiet
  BY <1>1 DEF PassQuiet
<1>5. LeaseOK'
  BY <1>1, <1>2, <1>3, <1>4, RequestTakesLease DEF IInv, RestOK
<1>6. OthersQuiet(op)
  BY <1>1, <1>3 DEF OthersQuiet, QuietAt
<1>7. OnlyAt(op) /\ Agree(op)' /\ Apart(op)
  BY <1>1, AgreeSame
<1>8. \A q \in Requests : req'[q].op = op /\ req'[q].pc \in Holding => HolderAt(q)'
  <2>1. \A q \in Requests \ {r} : req'[q].pc \in Holding => req'[q].op # op
    BY <1>1, <1>3 DEF LeaseFree, Holding
  <2>2. req'[r].pc \in Holding => ~Bound(op)
    BY <1>3 DEF Holding
  <2>3. HolderAt(r)'
    BY <1>1, <1>3 DEF HolderAt, Present, Bound, Settled, InCanon, Entries
  <2> QED  BY <2>1, <2>3
<1>9. fin'[op].pc # "half"
  BY <1>1 DEF LeaseFree
<1> QED  BY <1>1, <1>2, <1>5, <1>6, <1>7, <1>8, <1>9, OpKeeps, JournalSame DEF IInv

\* A discovery finds at most one page per frame.
LEMMA DiscoverKeeps ==
  ASSUME IInv, NEW r \in Requests, Discover(r)
  PROVE  JournalOK' /\ RestOK' /\ WorkStep
<1> DEFINE F == {g \in Frames \ closed : PlaceOf(live[g]) \in saved}
           S == {live[f] : f \in F}
           os == {req[r].origin} \cup {s.origin : s \in S}
           b == [o \in os |-> IF o = req[r].origin THEN req[r].epoch ELSE epoch[o]]
<1>1. UNCHANGED <<journal, canon, gens, recon, fin>>
  BY DEF Discover, storeVars
<1>2. IsFiniteSet(S)
  <2>1. IsFiniteSet(F)
    BY ConstantsOK, FS_Subset
  <2> PICK G, T : G = F /\ T = S
    OBVIOUS
  <2> PICK g : g = [f \in G |-> live[f]]
    OBVIOUS
  <2>2. g \in Surjection(G, T)
    BY DEF Surjection
  <2> HIDE DEF F, S
  <2> QED  BY <2>1, <2>2, FS_Surjection
<1>3. \/ \E d : Fail(r, d)
      \/ /\ req'[r].pc = "found" /\ req'[r].subs = S
         /\ \A q \in Requests \ {r} : req'[q] = req[q]
  <2>1. CASE req' = [req EXCEPT ![r] = [req[r] EXCEPT !.pc = "found", !.fresh = TRUE,
                                                      !.subs = S, !.before = b]]
    <3> DEFINE n == [req[r] EXCEPT !.pc = "found", !.fresh = TRUE, !.subs = S, !.before = b]
    <3> HIDE DEF S, b
    <3>1. n.pc = "found" /\ n.subs = S
      BY DEF IInv, Typed, RequestTyped, Request
    <3> HIDE DEF n
    <3>2. req' = [req EXCEPT ![r] = n]
      BY <2>1 DEF n
    <3> QED  BY <3>1, <3>2 DEF IInv, Typed, RequestTyped
  <2>2. CASE Fail(r, FALSE)
    BY <2>2
  <2> QED  BY <2>1, <2>2 DEF Discover
<1> HIDE DEF S
<1>4. CASE \E d : Fail(r, d)
  <2>1. RequestsQuiet
    BY <1>4, FailSets DEF RequestsQuiet, IInv, Typed, Holding
  <2>2. StoresQuiet /\ PassQuiet
    BY <1>1 DEF StoresQuiet, Retargets, PassQuiet
  <2> QED  BY <1>1, <2>1, <2>2, QuietKeeps, JournalSame DEF IInv
<1>5. CASE /\ req'[r].pc = "found" /\ req'[r].subs = S
           /\ \A q \in Requests \ {r} : req'[q] = req[q]
  <2>1. \A q \in Requests : req'[q].pc = "found" => IsFiniteSet(req'[q].subs)
    BY <1>2, <1>5 DEF IInv, RestOK
  <2>2. LeaseOK'
    BY <1>1, <1>5, NoNewLease DEF PassQuiet, IInv, RestOK, Holding
  <2>3. \A q \in Requests : req'[q].pc \in Holding => req'[q] = req[q]
    BY <1>5 DEF Holding
  <2>4. HolderOK'
    <3>1. ASSUME NEW q \in Requests, req'[q].pc \in Holding
          PROVE  HolderAt(q)'
      <4>1. HolderAt(q)
        BY DEF HolderAt, IInv, RestOK, HolderOK
      <4> QED  BY <1>1, <2>3, <3>1, <4>1 DEF HolderAt, Present, Bound, Settled, InCanon, Entries
    <3>2. \A op \in Ops : fin'[op].pc = "half" => ~InCanon(op)'
      BY <1>1 DEF IInv, RestOK, HolderOK, InCanon
    <3> QED  BY <3>1, <3>2 DEF HolderOK, HolderAt, Holding
  <2>5. CanonOK' /\ SnapshotConsistent'
    BY <1>1 DEF IInv, RestOK, CanonOK, SnapshotConsistent, Present, Bound, Settled, InCanon,
                Entries, Owned, Committed
  <2> QED  BY <1>1, <2>1, <2>2, <2>4, <2>5, JournalSame DEF IInv, RestOK
<1> QED  BY <1>3, <1>4, <1>5

-----------------------------------------------------------------------------
(* The reconcile pass and the finalisations.                               *)

\* A step of the pass or of a finalisation, for the operation it has taken.
LEMMA PassKeeps ==
  ASSUME IInv, NEW op \in Ops, UNCHANGED req,
         \A q \in Requests : req[q].pc \in Holding => req[q].op # op,
         \A c \in Ops \ {op} : fin'[c].pc = "half" => fin[c].pc = "half",
         recon'.held \in {None, recon.held, op},
         recon'.held = op => fin'[op].pc # "half",
         fin'[op].pc = "half" => recon'.held # op,
         OnlyAt(op), Agree(op)', Apart(op), fin'[op].pc = "half" => ~InCanon(op)'
  PROVE  RestOK'
<1>1. OthersQuiet(op)
  BY DEF OthersQuiet, QuietAt
<1>2. LeaseOK'
  BY LeaseShape DEF IInv, RestOK, LeaseOK, Holds
<1> QED  BY <1>1, <1>2, OpKeeps DEF IInv

\* A finalisation takes the lease and removes the clear from the store.
LEMMA FinalizeKeeps ==
  ASSUME IInv, NEW op \in Ops, Finalize(op)
  PROVE  JournalOK' /\ RestOK' /\ WorkStep
<1>1. /\ LeaseFree(op) /\ UNCHANGED <<journal, gens, req, recon>>
  BY DEF Finalize
<1>2. /\ \A q \in Requests : req[q].pc \in Holding => req[q].op # op
      /\ recon.held # op /\ fin[op].pc # "half"
  BY <1>1 DEF LeaseFree, Holding
<1>3. \A c \in Ops \ {op} : fin'[c].pc = "half" => fin[c].pc = "half"
  BY DEF Finalize, IInv, Typed, WorkerTyped
<1>4. CASE FinalizeClear(op)
  <2>1. OnlyAt(op) /\ Agree(op)' /\ Apart(op) /\ ~InCanon(op)'
    BY <1>1, <1>4, FinalizeClearAgrees
  <2>2. RestOK'
    BY <1>1, <1>2, <1>3, <2>1, PassKeeps
  <2> QED  BY <1>1, <2>2, JournalSame DEF IInv
<1>5. CASE fin' = [fin EXCEPT ![op] = NoFin] /\ UNCHANGED canon
  <2>1. fin'[op].pc # "half"
    BY <1>5 DEF NoFin, IInv, Typed, WorkerTyped
  <2>2. OnlyAt(op) /\ Agree(op)' /\ Apart(op)
    BY <1>1, <1>5, AgreeSame
  <2>3. RestOK'
    BY <1>1, <1>2, <1>3, <2>1, <2>2, PassKeeps
  <2> QED  BY <1>1, <2>3, JournalSame DEF IInv
<1> QED  BY <1>4, <1>5 DEF Finalize

LEMMA ForgetKeeps ==
  ASSUME IInv, NEW op \in Ops, Forget(op)
  PROVE  JournalOK' /\ RestOK' /\ WorkStep
<1>1. /\ fin[op].pc = "half" /\ RemoveOperation(op, journal[op].gen)
      /\ fin' = [fin EXCEPT ![op] = NoFin]
      /\ UNCHANGED <<canon, gens, req, recon>>
  BY DEF Forget, storeVars
<1>2. ~InCanon(op)
  BY <1>1 DEF IInv, RestOK, HolderOK
<1>3. JournalOK' /\ WorkStep /\ OnlyAt(op) /\ Agree(op)' /\ Apart(op) /\ ~InCanon(op)'
  <2> PICK g : g = journal[op].gen  OBVIOUS
  <2> QED  BY <1>1, <1>2, RemovedAgree
<1>4. /\ fin'[op].pc # "half"
      /\ \A c \in Ops \ {op} : fin'[c].pc = "half" => fin[c].pc = "half"
  BY <1>1 DEF NoFin, IInv, Typed, WorkerTyped
<1>5. \A q \in Requests : req[q].pc \in Holding => req[q].op # op
  BY <1>1 DEF IInv, RestOK, LeaseOK
<1>6. RestOK'
  BY <1>1, <1>3, <1>4, <1>5, PassKeeps
<1> QED  BY <1>3, <1>6

\* What the pass knows of the operation it has taken.
LEMMA PassHolds ==
  ASSUME IInv, recon.held # None
  PROVE  /\ recon.held \in Ops
         /\ \A q \in Requests : req[q].pc \in Holding => req[q].op # recon.held
         /\ fin[recon.held].pc # "half"
BY DEF IInv, RestOK, LeaseOK, Typed, WorkerTyped

LEMMA ReconTakeKeeps ==
  ASSUME IInv, NEW op \in recon.todo, ReconTake(op)
  PROVE  JournalOK' /\ RestOK' /\ WorkStep
<1>1. /\ UNCHANGED <<journal, canon, gens, req, fin>> /\ op \in Ops
      /\ recon'.held \in {None, op} /\ (recon'.held = op => LeaseFree(op))
  <2>1. UNCHANGED <<journal, canon, gens, req, fin>> /\ op \in Ops
    BY DEF ReconTake, Rest, storeVars, IInv, Typed, WorkerTyped
  <2>2. recon'.held = IF Clearing(op) \/ ~Present(op) THEN None ELSE op
    BY DEF ReconTake, IInv, Typed, WorkerTyped
  <2>3. op # None
    BY <2>1, ConstantsOK
  <2> QED  BY <2>1, <2>2, <2>3 DEF ReconTake
<1>2. OnlyAt(op) /\ Agree(op)' /\ Apart(op)
  BY <1>1, AgreeSame
<1>3. CASE recon'.held = None
  <2>1. RequestsQuiet /\ StoresQuiet /\ PassQuiet
    BY <1>1, <1>3 DEF RequestsQuiet, StoresQuiet, Retargets, PassQuiet
  <2> QED  BY <1>1, <2>1, QuietKeeps, JournalSame DEF IInv
<1>4. CASE recon'.held = op
  <2>1. /\ \A q \in Requests : req[q].pc \in Holding => req[q].op # op
        /\ fin[op].pc # "half" /\ fin' = fin
    BY <1>1, <1>4 DEF LeaseFree, Holding
  <2>2. RestOK'
    BY <1>1, <1>2, <1>4, <2>1, PassKeeps
  <2> QED  BY <1>1, <2>2, JournalSame DEF IInv
<1> QED  BY <1>1, <1>3, <1>4

LEMMA ReconRemoveKeeps ==
  ASSUME IInv, ReconRemove
  PROVE  JournalOK' /\ RestOK' /\ WorkStep
<1> PICK op : op = recon.held  OBVIOUS
<1>1. /\ op # None /\ ~InCanon(op) /\ RemoveOperation(op, journal[op].gen)
      /\ recon'.held = None /\ UNCHANGED <<canon, gens, req, fin>>
  BY DEF ReconRemove, Release, storeVars, Rest, IInv, Typed, WorkerTyped
<1>2. /\ op \in Ops /\ fin[op].pc # "half"
      /\ \A q \in Requests : req[q].pc \in Holding => req[q].op # op
  BY <1>1, PassHolds
<1>3. JournalOK' /\ WorkStep /\ OnlyAt(op) /\ Agree(op)' /\ Apart(op)
  <2> PICK g : g = journal[op].gen  OBVIOUS
  <2> QED  BY <1>1, <1>2, RemovedAgree
<1>4. RestOK'
  BY <1>1, <1>2, <1>3, PassKeeps
<1> QED  BY <1>3, <1>4

LEMMA ReconClearKeeps ==
  ASSUME IInv, ReconClear
  PROVE  JournalOK' /\ RestOK' /\ WorkStep
<1> PICK op : op = recon.held  OBVIOUS
<1>1. PICK o \in Origins : ClearOrigin(op, o)
  BY DEF ReconClear
<1>2. /\ op # None /\ recon'.held \in {None, recon.held}
      /\ UNCHANGED <<journal, req, fin>>
  BY DEF ReconClear, Release, Rest, IInv, Typed, WorkerTyped
<1>3. /\ op \in Ops /\ fin[op].pc # "half"
      /\ \A q \in Requests : req[q].pc \in Holding => req[q].op # op
  BY <1>2, PassHolds
<1>4. OnlyAt(op) /\ Agree(op)' /\ Apart(op)
  BY <1>1, <1>2, ClearOriginAgrees
<1>5. RestOK'
  BY <1>2, <1>3, <1>4, PassKeeps
<1> QED  BY <1>2, <1>5, JournalSame DEF IInv

LEMMA ReconGiveUpKeeps ==
  ASSUME IInv, ReconGiveUp
  PROVE  JournalOK' /\ RestOK' /\ WorkStep
<1> PICK op : op = recon.held  OBVIOUS
<1>1. /\ op # None /\ FinalizeClear(op) /\ recon'.held = op
      /\ UNCHANGED <<journal, gens, req, fin>>
  BY DEF ReconGiveUp, Rest, IInv, Typed, WorkerTyped
<1>2. /\ op \in Ops /\ fin[op].pc # "half"
      /\ \A q \in Requests : req[q].pc \in Holding => req[q].op # op
  BY <1>1, PassHolds
<1>3. OnlyAt(op) /\ Agree(op)' /\ Apart(op)
  BY <1>1, <1>2, FinalizeClearAgrees
<1>4. RestOK'
  BY <1>1, <1>2, <1>3, PassKeeps
<1> QED  BY <1>1, <1>4, JournalSame DEF IInv

LEMMA ReconBindKeeps ==
  ASSUME IInv, ReconBind
  PROVE  JournalOK' /\ RestOK' /\ WorkStep
<1> PICK op : op = recon.held  OBVIOUS
<1>1. /\ op # None /\ Settled(op) /\ CommitOrigins(op, canon[op].gen, Committed(op))
      /\ UNCHANGED <<canon, gens, req, recon, fin>>
  BY DEF ReconBind, storeVars, Rest
<1>2. /\ op \in Ops /\ fin[op].pc # "half"
      /\ \A q \in Requests : req[q].pc \in Holding => req[q].op # op
  BY <1>1, PassHolds
<1>3. JournalOK' /\ WorkStep /\ OnlyAt(op) /\ Agree(op)' /\ Apart(op)
  BY <1>1, <1>2, CommitAgrees
<1>4. RestOK'
  BY <1>1, <1>2, <1>3, PassKeeps
<1> QED  BY <1>3, <1>4

-----------------------------------------------------------------------------
(* All other steps are quiet.                                              *)

Quiet == StoresQuiet /\ RequestsQuiet /\ PassQuiet

LEMMA StoresUntouched ==
  ASSUME UNCHANGED <<journal, canon, gens>>
  PROVE  StoresQuiet
BY DEF StoresQuiet, Retargets

LEMMA FinPart ==
  ASSUME Typed
  PROVE  \A op \in Ops : fin[op].pc \in {"idle", "asked", "half"}
BY DEF Typed, WorkerTyped

\* The user, the pages, messages, navigations and barriers.
LEMMA OutsideQuiet ==
  ASSUME PageNext \/ LoadBarriers
           \/ (\E m \in net : HandleRestore(m) \/ LoseMessage(m))
           \/ (\E t \in tasks : TaskEnd(t))
  PROVE  UNCHANGED <<journal, canon, gens, req, recon, fin>>
<1>1. CASE \E f \in Frames : Capture(f)
  BY <1>1 DEF Capture, passVars
<1>2. CASE \E f \in Frames : CloseFrame(f)
  BY <1>2 DEF CloseFrame, storeVars, passVars
<1>3. CASE \E f \in Frames, p \in Paths : ChangeRoute(f, p)
  BY <1>3 DEF ChangeRoute, storeVars, passVars
<1>4. CASE \E f \in Frames, p \in Paths, o \in Origins : Navigate(f, o, p)
  BY <1>4 DEF Navigate, storeVars, passVars
<1>5. CASE ClearAll
  BY <1>5 DEF ClearAll, passVars
<1>6. CASE \E m \in net : ShowMarkers(m)
  BY <1>6 DEF ShowMarkers, storeVars, passVars
<1>7. CASE \E m \in net : TakeDown(m)
  BY <1>7 DEF TakeDown, storeVars, passVars
<1>8. CASE LoadBarriers
  BY <1>8 DEF LoadBarriers, storeVars, passVars
<1>9. CASE \E m \in net : HandleRestore(m) \/ LoseMessage(m)
  BY <1>9 DEF HandleRestore, LoseMessage, storeVars, passVars
<1>10. CASE \E t \in tasks : TaskEnd(t)
  BY <1>10 DEF TaskEnd, storeVars
<1> QED  BY <1>1, <1>2, <1>3, <1>4, <1>5, <1>6, <1>7, <1>8, <1>9, <1>10 DEF PageNext

LEMMA PassStepsQuiet ==
  ASSUME Typed,
         \/ ReconStart \/ ReconLeave \/ ReconFinalize \/ ReconDrain \/ ReconEnd
         \/ DrainStart \/ DrainEnd \/ Reschedule \/ AlarmFires
  PROVE  UNCHANGED <<journal, canon, gens, req>> /\ PassQuiet
<1>1. CASE ReconStart
  BY <1>1 DEF ReconStart, PassQuiet, storeVars, Rest, Typed, WorkerTyped
<1>2. CASE ReconLeave
  BY <1>2 DEF ReconLeave, Release, PassQuiet, storeVars, Rest, Typed, WorkerTyped
<1>3. CASE ReconFinalize
  BY <1>3 DEF ReconFinalize, Release, AskFin, PassQuiet, storeVars, Rest, Typed, WorkerTyped
<1>4. CASE ReconDrain
  BY <1>4 DEF ReconDrain, PassQuiet, storeVars, Rest, Typed, WorkerTyped
<1>5. CASE ReconEnd
  BY <1>5 DEF ReconEnd, PassQuiet, storeVars, Rest, Typed, WorkerTyped
<1>6. CASE DrainStart
  BY <1>6 DEF DrainStart, PassQuiet, storeVars, Rest
<1>7. CASE DrainEnd
  BY <1>7 DEF DrainEnd, PassQuiet, storeVars, Rest
<1>8. CASE Reschedule
  BY <1>8 DEF Reschedule, PassQuiet, storeVars, Rest
<1>9. CASE AlarmFires
  BY <1>9 DEF AlarmFires, PassQuiet, storeVars, Typed, WorkerTyped
<1> QED  BY <1>1, <1>2, <1>3, <1>4, <1>5, <1>6, <1>7, <1>8, <1>9

LEMMA AnsweredQuiet ==
  ASSUME RequestTyped, NEW ref, NEW ok, Answered(ref, ok)
  PROVE  RequestsQuiet
<1> SUFFICES ASSUME NEW r \in Requests
             PROVE  /\ req'[r].pc = req[r].pc /\ req'[r].op = req[r].op
                    /\ req'[r].before = req[r].before /\ req'[r].subs = req[r].subs
  BY DEF RequestsQuiet
<1>1. req'[r] = IF ref \notin req[r].waiting THEN req[r]
                ELSE [req[r] EXCEPT !.waiting = @ \ {ref}, !.unsent = @ \ {ref},
                                    !.failed = @ \/ ~ok]
  BY DEF Answered
<1>2. Request(req[r])
  BY DEF RequestTyped
<1> QED  BY <1>1, <1>2 DEF Request

LEMMA RequestStepsQuiet ==
  ASSUME Typed, NEW r \in Requests,
         \/ \E op \in Ops : Look(r, op)
         \/ Ask(r) \/ Refuse(r) \/ Delivered(r) \/ Reply(r) \/ Settle(r)
         \/ RequestError(r) \/ BarrierError(r)
  PROVE  UNCHANGED <<journal, canon, gens>> /\ RequestsQuiet /\ PassQuiet
<1>0. Request(req[r]) /\ req = [q \in Requests |-> req[q]]
  BY DEF Typed, RequestTyped
<1>1. CASE \E op \in Ops : Look(r, op)
  <2>1. req'[r].pc = "looked" /\ \A q \in Requests \ {r} : req'[q] = req[q]
    <3> PICK op \in Ops : Look(r, op)
      BY <1>1
    <3> PICK n : n = [req[r] EXCEPT !.pc = "looked", !.op = op, !.origin = Top.origin,
                                    !.epoch = epoch[Top.origin]]
      OBVIOUS
    <3>1. req' = [req EXCEPT ![r] = n]
      BY DEF Look
    <3>2. n.pc = "looked"
      BY <1>0 DEF Request
    <3> QED  BY <1>0, <3>1, <3>2
  <2>2. UNCHANGED <<journal, canon, gens, recon, fin>>
    BY <1>1 DEF Look, storeVars, passVars
  <2>3. RequestsQuiet
    BY <2>1 DEF RequestsQuiet, Holding
  <2> QED  BY <2>2, <2>3 DEF PassQuiet
<1>2. CASE Ask(r)
  <2>1. req'[r].pc = "asked" /\ \A q \in Requests \ {r} : req'[q] = req[q]
    BY <1>0, <1>2 DEF Ask, Request
  <2> QED  BY <1>2, <2>1 DEF Ask, RequestsQuiet, PassQuiet, Holding, storeVars, passVars
<1>3. CASE Refuse(r)
  <2>1. req'[r].pc = "settle" /\ \A q \in Requests \ {r} : req'[q] = req[q]
    BY <1>3, FailSets DEF Refuse, Typed
  <2> QED  BY <1>3, <2>1 DEF Refuse, RequestsQuiet, PassQuiet, Holding, storeVars
<1>4. CASE Delivered(r)
  <2>1. /\ req'[r].pc \in {"settle", "final"}
        /\ \A q \in Requests \ {r} : req'[q] = req[q]
    <3>1. CASE req[r].failed
      BY <1>4, <3>1, FailSets DEF Delivered, Typed
    <3>2. CASE ~req[r].failed
      BY <1>0, <1>4, <3>2 DEF Delivered, Request
    <3> QED  BY <3>1, <3>2
  <2>2. PassQuiet
    <3> PICK c : c = req[r].op  OBVIOUS
    <3> PICK n : n = IF fin[c].pc = "idle" THEN [pc |-> "asked", att |-> None] ELSE fin[c]
      OBVIOUS
    <3>1. fin' = fin \/ fin' = [fin EXCEPT ![c] = n]
      BY <1>4 DEF Delivered
    <3>2. n.pc = "half" => fin[c].pc = "half"
      OBVIOUS
    <3>3. \A op \in Ops : fin'[op].pc = "half" => fin[op].pc = "half"
      BY <3>1, <3>2 DEF Typed, WorkerTyped
    <3> QED  BY <1>4, <3>3 DEF Delivered, PassQuiet
  <2> QED  BY <1>4, <2>1, <2>2 DEF Delivered, RequestsQuiet, Holding, storeVars
<1>5. CASE Reply(r)
  <2>1. req'[r].pc = "settle" /\ \A q \in Requests \ {r} : req'[q] = req[q]
    <3>1. CASE \E d : Fail(r, d)
      BY <3>1, FailSets DEF Typed
    <3>2. CASE req' = [req EXCEPT ![r].pc = "settle", ![r].reply = "ok"]
      BY <1>0, <3>2 DEF Request
    <3> QED  BY <1>5, <3>1, <3>2 DEF Reply
  <2> QED  BY <1>5, <2>1 DEF Reply, RequestsQuiet, PassQuiet, Holding, storeVars
<1>6. CASE Settle(r) \/ BarrierError(r)
  <2>1. \A x : Done(r, x).pc = "done"
    BY DEF Done, NewReq
  <2>2. \/ \E x : req' = [req EXCEPT ![r] = Done(r, x)]
        \/ req' = [req EXCEPT ![r].pc = "gone"]
    BY <1>6 DEF Settle, BarrierError
  <2>3. req'[r].pc \in {"done", "gone"} /\ \A q \in Requests \ {r} : req'[q] = req[q]
    <3>1. CASE \E x : req' = [req EXCEPT ![r] = Done(r, x)]
      BY <1>0, <2>1, <3>1
    <3>2. CASE req' = [req EXCEPT ![r].pc = "gone"]
      BY <1>0, <3>2 DEF Request
    <3> QED  BY <2>2, <3>1, <3>2
  <2>4. UNCHANGED <<journal, canon, gens, recon, fin>>
    BY <1>6 DEF Settle, BarrierError, storeVars, passVars
  <2> QED  BY <2>3, <2>4 DEF RequestsQuiet, PassQuiet, Holding
<1>7. CASE RequestError(r)
  <2>1. req'[r].pc = "settle" /\ \A q \in Requests \ {r} : req'[q] = req[q]
    BY <1>0, <1>7 DEF RequestError, Request
  <2> QED  BY <1>7, <2>1 DEF RequestError, RequestsQuiet, PassQuiet, Holding, storeVars
<1> QED  BY <1>1, <1>2, <1>3, <1>4, <1>5, <1>6, <1>7

-----------------------------------------------------------------------------
(* Deliveries, the handlers that move targets, and faults.                 *)

LEMMA DeliveryQuiet ==
  ASSUME Typed, JournalOK, DeliveryNext
  PROVE  JournalOK' /\ WorkStep /\ Quiet
<1>0. RequestTyped
  BY DEF Typed
<1>1. ASSUME NEW ref \in Due, Deliver(ref)
      PROVE  JournalOK' /\ WorkStep /\ Quiet
  <2>1. UNCHANGED <<canon, gens, recon, fin>>
    BY <1>1 DEF Deliver, storeVars
  <2>2. JournalOK' /\ WorkStep /\ Retargets
    <3>1. CASE UNCHANGED journal
      BY <3>1, JournalSame
    <3>2. CASE MarkDelivered(ref.op, ref.gen, ref.sub, ref.rev)
      <4>1. ref.op \in Ops
        BY <3>2 DEF MarkDelivered, Exact, Present, Typed, JournalTypeOK
      <4> QED  BY <3>2, <4>1, MarkDeliveredKeeps
    <3> QED  BY <1>1, <3>1, <3>2 DEF Deliver
  <2>3. RequestsQuiet
    <3>1. CASE \E ok : Answered(ref, ok)
      BY <1>0, <3>1, AnsweredQuiet
    <3>2. CASE req' = [r \in Requests |-> [req[r] EXCEPT !.unsent = @ \ {ref}]]
      BY <1>0, <3>2 DEF RequestsQuiet, RequestTyped, Request
    <3> QED  BY <1>1, <3>1, <3>2 DEF Deliver
  <2> QED  BY <2>1, <2>2, <2>3 DEF Quiet, StoresQuiet, PassQuiet
<1>2. ASSUME NEW ref \in sends, Timeout(ref)
      PROVE  JournalOK' /\ WorkStep /\ Quiet
  <2>1. UNCHANGED <<journal, canon, gens, recon, fin>>
    BY <1>2 DEF Timeout, storeVars
  <2>2. RequestsQuiet
    BY <1>0, <1>2, AnsweredQuiet DEF Timeout
  <2> QED  BY <2>1, <2>2, JournalSame DEF Quiet, StoresQuiet, PassQuiet
<1>3. ASSUME NEW m \in net, Acknowledged(m)
      PROVE  JournalOK' /\ WorkStep /\ Quiet
  <2>1. UNCHANGED <<canon, gens>>
    BY <1>3 DEF Acknowledged, storeVars
  <2>2. JournalOK' /\ WorkStep /\ Retargets
    <3>1. CASE UNCHANGED journal
      BY <3>1, JournalSame
    <3>2. CASE Acknowledge(m.ref.op, m.ref.gen, m.sub, m.ref.rev)
      <4>1. m.ref.op \in Ops
        BY <3>2 DEF Acknowledge, Exact, Present, Typed, JournalTypeOK
      <4> QED  BY <3>2, <4>1, AcknowledgeKeeps
    <3> QED  BY <1>3, <3>1, <3>2 DEF Acknowledged
  <2>3. RequestsQuiet
    <3> PICK ref : ref = m.ref  OBVIOUS
    <3> QED  BY <1>0, <1>3, AnsweredQuiet DEF Acknowledged
  <2>4. PassQuiet
    <3> PICK c : c = m.ref.op  OBVIOUS
    <3> PICK n : n = IF m.ref \in drain.waiting /\ fin[c].pc = "idle"
                     THEN [pc |-> "asked", att |-> None] ELSE fin[c]
      OBVIOUS
    <3>1. fin' = [fin EXCEPT ![c] = n] /\ recon'.held = recon.held
      BY <1>3 DEF Acknowledged, Typed, WorkerTyped
    <3>2. n.pc = "half" => fin[c].pc = "half"
      OBVIOUS
    <3> QED  BY <3>1, <3>2 DEF PassQuiet, Typed, WorkerTyped
  <2> QED  BY <2>1, <2>2, <2>3, <2>4 DEF Quiet, StoresQuiet
<1>4. ASSUME NEW m \in net, Disbelieved(m)
      PROVE  JournalOK' /\ WorkStep /\ Quiet
  <2>1. UNCHANGED <<journal, canon, gens, recon, fin>>
    BY <1>4 DEF Disbelieved, storeVars
  <2>2. RequestsQuiet
    <3> PICK ref : ref = m.ref  OBVIOUS
    <3>1. Answered(ref, FALSE) \/ UNCHANGED req
      BY <1>4 DEF Disbelieved
    <3> QED  BY <1>0, <3>1, AnsweredQuiet DEF RequestsQuiet
  <2> QED  BY <2>1, <2>2, JournalSame DEF Quiet, StoresQuiet, PassQuiet
<1> QED  BY <1>1, <1>2, <1>3, <1>4 DEF DeliveryNext

LEMMA TaskQuiet ==
  ASSUME Typed, JournalOK,
         \/ \E s \in navs : HandleNavigation(s)
         \/ \E t \in tasks : \E op \in t.todo : TaskStep(t, op)
  PROVE  JournalOK' /\ WorkStep /\ Quiet
<1>1. ASSUME NEW s \in navs, HandleNavigation(s)
      PROVE  JournalOK' /\ WorkStep /\ Quiet
  <2>1. UNCHANGED <<journal, canon, gens, recon, fin>>
    BY <1>1 DEF HandleNavigation, storeVars, passVars
  <2>2. RequestsQuiet
    BY <1>1 DEF HandleNavigation, RequestsQuiet, Typed, RequestTyped, Request
  <2> QED  BY <2>1, <2>2, JournalSame DEF Quiet, StoresQuiet, PassQuiet
<1>2. ASSUME NEW t \in tasks, NEW op \in t.todo, TaskStep(t, op)
      PROVE  JournalOK' /\ WorkStep /\ Quiet
  <2>1. UNCHANGED <<canon, gens, recon>> /\ op \in Ops /\ t.sub \in Subject
    BY <1>2 DEF TaskStep, storeVars, Typed, WorkerTyped
  <2>2. CASE /\ \/ UNCHANGED fin
                \/ AskFin({op})
             /\ UNCHANGED <<journal, req>>
    <3>1. \A c \in Ops : fin'[c].pc = "half" => fin[c].pc = "half"
      BY <2>2 DEF AskFin
    <3> QED  BY <2>1, <2>2, <3>1, JournalSame DEF Quiet, StoresQuiet, RequestsQuiet, PassQuiet
  <2>3. ASSUME NEW x \in Strays(op, t.sub), UNCHANGED fin,
               \/ ReplaceTarget(op, RefOf(op, x).gen, x, RefOf(op, x).rev, t.sub)
               \/ Supersede(op, RefOf(op, x).gen, x, RefOf(op, x).rev),
               req' = [r \in Requests |->
                         IF RefOf(op, x) \notin req[r].waiting THEN req[r]
                         ELSE [req[r] EXCEPT !.waiting = @ \ {RefOf(op, x)}, !.failed = TRUE,
                                             !.unsent = @ \ {RefOf(op, x)}]]
        PROVE  JournalOK' /\ WorkStep /\ Quiet
    <3> PICK ref : ref = RefOf(op, x)  OBVIOUS
    <3>1. JournalOK' /\ WorkStep /\ Retargets
      <4> PICK g, v : g = ref.gen /\ v = ref.rev  OBVIOUS
      <4>1. CASE ReplaceTarget(op, g, x, v, t.sub)
        BY <2>1, <4>1, ReplaceTargetKeeps
      <4>2. CASE Supersede(op, g, x, v)
        BY <2>1, <4>2, SupersedeKeeps
      <4> QED  BY <2>3, <4>1, <4>2
    <3>2. RequestsQuiet
      <4> SUFFICES ASSUME NEW r \in Requests
                   PROVE  /\ req'[r].pc = req[r].pc /\ req'[r].op = req[r].op
                          /\ req'[r].before = req[r].before /\ req'[r].subs = req[r].subs
        BY DEF RequestsQuiet
      <4>1. req'[r] = IF ref \notin req[r].waiting THEN req[r]
                      ELSE [req[r] EXCEPT !.waiting = @ \ {ref}, !.failed = TRUE,
                                          !.unsent = @ \ {ref}]
        BY <2>3
      <4> QED  BY <4>1 DEF Typed, RequestTyped, Request
    <3> QED  BY <2>1, <2>3, <3>1, <3>2 DEF Quiet, StoresQuiet, PassQuiet
  <2> QED  BY <1>2, <2>2, <2>3 DEF TaskStep
<1> QED  BY <1>1, <1>2

LEMMA FaultQuiet ==
  ASSUME Typed, PassError \/ WorkerDies
  PROVE  UNCHANGED <<journal, canon, gens>> /\ RequestsQuiet /\ PassQuiet
<1>0. RequestTyped
  BY DEF Typed
<1>1. CASE PassError
  <2>1. UNCHANGED <<journal, canon, gens>>
    BY <1>1 DEF PassError, storeVars
  <2>2. RequestsQuiet
    <3>1. (\E ref : Answered(ref, FALSE)) \/ UNCHANGED req
      BY <1>1 DEF PassError
    <3> QED  BY <1>0, <3>1, AnsweredQuiet DEF RequestsQuiet
  <2>3. PassQuiet
    <3>1. recon'.held \in {None, recon.held}
      BY <1>1 DEF PassError, Release, Typed, WorkerTyped
    <3>2. fin' = fin \/ \E op \in Ops : fin' = [fin EXCEPT ![op] = NoFin]
      BY <1>1 DEF PassError
    <3>3. \A op \in Ops : fin'[op].pc = "half" => fin[op].pc = "half"
      BY <3>2 DEF NoFin, Typed, WorkerTyped
    <3> QED  BY <3>1, <3>3 DEF PassQuiet
  <2> QED  BY <2>1, <2>2, <2>3
<1>2. CASE WorkerDies
  <2>1. UNCHANGED <<journal, canon, gens>>
    BY <1>2 DEF WorkerDies, storeVars
  <2>2. RequestsQuiet
    <3>1. \A r : Done(r, "failed").pc = "done"
      BY DEF Done, NewReq
    <3> QED  BY <1>2, <3>1 DEF WorkerDies, RequestsQuiet, Holding
  <2>3. PassQuiet
    BY <1>2 DEF WorkerDies, PassQuiet, IdleRecon, NoFin
  <2> QED  BY <2>1, <2>2, <2>3
<1> QED  BY <1>1, <1>2

-----------------------------------------------------------------------------
(* Every step.                                                             *)

LEMMA StepKeeps ==
  ASSUME IInv, [Next]_vars
  PROVE  JournalOK' /\ RestOK' /\ WorkStep
<1>0. Typed /\ JournalOK /\ RestOK
  BY DEF IInv
<1>1. CASE UNCHANGED <<journal, canon, gens>> /\ RequestsQuiet /\ PassQuiet
  BY <1>0, <1>1, StoresUntouched, QuietKeeps, JournalSame
<1>2. CASE UNCHANGED <<journal, canon, gens, req, recon, fin>>
  <2>1. RequestsQuiet /\ PassQuiet
    BY <1>2 DEF RequestsQuiet, PassQuiet
  <2> QED  BY <1>1, <1>2, <2>1
<1>3. CASE PageNext
  BY <1>2, <1>3, OutsideQuiet
<1>4. ASSUME NEW r \in Requests, RequestStep(r) \/ Ask(r) \/ \E op \in Ops : Look(r, op)
      PROVE  JournalOK' /\ RestOK' /\ WorkStep
  <2>1. CASE \/ \E op \in Ops : Look(r, op)
             \/ Ask(r) \/ Refuse(r) \/ Delivered(r) \/ Reply(r) \/ Settle(r)
    BY <1>0, <1>1, <2>1, RequestStepsQuiet
  <2>2. CASE \/ Resume(r) \/ Discover(r) \/ StartClear(r) \/ Withdraw(r) \/ ClearSessions(r)
             \/ Bind(r) \/ GiveUp(r)
    BY <2>2, ResumeKeeps, DiscoverKeeps, StartClearKeeps, WithdrawKeeps, ClearSessionsKeeps,
       BindKeeps, GiveUpKeeps
  <2> QED  BY <1>4, <2>1, <2>2 DEF RequestStep
<1>5. CASE DeliveryNext
  BY <1>0, <1>5, DeliveryQuiet, QuietKeeps DEF Quiet
<1>6. CASE TaskNext
  <2>1. CASE (\E m \in net : HandleRestore(m)) \/ (\E t \in tasks : TaskEnd(t))
    BY <1>2, <2>1, OutsideQuiet
  <2>2. CASE \/ \E s \in navs : HandleNavigation(s)
             \/ \E t \in tasks : \E op \in t.todo : TaskStep(t, op)
    BY <1>0, <2>2, TaskQuiet, QuietKeeps DEF Quiet
  <2> QED  BY <1>6, <2>1, <2>2 DEF TaskNext
<1>7. CASE PassNext
  <2>1. CASE \/ ReconStart \/ ReconLeave \/ ReconFinalize \/ ReconDrain \/ ReconEnd
             \/ DrainStart \/ DrainEnd \/ Reschedule \/ AlarmFires
    <3>1. UNCHANGED <<journal, canon, gens, req>> /\ PassQuiet
      BY <1>0, <2>1, PassStepsQuiet
    <3>2. RequestsQuiet
      BY <3>1 DEF RequestsQuiet
    <3> QED  BY <1>1, <3>1, <3>2
  <2>2. CASE LoadBarriers
    BY <1>2, <2>2, OutsideQuiet
  <2>3. CASE \E op \in Ops : Finalize(op) \/ Forget(op)
    BY <2>3, FinalizeKeeps, ForgetKeeps
  <2>4. CASE \/ ReconRemove \/ ReconClear \/ ReconGiveUp \/ ReconBind
             \/ \E op \in recon.todo : ReconTake(op)
    BY <2>4, ReconRemoveKeeps, ReconClearKeeps, ReconGiveUpKeeps, ReconBindKeeps,
       ReconTakeKeeps
  <2> QED  BY <1>7, <2>1, <2>2, <2>3, <2>4 DEF PassNext, ReconStep
<1>8. CASE FaultNext
  <2>1. CASE PassError \/ WorkerDies
    BY <1>0, <1>1, <2>1, FaultQuiet
  <2>2. CASE \E m \in net : LoseMessage(m)
    BY <1>2, <2>2, OutsideQuiet
  <2>3. CASE \E r \in Requests : RequestError(r) \/ BarrierError(r)
    BY <1>0, <1>1, <2>3, RequestStepsQuiet
  <2> QED  BY <1>8, <2>1, <2>2, <2>3 DEF FaultNext
<1>9. CASE UNCHANGED vars
  BY <1>2, <1>9 DEF vars, storeVars, passVars
<1> QED  BY <1>3, <1>4, <1>5, <1>6, <1>7, <1>8, <1>9 DEF Next

-----------------------------------------------------------------------------
(* The types of the stores.                                                *)

CanonTyped ==
  /\ DOMAIN canon \in SUBSET Ops /\ canon = [op \in DOMAIN canon |-> canon[op]]
  /\ \A op \in DOMAIN canon : Canonical(canon[op])

LEMMA BeginClearTyped ==
  ASSUME StoreTyped, NEW op \in Ops, NEW before, Partial(before, Origins, Nat),
         BeginClear(op, before)
  PROVE  StoreTyped'
<1> PICK en : en = [o \in DOMAIN before |->
                      [before |-> before[o], after |-> made[o] + 1, state |-> "pending"]]
  OBVIOUS
<1> PICK c : c = [gen |-> gens + 1, entry |-> en]
  OBVIOUS
<1>1. \A o \in DOMAIN before : o \in Origins /\ before[o] \in Nat /\ made[o] \in Nat
  BY PartialIs DEF StoreTyped
<1>2. \A o \in DOMAIN before : en[o] \in Entry
  BY <1>1 DEF Entry
<1>3. Partial(en, Origins, Entry)
  BY <1>1, <1>2, PartialIf
<1>4. Canonical(c)
  BY <1>3 DEF Canonical, StoreTyped
<1>5. canon' = [x \in DOMAIN canon \cup {op} |-> IF x # op THEN canon[x] ELSE c]
  BY DEF BeginClear
<1>6. CanonTyped'
  BY <1>4, <1>5 DEF CanonTyped, StoreTyped, Canonical
<1>7. gens' \in Nat /\ UNCHANGED <<epoch, last, saved>>
  BY DEF BeginClear, StoreTyped
<1>8. made' \in [Origins -> Nat]
  BY DEF BeginClear, StoreTyped
<1> QED  BY <1>6, <1>7, <1>8 DEF CanonTyped, StoreTyped

LEMMA ClearOriginTyped ==
  ASSUME IInv, NEW op, NEW o, ClearOrigin(op, o)
  PROVE  StoreTyped'
<1>0. StoreTyped /\ InCanon(op) /\ op \in Ops /\ Canonical(canon[op]) /\ gens \in Nat
  BY CanonIs DEF IInv, Typed, StoreTyped, ClearOrigin, InCanon
<1>1. /\ canon[op] = [gen |-> canon[op].gen, entry |-> canon[op].entry]
      /\ Partial(canon[op].entry, Origins, Entry)
  BY <1>0 DEF Canonical
<1> PICK e : e = canon[op].entry  OBVIOUS
<1> PICK st \in {"committed", "conflict"} :
      st = IF Clearable(op, o) THEN "committed" ELSE "conflict"
  OBVIOUS
<1>2. o \in DOMAIN e
  BY DEF ClearOrigin, Entries
<1>3. /\ DOMAIN e \subseteq Origins /\ e = [x \in DOMAIN e |-> e[x]]
      /\ \A x \in DOMAIN e : e[x] \in Entry
  BY <1>1, PartialIs
<1> PICK en : en = [e[o] EXCEPT !.state = st]  OBVIOUS
<1>4. en \in Entry /\ e[o].after \in Nat
  BY <1>2, <1>3 DEF Entry
<1> PICK f : f = [e EXCEPT ![o] = en]  OBVIOUS
<1>5. Partial(f, Origins, Entry)
  <2>1. DOMAIN f = DOMAIN e /\ f = [x \in DOMAIN f |-> f[x]]
    BY <1>3
  <2>2. \A x \in DOMAIN f : f[x] \in Entry
    BY <1>3, <1>4, <2>1
  <2> QED  BY <1>3, <2>1, <2>2, PartialIf
<1> PICK c : c = [canon[op] EXCEPT !.entry = f]  OBVIOUS
<1>6. c = [gen |-> canon[op].gen, entry |-> f]
  BY <1>1
<1>7. Canonical(c)
  BY <1>0, <1>5, <1>6 DEF Canonical
<1>8. canon' = [canon EXCEPT ![op] = c]
  BY DEF ClearOrigin
<1>9. CanonTyped'
  <2>1. /\ DOMAIN canon' = DOMAIN canon /\ canon'[op] = c
        /\ \A x \in DOMAIN canon \ {op} : canon'[x] = canon[x]
        /\ canon' = [x \in DOMAIN canon' |-> canon'[x]]
    BY <1>0, <1>8 DEF StoreTyped, InCanon
  <2>2. \A x \in DOMAIN canon' : Canonical(canon'[x])
    BY <1>0, <1>7, <2>1 DEF StoreTyped
  <2>3. \A x \in DOMAIN canon' : Canonical(canon[x])'
    BY <2>2 DEF Canonical
  <2> QED  BY <1>0, <2>1, <2>3 DEF CanonTyped, StoreTyped
<1>10. UNCHANGED <<made, gens>>
  BY DEF ClearOrigin
<1>11. /\ epoch' \in [Origins -> Nat] /\ last' \in [Origins -> Ops \cup {None}]
       /\ saved' \subseteq Frames \X Origins \X Paths
  <2>1. CASE UNCHANGED <<epoch, last, saved>>
    BY <1>0, <2>1 DEF StoreTyped
  <2>2. CASE /\ epoch' = [epoch EXCEPT ![o] = e[o].after]
             /\ last' = [last EXCEPT ![o] = op]
             /\ saved' = {x \in saved : x[2] # o}
    <3>1. saved' \subseteq Frames \X Origins \X Paths
      BY <1>0, <2>2 DEF StoreTyped
    <3> QED  BY <1>0, <1>4, <2>2, <3>1 DEF StoreTyped
  <2> QED  BY <2>1, <2>2 DEF ClearOrigin
<1> QED  BY <1>0, <1>9, <1>10, <1>11 DEF CanonTyped, StoreTyped

LEMMA FinalizeClearTyped ==
  ASSUME StoreTyped, NEW op, FinalizeClear(op), UNCHANGED <<epoch, last, saved, made, gens>>
  PROVE  StoreTyped'
BY DEF StoreTyped, FinalizeClear, Canonical

LEMMA CaptureTyped ==
  ASSUME StoreTyped, PageTyped, NEW f \in Frames, Capture(f)
  PROVE  StoreTyped'
<1> PICK o : o = live[f].origin  OBVIOUS
<1> PICK e : e = IF epoch[o] = 0 THEN made[o] + 1 ELSE epoch[o]  OBVIOUS
<1>1. live[f] \in Subject
  BY DEF PageTyped
<1>2. o \in Origins /\ PlaceOf(live[f]) \in Frames \X Origins \X Paths
  BY <1>1 DEF Subject, PlaceOf
<1>3. e \in Nat
  BY <1>2 DEF StoreTyped
<1>4. /\ epoch' = [epoch EXCEPT ![o] = e]
      /\ made' = [made EXCEPT ![o] = IF epoch[o] = 0 THEN e ELSE @]
      /\ saved' = saved \cup {PlaceOf(live[f])}
      /\ UNCHANGED <<canon, last, gens>>
  BY DEF Capture
<1> QED  BY <1>2, <1>3, <1>4 DEF StoreTyped, Canonical

\* A step of the model, action by action.
Step ==
  \/ \E f \in Frames : Capture(f)
  \/ \E f \in Frames : CloseFrame(f)
  \/ \E f \in Frames, p \in Paths : ChangeRoute(f, p)
  \/ \E f \in Frames, p \in Paths, o \in Origins : Navigate(f, o, p)
  \/ ClearAll
  \/ \E m \in net : ShowMarkers(m)
  \/ \E m \in net : TakeDown(m)
  \/ \E r \in Requests : Resume(r)
  \/ \E r \in Requests : Refuse(r)
  \/ \E r \in Requests : Discover(r)
  \/ \E r \in Requests : StartClear(r)
  \/ \E r \in Requests : Withdraw(r)
  \/ \E r \in Requests : ClearSessions(r)
  \/ \E r \in Requests : Bind(r)
  \/ \E r \in Requests : GiveUp(r)
  \/ \E r \in Requests : Delivered(r)
  \/ \E r \in Requests : Reply(r)
  \/ \E r \in Requests : Settle(r)
  \/ \E r \in Requests : BarrierError(r)
  \/ \E r \in Requests : Ask(r)
  \/ \E r \in Requests, op \in Ops : Look(r, op)
  \/ \E ref \in Due : Deliver(ref)
  \/ \E ref \in sends : Timeout(ref)
  \/ \E m \in net : Acknowledged(m)
  \/ \E m \in net : Disbelieved(m)
  \/ \E s \in navs : HandleNavigation(s)
  \/ \E m \in net : HandleRestore(m)
  \/ \E t \in tasks : TaskEnd(t)
  \/ \E t \in tasks : \E op \in t.todo : TaskStep(t, op)
  \/ ReconStart
  \/ ReconRemove
  \/ ReconLeave
  \/ ReconClear
  \/ ReconGiveUp
  \/ ReconBind
  \/ ReconFinalize
  \/ ReconDrain
  \/ ReconEnd
  \/ \E op \in recon.todo : ReconTake(op)
  \/ DrainStart
  \/ DrainEnd
  \/ Reschedule
  \/ AlarmFires
  \/ LoadBarriers
  \/ \E op \in Ops : Finalize(op)
  \/ \E op \in Ops : Forget(op)
  \/ PassError
  \/ WorkerDies
  \/ \E m \in net : LoseMessage(m)
  \/ \E r \in Requests : RequestError(r)

LEMMA NextIsStep == Next => Step
<1>1. PageNext => Step
  BY DEF PageNext, Step
<1>2. (\E r \in Requests : RequestStep(r) \/ Ask(r) \/ \E op \in Ops : Look(r, op)) => Step
  BY DEF RequestStep, Step
<1>3. DeliveryNext => Step
  BY DEF DeliveryNext, Step
<1>4. TaskNext => Step
  BY DEF TaskNext, Step
<1>5. PassNext => Step
  BY DEF PassNext, ReconStep, Step
<1>6. FaultNext => Step
  BY DEF FaultNext, Step
<1> QED  BY <1>1, <1>2, <1>3, <1>4, <1>5, <1>6 DEF Next

LEMMA StoreSame == StoreTyped /\ UNCHANGED storeVars => StoreTyped'
BY DEF StoreTyped, storeVars, Canonical

LEMMA StoreStep ==
  ASSUME IInv, Step
  PROVE  StoreTyped'
<1>0. StoreTyped
  BY DEF IInv, Typed
<1>1. CASE \/ \E f \in Frames : CloseFrame(f)
           \/ \E f \in Frames, p \in Paths : ChangeRoute(f, p)
           \/ \E f \in Frames, p \in Paths, o \in Origins : Navigate(f, o, p)
           \/ \E m \in net : ShowMarkers(m)
           \/ \E m \in net : TakeDown(m)
  BY <1>1, <1>0, StoreSame DEF CloseFrame, ChangeRoute, Navigate, ShowMarkers, TakeDown,
     Rest
<1>2. CASE \/ \E r \in Requests : Resume(r)
           \/ \E r \in Requests : Refuse(r)
           \/ \E r \in Requests : Discover(r)
           \/ \E r \in Requests : StartClear(r)
           \/ \E r \in Requests : Withdraw(r)
  BY <1>2, <1>0, StoreSame DEF Resume, Refuse, Discover, StartClear, Withdraw, Rest
<1>3. CASE \/ \E r \in Requests : Bind(r)
           \/ \E r \in Requests : Delivered(r)
           \/ \E r \in Requests : Reply(r)
           \/ \E r \in Requests : Settle(r)
           \/ \E r \in Requests : BarrierError(r)
           \/ \E r \in Requests : Ask(r)
  BY <1>3, <1>0, StoreSame DEF Bind, Delivered, Reply, Settle, BarrierError, Ask, Rest
<1>4. CASE \/ \E r \in Requests, op \in Ops : Look(r, op)
           \/ \E ref \in Due : Deliver(ref)
           \/ \E ref \in sends : Timeout(ref)
           \/ \E m \in net : Acknowledged(m)
           \/ \E m \in net : Disbelieved(m)
  BY <1>4, <1>0, StoreSame DEF Look, Deliver, Timeout, Acknowledged, Disbelieved, Rest
<1>5. CASE \/ \E s \in navs : HandleNavigation(s)
           \/ \E m \in net : HandleRestore(m)
           \/ \E t \in tasks : TaskEnd(t)
           \/ \E t \in tasks : \E op \in t.todo : TaskStep(t, op)
           \/ ReconStart
  BY <1>5, <1>0, StoreSame DEF HandleNavigation, HandleRestore, TaskEnd, TaskStep,
     ReconStart, Rest
<1>6. CASE \/ ReconRemove
           \/ ReconLeave
           \/ ReconBind
           \/ ReconFinalize
           \/ ReconDrain
  BY <1>6, <1>0, StoreSame DEF ReconRemove, ReconLeave, ReconBind, ReconFinalize,
     ReconDrain, Rest
<1>7. CASE \/ ReconEnd
           \/ \E op \in recon.todo : ReconTake(op)
           \/ DrainStart
           \/ DrainEnd
           \/ Reschedule
  BY <1>7, <1>0, StoreSame DEF ReconEnd, ReconTake, DrainStart, DrainEnd, Reschedule,
     Rest
<1>8. CASE \/ AlarmFires
           \/ LoadBarriers
           \/ \E op \in Ops : Forget(op)
           \/ PassError
           \/ WorkerDies
  BY <1>8, <1>0, StoreSame DEF AlarmFires, LoadBarriers, Forget, PassError, WorkerDies,
     Rest
<1>9. CASE \/ \E m \in net : LoseMessage(m)
           \/ \E r \in Requests : RequestError(r)
  BY <1>9, <1>0, StoreSame DEF LoseMessage, RequestError, Rest
<1>10. CASE \E f \in Frames : Capture(f)
  BY <1>10, CaptureTyped DEF IInv, Typed
<1>11. CASE ClearAll
  BY <1>0, <1>11 DEF ClearAll, StoreTyped, Canonical
<1>12. ASSUME NEW r \in Requests, ClearSessions(r)
      PROVE  StoreTyped'
  <2> PICK op, b : op = req[r].op /\ b = req[r].before  OBVIOUS
  <2>1. req[r].pc \in Holding
    BY <1>12 DEF ClearSessions, Holding
  <2>2. op \in Ops /\ Partial(b, Origins, Nat)
    BY <2>1, RequestIs DEF IInv
  <2>3. BeginClear(op, b) \/ UNCHANGED storeVars \/ \E o \in Origins : ClearOrigin(op, o)
    BY <1>12 DEF ClearSessions
  <2> QED  BY <1>0, <2>2, <2>3, BeginClearTyped, ClearOriginTyped, StoreSame
<1>13. CASE \/ \E r \in Requests : GiveUp(r)
           \/ ReconGiveUp
           \/ \E op \in Ops : Finalize(op)
  <2>1. /\ UNCHANGED <<epoch, last, saved, made, gens>>
        /\ UNCHANGED canon \/ \E op : FinalizeClear(op)
    BY <1>13 DEF GiveUp, ReconGiveUp, Finalize
  <2> QED  BY <1>0, <2>1, FinalizeClearTyped, StoreSame DEF storeVars
<1>14. CASE ReconClear
  <2> PICK op : op = recon.held  OBVIOUS
  <2>1. \E o : ClearOrigin(op, o)
    BY <1>14 DEF ReconClear
  <2> QED  BY <2>1, ClearOriginTyped
<1> QED  BY <1>1, <1>2, <1>3, <1>4, <1>5, <1>6, <1>7, <1>8, <1>9, <1>10, <1>11, <1>12,
         <1>13, <1>14 DEF Step

-----------------------------------------------------------------------------
(* The types of the pages and of the messages.                             *)

PageUnchanged == UNCHANGED <<pageVars, net, navs, moves>>

LEMMA PageSame == PageTyped /\ PageUnchanged => PageTyped'
BY DEF PageTyped, PageUnchanged, pageVars

LEMMA LiveIs ==
  ASSUME PageTyped, NEW f \in Frames
  PROVE  /\ live[f] \in Subject /\ live[f].frame \in Frames /\ live[f].doc \in 0 .. MaxMoves
         /\ live[f].origin \in Origins /\ live[f].path \in Paths
BY ConstantsOK DEF PageTyped, Subject

LEMMA DueIs ==
  ASSUME Typed
  PROVE  Due \subseteq Ref
BY DEF Typed, Due, RequestTyped, Request, WorkerTyped

LEMMA PageStep ==
  ASSUME IInv, Step
  PROVE  PageTyped'
<1>0. PageTyped /\ StoreTyped
  BY DEF IInv, Typed
<1>1. CASE \/ \E r \in Requests : Resume(r)
           \/ \E r \in Requests : Refuse(r)
           \/ \E r \in Requests : Discover(r)
           \/ \E r \in Requests : StartClear(r)
           \/ \E r \in Requests : Withdraw(r)
  BY <1>1, <1>0, PageSame DEF Resume, Refuse, Discover, StartClear, Withdraw, Rest,
     PageUnchanged
<1>2. CASE \/ \E r \in Requests : ClearSessions(r)
           \/ \E r \in Requests : Bind(r)
           \/ \E r \in Requests : GiveUp(r)
           \/ \E r \in Requests : Delivered(r)
           \/ \E r \in Requests : Reply(r)
  BY <1>2, <1>0, PageSame DEF ClearSessions, Bind, GiveUp, Delivered, Reply, Rest,
     PageUnchanged
<1>3. CASE \/ \E r \in Requests : Settle(r)
           \/ \E r \in Requests : BarrierError(r)
           \/ \E r \in Requests : Ask(r)
           \/ \E r \in Requests, op \in Ops : Look(r, op)
           \/ \E ref \in sends : Timeout(ref)
           \/ \E t \in tasks : \E op \in t.todo : TaskStep(t, op)
  BY <1>3, <1>0, PageSame DEF Settle, BarrierError, Ask, Look, Timeout, TaskStep, Rest,
     PageUnchanged
<1>4. CASE \/ ReconStart
           \/ ReconRemove
           \/ ReconLeave
           \/ ReconClear
           \/ ReconGiveUp
  BY <1>4, <1>0, PageSame DEF ReconStart, ReconRemove, ReconLeave, ReconClear,
     ReconGiveUp, Rest, PageUnchanged
<1>5. CASE \/ ReconBind
           \/ ReconFinalize
           \/ ReconDrain
           \/ ReconEnd
           \/ \E op \in recon.todo : ReconTake(op)
  BY <1>5, <1>0, PageSame DEF ReconBind, ReconFinalize, ReconDrain, ReconEnd, ReconTake,
     Rest, PageUnchanged
<1>6. CASE \/ DrainStart
           \/ DrainEnd
           \/ Reschedule
           \/ AlarmFires
           \/ LoadBarriers
  BY <1>6, <1>0, PageSame DEF DrainStart, DrainEnd, Reschedule, AlarmFires,
     LoadBarriers, Rest, PageUnchanged
<1>7. CASE \/ \E op \in Ops : Finalize(op)
           \/ \E op \in Ops : Forget(op)
           \/ PassError
           \/ WorkerDies
           \/ \E r \in Requests : RequestError(r)
  BY <1>7, <1>0, PageSame DEF Finalize, Forget, PassError, WorkerDies, RequestError,
     Rest, PageUnchanged
<1>8. CASE \E f \in Frames : Capture(f)
  <2> PICK f \in Frames : Capture(f)
    BY <1>8
  <2> PICK e : e = IF epoch[live[f].origin] = 0 THEN made[live[f].origin] + 1
                   ELSE epoch[live[f].origin]
    OBVIOUS
  <2>1. e \in Nat
    BY <1>0, LiveIs DEF StoreTyped, Subject
  <2>2. net' = net \cup {State(f, e)}
    BY DEF Capture
  <2>3. State(f, e) \in Message
    BY <1>0, <2>1, LiveIs DEF State, Message
  <2>4. UNCHANGED <<live, closed, marks, moves, navs>>
    BY DEF Capture, pageVars
  <2> QED  BY <1>0, <2>2, <2>3, <2>4 DEF PageTyped
<1>9. CASE \E f \in Frames : CloseFrame(f)
  <2> PICK f \in Frames : CloseFrame(f)
    BY <1>9
  <2>1. /\ moves' = moves + 1 /\ moves < MaxMoves
        /\ closed' = closed \cup {f} \cup Embedded(f)
        /\ marks' = Blank({f} \cup Embedded(f))
        /\ net' = NetWithout({f} \cup Embedded(f))
        /\ UNCHANGED <<live, navs>>
    BY DEF CloseFrame
  <2>2. Embedded(f) \subseteq Frames
    BY DEF Embedded
  <2>3. moves' \in 0 .. MaxMoves /\ \A g \in Frames : live'[g].doc <= moves'
    BY <1>0, <2>1, LiveIs, ConstantsOK DEF PageTyped
  <2>4. \A F : Blank(F) \in [Frames -> Nat] /\ NetWithout(F) \subseteq Message
    BY <1>0 DEF PageTyped, Blank, NetWithout
  <2> QED  BY <1>0, <2>1, <2>2, <2>3, <2>4 DEF PageTyped
<1>10. CASE \E f \in Frames, p \in Paths, o \in Origins : Navigate(f, o, p)
  <2> PICK f \in Frames, p \in Paths, o \in Origins : Navigate(f, o, p)
    BY <1>10
  <2> PICK s : s = [frame |-> f, doc |-> live[f].doc + 1, origin |-> o, path |-> p]
    OBVIOUS
  <2>1. /\ moves' = moves + 1 /\ moves < MaxMoves
        /\ live' = [live EXCEPT ![f] = s]
        /\ closed' = closed \cup Embedded(f)
        /\ marks' = Blank({f} \cup Embedded(f))
        /\ navs' = navs \cup {s}
        /\ net' = NetWithout({f} \cup Embedded(f)) \cup {[kind |-> "ask", sub |-> s]}
    BY DEF Navigate
  <2>2. Embedded(f) \subseteq Frames
    BY DEF Embedded
  <2>3. live[f].doc \in Nat /\ live[f].doc <= moves /\ moves \in Nat /\ MaxMoves \in Nat
    BY <1>0, LiveIs, ConstantsOK DEF PageTyped
  <2>4. s \in Subject
    BY <2>1, <2>3, ConstantsOK DEF Subject
  <2>5. [kind |-> "ask", sub |-> s] \in Message
    BY <2>4 DEF Message
  <2>6. \A F : Blank(F) \in [Frames -> Nat] /\ NetWithout(F) \subseteq Message
    BY <1>0 DEF PageTyped, Blank, NetWithout
  <2>7. live' \in [Frames -> Subject]
    BY <1>0, <2>1, <2>4 DEF PageTyped
  <2>8. moves' \in 0 .. MaxMoves /\ \A g \in Frames : live'[g].doc <= moves'
    <3>1. \A g \in Frames : live[g].doc \in Nat /\ live[g].doc <= moves
      BY <1>0, LiveIs, ConstantsOK DEF PageTyped
    <3>2. \A g \in Frames : live'[g] = IF g = f THEN s ELSE live[g]
      BY <1>0, <2>1 DEF PageTyped
    <3>3. s.doc = live[f].doc + 1
      OBVIOUS
    <3> QED  BY <2>1, <2>3, <3>1, <3>2, <3>3
  <2> QED  BY <1>0, <2>1, <2>2, <2>4, <2>5, <2>6, <2>7, <2>8 DEF PageTyped
<1>11. CASE \E f \in Frames, p \in Paths : ChangeRoute(f, p)
  <2> PICK f \in Frames, p \in Paths : ChangeRoute(f, p)
    BY <1>11
  <2> PICK s : s = [live[f] EXCEPT !.path = p]
    OBVIOUS
  <2>1. /\ moves' = moves + 1 /\ moves < MaxMoves
        /\ live' = [live EXCEPT ![f] = s]
        /\ marks' = Blank({f})
        /\ navs' = navs \cup {s}
        /\ net' = {m \in net : m.kind # "restore" \/ m.sub.frame # f}
                    \cup {[kind |-> "ask", sub |-> s]}
        /\ UNCHANGED closed
    BY DEF ChangeRoute
  <2>2. s \in Subject /\ s.doc = live[f].doc
    BY LiveIs, <1>0 DEF Subject
  <2>3. [kind |-> "ask", sub |-> s] \in Message
    BY <2>2 DEF Message
  <2>4. \A F : Blank(F) \in [Frames -> Nat]
    BY <1>0 DEF PageTyped, Blank
  <2>5. live' \in [Frames -> Subject]
    BY <1>0, <2>1, <2>2 DEF PageTyped
  <2>6. moves' \in 0 .. MaxMoves /\ \A g \in Frames : live'[g].doc <= moves'
    <3>1. \A g \in Frames : live[g].doc \in Nat /\ live[g].doc <= moves
      BY <1>0, LiveIs, ConstantsOK DEF PageTyped
    <3>2. \A g \in Frames : live'[g].doc = live[g].doc
      BY <1>0, <2>1, <2>2 DEF PageTyped
    <3>3. moves \in Nat /\ MaxMoves \in Nat
      BY <1>0, ConstantsOK DEF PageTyped
    <3> QED  BY <2>1, <3>1, <3>2, <3>3
  <2> QED  BY <1>0, <2>1, <2>2, <2>3, <2>4, <2>5, <2>6 DEF PageTyped
<1>12. CASE ClearAll
  <2>1. /\ moves' = moves + 1 /\ moves < MaxMoves
        /\ net' = net \cup {State(f, 0) : f \in Frames \ closed}
        /\ UNCHANGED <<live, closed, marks, navs>>
    BY <1>12 DEF ClearAll, pageVars
  <2>2. \A f \in Frames : State(f, 0) \in Message
    BY <1>0, LiveIs DEF State, Message
  <2>3. moves' \in 0 .. MaxMoves /\ \A g \in Frames : live'[g].doc <= moves'
    BY <1>0, <2>1, LiveIs, ConstantsOK DEF PageTyped
  <2> QED  BY <1>0, <2>1, <2>2, <2>3 DEF PageTyped
<1>13. CASE \E m \in net : ShowMarkers(m)
  <2> PICK m \in net : ShowMarkers(m)
    BY <1>13
  <2>1. m \in Message /\ m.kind \in {"state", "restore"}
    BY <1>0 DEF PageTyped, ShowMarkers
  <2>2. m.sub \in Subject /\ m.epoch \in Nat
    BY <2>1 DEF Message
  <2>3. marks' \in [Frames -> Nat]
    BY <1>0, <2>2 DEF ShowMarkers, PageTyped
  <2> QED  BY <1>0, <2>3 DEF ShowMarkers, PageTyped
<1>14. CASE \E m \in net : TakeDown(m)
  <2> PICK m \in net : TakeDown(m)
    BY <1>14
  <2>1. m \in Message /\ m.kind = "tomb"
    BY <1>0 DEF PageTyped, TakeDown
  <2>2. [m EXCEPT !.kind = "ack"] \in Message
    BY <2>1 DEF Message
  <2>3. marks' \in [Frames -> Nat]
    BY <1>0 DEF TakeDown, PageTyped, Blank
  <2>4. net' \subseteq net \cup {[m EXCEPT !.kind = "ack"]}
    BY DEF TakeDown
  <2>5. UNCHANGED <<live, closed, navs, moves>>
    BY DEF TakeDown
  <2> QED  BY <1>0, <2>2, <2>3, <2>4, <2>5 DEF PageTyped
<1>15. CASE \E ref \in Due : Deliver(ref)
  <2> PICK ref \in Due : Deliver(ref)
    BY <1>15
  <2>1. ref \in Ref
    BY DueIs DEF IInv
  <2>2. /\ UNCHANGED <<live, closed, marks, moves, navs>>
        /\ \/ UNCHANGED net
           \/ /\ MarkDelivered(ref.op, ref.gen, ref.sub, ref.rev)
              /\ net' = net \cup {[kind |-> "tomb", sub |-> ref.sub, ref |-> ref,
                                   after |-> journal[ref.op].after[ref.sub.origin]]}
    BY DEF Deliver, pageVars
  <2>3. ASSUME MarkDelivered(ref.op, ref.gen, ref.sub, ref.rev)
        PROVE  journal[ref.op].after[ref.sub.origin] \in Nat
    <3> PICK op, s : op = ref.op /\ s = ref.sub  OBVIOUS
    <3>1. /\ op \in DOMAIN journal /\ journal[op].gen # Unbound
          /\ s \in DOMAIN journal[op].targets
      BY <2>3 DEF MarkDelivered, Exact, Present
    <3>2. s.origin \in DOMAIN journal[op].after
      BY <3>1, ReadableIs DEF Readable, IInv, JournalOK
    <3>3. Partial(journal[op].after, Origins, Nat)
      BY <3>1 DEF IInv, JournalOK, JournalTypeOK, Operation
    <3> QED  BY <3>2, <3>3, PartialIs
  <2>4. ref.sub \in Subject
    BY <2>1 DEF Ref
  <2>5. ASSUME NEW a \in Nat
        PROVE  [kind |-> "tomb", sub |-> ref.sub, ref |-> ref, after |-> a] \in Message
    BY <2>1, <2>4 DEF Message
  <2> QED  BY <1>0, <2>2, <2>3, <2>5 DEF PageTyped
<1>16. CASE \/ \E m \in net : Acknowledged(m)
            \/ \E m \in net : Disbelieved(m)
            \/ \E s \in navs : HandleNavigation(s)
            \/ \E m \in net : HandleRestore(m)
            \/ \E m \in net : LoseMessage(m)
  <2>1. /\ net' \subseteq net /\ navs' \subseteq navs
        /\ UNCHANGED <<live, closed, marks, moves>>
    BY <1>16 DEF Acknowledged, Disbelieved, HandleRestore, LoseMessage, HandleNavigation, pageVars
  <2> QED  BY <1>0, <2>1 DEF PageTyped
<1>17. CASE \E t \in tasks : TaskEnd(t)
  <2> PICK t \in tasks : TaskEnd(t)
    BY <1>17
  <2>1. t.sub \in Subject
    BY DEF IInv, Typed, WorkerTyped
  <2>2. epoch[t.sub.origin] \in Nat
    BY <1>0, <2>1 DEF StoreTyped, Subject
  <2> PICK a : a = [kind |-> "restore", sub |-> t.sub, epoch |-> epoch[t.sub.origin]]
    OBVIOUS
  <2>3. /\ UNCHANGED <<live, closed, marks, moves, navs>>
        /\ net' \subseteq net \cup {a}
    BY DEF TaskEnd, pageVars
  <2>4. a \in Message
    BY <2>1, <2>2 DEF Message
  <2> QED  BY <1>0, <2>3, <2>4 DEF PageTyped
<1> QED  BY <1>1, <1>2, <1>3, <1>4, <1>5, <1>6, <1>7, <1>8, <1>9, <1>10, <1>11, <1>12,
         <1>13, <1>14, <1>15, <1>16, <1>17 DEF Step

-----------------------------------------------------------------------------
(* The types of the requests.                                              *)

LEMMA RequestSame == RequestTyped /\ UNCHANGED req => RequestTyped'
BY DEF RequestTyped, Request

LEMMA AllRequests ==
  ASSUME req' = [r \in Requests |-> req'[r]], \A r \in Requests : Request(req'[r])
  PROVE  RequestTyped'
BY DEF RequestTyped, Request

LEMMA OneRequest ==
  ASSUME RequestTyped, NEW r \in Requests, NEW n, Request(n), req' = [req EXCEPT ![r] = n]
  PROVE  RequestTyped'
<1>1. /\ req' = [q \in Requests |-> req'[q]] /\ req'[r] = n
      /\ \A q \in Requests \ {r} : req'[q] = req[q]
  BY DEF RequestTyped
<1>2. \A q \in Requests : Request(req'[q])
  BY <1>1 DEF RequestTyped
<1> QED  BY <1>1, <1>2, AllRequests

LEMMA SettleTyped ==
  ASSUME RequestTyped, NEW r \in Requests, NEW x, req[r].pc \notin {"new", "done"},
         req' = [req EXCEPT ![r].pc = "settle", ![r].reply = x]
  PROVE  RequestTyped'
<1> PICK m : m = [req[r] EXCEPT !.pc = "settle"]  OBVIOUS
<1> PICK n : n = [m EXCEPT !.reply = x]  OBVIOUS
<1>1. Request(m)
  BY DEF RequestTyped, Request, Places
<1>2. Request(n)
  BY <1>1 DEF Request
<1>3. req' = [req EXCEPT ![r] = n]
  BY DEF RequestTyped
<1> QED  BY <1>2, <1>3, OneRequest

LEMMA FailTyped ==
  ASSUME RequestTyped, NEW r \in Requests, NEW d \in BOOLEAN, Fail(r, d),
         req[r].pc \notin {"new", "done"}
  PROVE  RequestTyped'
BY SettleTyped DEF Fail

LEMMA DoneTyped ==
  ASSUME RequestTyped, NEW r \in Requests, NEW x
  PROVE  Request(Done(r, x))
<1> PICK op, n : op = req[r].op /\ n = Done(r, x)  OBVIOUS
<1> PICK e : e = Nothing  OBVIOUS
<1>1. Partial(e, Origins, Nat)
  BY PartialIf DEF Nothing
<1>2. op \in Ops \cup {None}
  BY DEF RequestTyped, Request
<1>3. n = [pc |-> "done", op |-> op, origin |-> None, epoch |-> 0, fresh |-> FALSE,
           resumed |-> FALSE, before |-> e, subs |-> {}, after |-> e, gen |-> 0,
           unsent |-> {}, waiting |-> {}, failed |-> FALSE, reply |-> x]
  BY DEF Done, NewReq
<1>4. Request(n)
  BY <1>1, <1>2, <1>3 DEF Request, Places
<1> QED  BY <1>4

\* All fields.
Shaped(q) ==
  q = [pc |-> q.pc, op |-> q.op, origin |-> q.origin, epoch |-> q.epoch,
       fresh |-> q.fresh, resumed |-> q.resumed, before |-> q.before, subs |-> q.subs,
       after |-> q.after, gen |-> q.gen, unsent |-> q.unsent, waiting |-> q.waiting,
       failed |-> q.failed, reply |-> q.reply]

LEMMA RequestShape == ASSUME NEW q, Request(q)  PROVE Shaped(q)
BY DEF Request, Shaped

\* What a task does to those who wait for a target it hands on.
LetGo(ref) ==
  /\ sends' = sends \ {ref}
  /\ req' = [r \in Requests |->
               IF ref \notin req[r].waiting THEN req[r]
               ELSE [req[r] EXCEPT !.waiting = @ \ {ref}, !.failed = TRUE,
                                   !.unsent = @ \ {ref}]]
  /\ drain' = [drain EXCEPT !.waiting = @ \ {ref}, !.batch = @ \ {ref}, !.again = TRUE]

LEMMA TaskStepWaits ==
  ASSUME NEW t, NEW op, TaskStep(t, op)
  PROVE  UNCHANGED <<req, sends, drain>> \/ \E ref : LetGo(ref)
<1>1. ASSUME NEW x,
             LET ref == RefOf(op, x) IN
               /\ sends' = sends \ {ref}
               /\ req' = [r \in Requests |->
                            IF ref \notin req[r].waiting THEN req[r]
                            ELSE [req[r] EXCEPT !.waiting = @ \ {ref}, !.failed = TRUE,
                                                !.unsent = @ \ {ref}]]
               /\ drain' = [drain EXCEPT !.waiting = @ \ {ref}, !.batch = @ \ {ref},
                                         !.again = TRUE]
      PROVE  LetGo(RefOf(op, x))
  BY <1>1 DEF LetGo
<1> QED  BY <1>1 DEF TaskStep

LEMMA PcTyped ==
  ASSUME NEW q, Request(q), NEW p \in Places, NEW n, n = [q EXCEPT !.pc = p],
         q.pc \notin {"new", "done"} \/ p \in {"new", "done"}
  PROVE  Request(n)
<1>0. Shaped(q)
  BY RequestShape
<1>1. /\ Shaped(n) /\ n.pc = p /\ n.op = q.op /\ n.origin = q.origin
      /\ n.epoch = q.epoch /\ n.fresh = q.fresh /\ n.resumed = q.resumed
      /\ n.before = q.before /\ n.subs = q.subs
      /\ n.unsent = q.unsent /\ n.waiting = q.waiting
  BY <1>0 DEF Shaped
<1> QED  BY <1>1 DEF Request, Shaped

Less(n, q) ==
  /\ Shaped(n) /\ n.pc = q.pc /\ n.op = q.op /\ n.origin = q.origin /\ n.epoch = q.epoch
  /\ n.fresh \in {q.fresh, FALSE} /\ n.resumed = q.resumed /\ n.before = q.before
  /\ n.subs = q.subs /\ n.unsent \subseteq q.unsent /\ n.waiting \subseteq q.waiting

\* Fewer answers to wait for, or the page has moved on.
LEMMA LessTyped ==
  ASSUME NEW q, Request(q)
  PROVE  /\ \A ref : Request([q EXCEPT !.unsent = @ \ {ref}])
         /\ \A ref, ok : Request([q EXCEPT !.waiting = @ \ {ref}, !.unsent = @ \ {ref},
                                         !.failed = @ \/ ~ok])
         /\ \A ref : Request([q EXCEPT !.waiting = @ \ {ref}, !.failed = TRUE,
                                     !.unsent = @ \ {ref}])
         /\ Request([q EXCEPT !.fresh = FALSE])
<1>0. Shaped(q)
  BY RequestShape
<1>1. ASSUME NEW n, Less(n, q)  PROVE Request(n)
  BY <1>1 DEF Less, Request, Shaped
<1>2. ASSUME NEW ref, NEW n,
             n = [q EXCEPT !.unsent = @ \ {ref}]
      PROVE  Request(n)
  <2>1. Less(n, q)
    BY <1>0, <1>2 DEF Less, Shaped
  <2> QED  BY <1>1, <2>1
<1>3. ASSUME NEW ref, NEW ok, NEW n,
             n = [q EXCEPT !.waiting = @ \ {ref}, !.unsent = @ \ {ref}, !.failed = @ \/ ~ok]
      PROVE  Request(n)
  <2>1. Less(n, q)
    BY <1>0, <1>3 DEF Less, Shaped
  <2> QED  BY <1>1, <2>1
<1>4. ASSUME NEW ref, NEW n,
             n = [q EXCEPT !.waiting = @ \ {ref}, !.failed = TRUE, !.unsent = @ \ {ref}]
      PROVE  Request(n)
  <2>1. Less(n, q)
    BY <1>0, <1>4 DEF Less, Shaped
  <2> QED  BY <1>1, <2>1
<1>5. ASSUME NEW n,
             n = [q EXCEPT !.fresh = FALSE]
      PROVE  Request(n)
  <2>1. Less(n, q)
    BY <1>0, <1>5 DEF Less, Shaped
  <2> QED  BY <1>1, <2>1
<1> QED  BY <1>2, <1>3, <1>4, <1>5

LEMMA RequestStepTyped ==
  ASSUME IInv, Step
  PROVE  RequestTyped'
<1>0. RequestTyped /\ \A r \in Requests : Request(req[r])
  BY DEF IInv, Typed, RequestTyped
<1>1. CASE \/ \E f \in Frames : Capture(f)
           \/ \E f \in Frames : CloseFrame(f)
           \/ \E f \in Frames, p \in Paths : ChangeRoute(f, p)
           \/ \E f \in Frames, p \in Paths, o \in Origins : Navigate(f, o, p)
           \/ ClearAll
  BY <1>1, <1>0, RequestSame DEF Capture, CloseFrame, ChangeRoute, Navigate, ClearAll,
     Rest
<1>2. CASE \/ \E m \in net : ShowMarkers(m)
           \/ \E m \in net : TakeDown(m)
           \/ \E m \in net : HandleRestore(m)
           \/ \E t \in tasks : TaskEnd(t)
           \/ ReconStart
  BY <1>2, <1>0, RequestSame DEF ShowMarkers, TakeDown, HandleRestore, TaskEnd,
     ReconStart, Rest
<1>3. CASE \/ ReconRemove
           \/ ReconLeave
           \/ ReconClear
           \/ ReconGiveUp
           \/ ReconBind
  BY <1>3, <1>0, RequestSame DEF ReconRemove, ReconLeave, ReconClear, ReconGiveUp,
     ReconBind, Rest
<1>4. CASE \/ ReconFinalize
           \/ ReconDrain
           \/ ReconEnd
           \/ \E op \in recon.todo : ReconTake(op)
           \/ DrainStart
  BY <1>4, <1>0, RequestSame DEF ReconFinalize, ReconDrain, ReconEnd, ReconTake,
     DrainStart, Rest
<1>5. CASE \/ DrainEnd
           \/ Reschedule
           \/ AlarmFires
           \/ LoadBarriers
           \/ \E op \in Ops : Finalize(op)
  BY <1>5, <1>0, RequestSame DEF DrainEnd, Reschedule, AlarmFires, LoadBarriers,
     Finalize, Rest
<1>6. CASE \/ \E op \in Ops : Forget(op)
           \/ \E m \in net : LoseMessage(m)
  BY <1>6, <1>0, RequestSame DEF Forget, LoseMessage, Rest
<1>7. CASE \E r \in Requests : Resume(r)
  <2> PICK r \in Requests : Resume(r)
    BY <1>7
  <2> PICK op : op = req[r].op  OBVIOUS
  <2> PICK q : q = req[r]  OBVIOUS
  <2>1. Request(q) /\ q.pc = "asked" /\ op \in DOMAIN journal
    BY <1>0 DEF Resume, MayResume, Present
  <2>2. /\ Operation(journal[op]) /\ op \in Ops
        /\ DOMAIN journal[op].targets \subseteq Subject
        /\ Partial(journal[op].before, Origins, Nat)
    BY <2>1, PartialIs DEF IInv, JournalOK, JournalTypeOK, Operation
  <2>3. Bound(op) => OpenRefs(op) \subseteq Ref
    BY <2>1, <2>2, TargetTyped DEF IInv, OpenRefs, RefOf, OpenSubjects, Ref, Target, Bound, Unbound
  <2> PICK g, af, su, rf, b, p :
        /\ g = journal[op].gen /\ af = journal[op].after /\ su = DOMAIN journal[op].targets
        /\ rf = OpenRefs(op) /\ b = journal[op].before
        /\ p = IF Settled(op) THEN "cleared" ELSE "prepared"
    OBVIOUS
  <2> PICK n, m :
        /\ n = [q EXCEPT !.pc = "await", !.resumed = TRUE, !.gen = g, !.after = af,
                         !.subs = su, !.unsent = rf, !.waiting = rf]
        /\ m = [q EXCEPT !.resumed = TRUE, !.before = b, !.pc = p]
    OBVIOUS
  <2>4. req' = [req EXCEPT ![r] = IF Bound(op) THEN n ELSE m]
    BY DEF Resume
  <2>5. rf \subseteq Ref => Request(n)
    BY <2>1, <2>2 DEF Request, Places, Running
  <2>6. Request(m)
    BY <2>1, <2>2 DEF Request, Places, Running
  <2>7. Request(IF Bound(op) THEN n ELSE m)
    BY <2>3, <2>5, <2>6
  <2> PICK k : k = IF Bound(op) THEN n ELSE m  OBVIOUS
  <2> QED  BY <1>0, <2>4, <2>7, OneRequest
<1>8. CASE \/ \E r \in Requests : Refuse(r)
           \/ \E r \in Requests : Withdraw(r)
  <2>1. \E r \in Requests, d \in BOOLEAN : Fail(r, d) /\ req[r].pc \notin {"new", "done"}
    BY <1>8 DEF Refuse, Withdraw
  <2> QED  BY <1>0, <2>1, FailTyped
<1>9. CASE \E r \in Requests : Discover(r)
  <2> PICK r \in Requests : Discover(r)
    BY <1>9
  <2> PICK q : q = req[r]  OBVIOUS
  <2>1. Request(q) /\ q.pc = "asked"
    BY <1>0 DEF Discover
  <2> PICK sh : sh = {live[f] : f \in {g \in Frames \ closed : PlaceOf(live[g]) \in saved}}
    OBVIOUS
  <2> PICK os : os = {q.origin} \cup {s.origin : s \in sh}
    OBVIOUS
  <2> PICK b : b = [o \in os |-> IF o = q.origin THEN q.epoch ELSE epoch[o]]
    OBVIOUS
  <2> PICK n : n = [q EXCEPT !.pc = "found", !.fresh = TRUE, !.subs = sh, !.before = b]
    OBVIOUS
  <2>2. sh \subseteq Subject
    BY DEF IInv, Typed, PageTyped
  <2>3. Partial(b, Origins, Nat)
    <3>1. os \subseteq Origins
      BY <2>1, <2>2 DEF Request, Subject
    <3>2. \A o \in os : b[o] \in Nat
      BY <2>1, <3>1 DEF Request, IInv, Typed, StoreTyped
    <3> QED  BY <3>1, <3>2, PartialIf
  <2>4. Request(n)
    BY <2>1, <2>2, <2>3 DEF Request, Places, Running
  <2>5. req' = [req EXCEPT ![r] = n] \/ Fail(r, FALSE)
    BY DEF Discover
  <2> QED  BY <1>0, <2>1, <2>4, <2>5, OneRequest, FailTyped
<1>10. CASE \/ \E r \in Requests : StartClear(r)
            \/ \E r \in Requests : ClearSessions(r)
            \/ \E r \in Requests : GiveUp(r)
            \/ \E r \in Requests : Reply(r)
            \/ \E r \in Requests : Delivered(r)
            \/ \E r \in Requests : Ask(r)
  <2>0. PICK r \in Requests : \/ StartClear(r) \/ ClearSessions(r) \/ GiveUp(r)
                              \/ Reply(r) \/ Delivered(r) \/ Ask(r)
    BY <1>10
  <2>1. /\ req[r].pc \notin {"new", "done"}
        /\ \/ \E d \in BOOLEAN : Fail(r, d)
           \/ \E p \in {"prepared", "cleared", "drop", "final", "asked"} :
                req' = [req EXCEPT ![r].pc = p]
           \/ req' = [req EXCEPT ![r].pc = "settle", ![r].reply = "ok"]
           \/ UNCHANGED req
    <3>1. CASE StartClear(r)
      BY <3>1 DEF StartClear
    <3>2. CASE ClearSessions(r)
      <4>1. req[r].pc = "prepared"
        BY <3>2 DEF ClearSessions
      <4>2. ASSUME NEW o, IF CutShort(req[r].op, o) THEN Fail(r, TRUE)
                          ELSE req' = [req EXCEPT ![r].pc = IF Entries(req[r].op, "pending") = {o}
                                                            THEN "cleared" ELSE @]
            PROVE  \/ Fail(r, TRUE)
                   \/ \E p \in {"prepared", "cleared"} : req' = [req EXCEPT ![r].pc = p]
        BY <4>1, <4>2
      <4>3. \/ UNCHANGED req \/ Fail(r, TRUE)
            \/ \E o : IF CutShort(req[r].op, o) THEN Fail(r, TRUE)
                      ELSE req' = [req EXCEPT ![r].pc = IF Entries(req[r].op, "pending") = {o}
                                                        THEN "cleared" ELSE @]
        BY <3>2 DEF ClearSessions
      <4> QED  BY <4>1, <4>2, <4>3
    <3>3. CASE GiveUp(r)
      BY <3>3 DEF GiveUp
    <3>4. CASE Reply(r)
      <4>1. req[r].pc = "final"
        BY <3>4 DEF Reply
      <4>2. req' = [req EXCEPT ![r].pc = "settle", ![r].reply = "ok"] \/ \E d : Fail(r, d)
        BY <3>4 DEF Reply
      <4>3. ASSUME NEW d, Fail(r, d)  PROVE Fail(r, TRUE) \/ Fail(r, FALSE)
        BY <4>3 DEF Fail
      <4> QED  BY <4>1, <4>2, <4>3
    <3>5. CASE Delivered(r)
      BY <3>5 DEF Delivered
    <3>6. CASE Ask(r)
      BY <3>6 DEF Ask
    <3> QED  BY <2>0, <3>1, <3>2, <3>3, <3>4, <3>5, <3>6
  <2>2. ASSUME NEW p \in {"prepared", "cleared", "drop", "final", "asked"},
               req' = [req EXCEPT ![r].pc = p]
        PROVE  RequestTyped'
    <3> PICK q : q = req[r]  OBVIOUS
    <3> PICK n : n = [q EXCEPT !.pc = p]  OBVIOUS
    <3>1. Request(n)
      <4>1. Request(q) /\ q.pc \notin {"new", "done"} /\ p \in Places
        BY <1>0, <2>1 DEF Places, Running
      <4> QED  BY <4>1, PcTyped
    <3> QED  BY <1>0, <2>2, <3>1, OneRequest
  <2>3. ASSUME req' = [req EXCEPT ![r].pc = "settle", ![r].reply = "ok"]
        PROVE  RequestTyped'
    BY <1>0, <2>1, <2>3, SettleTyped
  <2> QED  BY <1>0, <2>1, <2>2, <2>3, FailTyped, RequestSame
<1>11. CASE \E r \in Requests : Bind(r)
  <2> PICK r \in Requests : Bind(r)
    BY <1>11
  <2> PICK op : op = req[r].op  OBVIOUS
  <2> PICK q : q = req[r]  OBVIOUS
  <2>1. Request(q) /\ q.pc = "cleared"
    BY <1>0 DEF Bind
  <2>2. Settled(op) /\ Present(op) /\ op \in Ops
    BY <2>1, SoleHolder DEF IInv, RestOK, HolderOK, Holding
  <2>3. canon[op].gen \in Nat \ {0}
    BY <2>2, CanonIs DEF Settled
  <2> PICK rf : rf = {[op |-> req[r].op, gen |-> canon[req[r].op].gen, sub |-> s,
                       rev |-> journal[req[r].op].targets[s].rev] :
                        s \in {x \in OpenSubjects(req[r].op) :
                                x.origin \in DOMAIN Committed(req[r].op)}}
    OBVIOUS
  <2>4. rf \subseteq Ref
    BY <2>2, <2>3, TargetTyped DEF IInv, OpenSubjects, Ref, Target, Present
  <2>5. DOMAIN journal'[op].targets \subseteq Subject
    <3>1. JournalOK' /\ op \in DOMAIN journal'
      <4>1. JournalOK'
        BY BindKeeps
      <4>2. op \in DOMAIN journal'
        BY <2>2 DEF Bind, CommitOrigins, Present, IInv, Typed, JournalTypeOK
      <4> QED  BY <4>1, <4>2
    <3>2. Operation(journal'[op])
      BY <3>1 DEF JournalOK, JournalTypeOK, Operation
    <3> QED  BY <3>2, PartialIs DEF Operation
  <2> PICK g, af, su : /\ g = canon[op].gen /\ af = Committed(op)
                       /\ su = DOMAIN journal'[op].targets
    OBVIOUS
  <2> PICK n : n = [q EXCEPT !.pc = "await", !.gen = g, !.after = af, !.subs = su,
                             !.unsent = rf, !.waiting = rf]
    OBVIOUS
  <2>6. req' = [req EXCEPT ![r] = n]
    BY DEF Bind
  <2>7. Request(n)
    <3>1. Shaped(q)
      BY <2>1, RequestShape
    <3>2. /\ Shaped(n) /\ n.pc = "await" /\ n.op = q.op /\ n.origin = q.origin
          /\ n.epoch = q.epoch /\ n.fresh = q.fresh /\ n.resumed = q.resumed
          /\ n.before = q.before /\ n.subs = su /\ n.unsent = rf /\ n.waiting = rf
      BY <3>1 DEF Shaped
    <3>3. /\ q.op \in Ops /\ q.origin \in Origins /\ q.epoch \in Nat
          /\ q.fresh \in BOOLEAN /\ q.resumed \in BOOLEAN /\ Partial(q.before, Origins, Nat)
      BY <2>1 DEF Request
    <3>4. "await" \in Places /\ su \subseteq Subject
      BY <2>5 DEF Places, Running
    <3> QED  BY <2>4, <3>2, <3>3, <3>4 DEF Request, Shaped
  <2> QED  BY <1>0, <2>6, <2>7, OneRequest
<1>12. CASE \/ \E r \in Requests : Settle(r)
            \/ \E r \in Requests : BarrierError(r)
            \/ WorkerDies
  <2>1. \A r \in Requests : \A x : Request(Done(r, x))
    BY <1>0, DoneTyped
  <2>2. CASE \E r \in Requests : Settle(r) \/ BarrierError(r)
    <3> PICK r \in Requests : Settle(r) \/ BarrierError(r)
      BY <2>2
    <3>1. CASE \E x : req' = [req EXCEPT ![r] = Done(r, x)]
      <4> PICK x : req' = [req EXCEPT ![r] = Done(r, x)]
        BY <3>1
      <4> PICK n : n = Done(r, x)  OBVIOUS
      <4>1. req' = [req EXCEPT ![r] = n] /\ Request(n)
        BY <2>1
      <4> QED  BY <1>0, <4>1, OneRequest
    <3>2. CASE req[r].pc = "settle" /\ req' = [req EXCEPT ![r].pc = "gone"]
      <4> PICK n : n = [req[r] EXCEPT !.pc = "gone"]  OBVIOUS
      <4>1. Request(req[r]) /\ Shaped(req[r]) /\ req[r].pc \notin {"new", "done"}
        BY <1>0, <3>2, RequestShape
      <4>2. Request(n)
        BY <4>1, PcTyped DEF Places
      <4>3. req' = [req EXCEPT ![r] = n]
        BY <3>2
      <4> QED  BY <1>0, <4>2, <4>3, OneRequest
    <3> QED  BY <3>1, <3>2 DEF Settle, BarrierError
  <2>3. CASE WorkerDies
    <3>1. req' = [r \in Requests |-> IF req[r].pc \in Still THEN req[r] ELSE Done(r, "failed")]
      BY <2>3 DEF WorkerDies
    <3>2. \A r \in Requests : Request(req'[r])
      BY <1>0, <2>1, <3>1
    <3> QED  BY <3>1, <3>2, AllRequests
  <2> QED  BY <1>12, <2>2, <2>3
<1>13. CASE \E r \in Requests, op \in Ops : Look(r, op)
  <2> PICK r \in Requests, op \in Ops : Look(r, op)
    BY <1>13
  <2> PICK q, o : q = req[r] /\ o = Top.origin  OBVIOUS
  <2> PICK n : n = [q EXCEPT !.pc = "looked", !.op = op, !.origin = o, !.epoch = epoch[o]]
    OBVIOUS
  <2>1. o \in Origins /\ epoch[o] \in Nat
    BY LiveIs, ConstantsOK DEF Top, IInv, Typed, StoreTyped
  <2>2. Request(n)
    <3>1. Request(q) /\ Shaped(q)
      BY <1>0, RequestShape
    <3>2. /\ Shaped(n) /\ n.pc = "looked" /\ n.op = op /\ n.origin = o /\ n.epoch = epoch[o]
          /\ n.fresh = q.fresh /\ n.resumed = q.resumed /\ n.before = q.before
          /\ n.subs = q.subs /\ n.unsent = q.unsent /\ n.waiting = q.waiting
      BY <3>1 DEF Shaped
    <3> QED  BY <2>1, <3>1, <3>2 DEF Request, Shaped, Places
  <2>3. req' = [req EXCEPT ![r] = n]
    BY DEF Look
  <2> QED  BY <1>0, <2>2, <2>3, OneRequest
<1>14. CASE \/ \E ref \in Due : Deliver(ref)
            \/ \E ref \in sends : Timeout(ref)
            \/ \E m \in net : Acknowledged(m)
            \/ \E m \in net : Disbelieved(m)
            \/ PassError
  <2>1. \/ \E ref, ok : Answered(ref, ok)
        \/ \E ref : req' = [r \in Requests |-> [req[r] EXCEPT !.unsent = @ \ {ref}]]
        \/ UNCHANGED req
    BY <1>14 DEF Deliver, Timeout, Acknowledged, Disbelieved, PassError
  <2>2. ASSUME NEW ref, req' = [r \in Requests |-> [req[r] EXCEPT !.unsent = @ \ {ref}]]
        PROVE  RequestTyped'
    <3>1. \A r \in Requests : Request(req'[r])
      BY <1>0, <2>2, LessTyped
    <3> QED  BY <2>2, <3>1, AllRequests
  <2>3. ASSUME NEW ref, NEW ok, Answered(ref, ok)
        PROVE  RequestTyped'
    <3>1. ASSUME NEW r \in Requests  PROVE Request(req'[r])
      <4>1. \/ req'[r] = req[r]
            \/ req'[r] = [req[r] EXCEPT !.waiting = @ \ {ref}, !.unsent = @ \ {ref},
                                        !.failed = @ \/ ~ok]
        BY <2>3 DEF Answered
      <4>2. CASE req'[r] = req[r]
        BY <1>0, <4>2
      <4>3. CASE req'[r] = [req[r] EXCEPT !.waiting = @ \ {ref}, !.unsent = @ \ {ref},
                                         !.failed = @ \/ ~ok]
        <5> PICK q : q = req[r]  OBVIOUS
        <5>1. Request(q)
          BY <1>0
        <5>2. Request([q EXCEPT !.waiting = @ \ {ref}, !.unsent = @ \ {ref},
                                !.failed = @ \/ ~ok])
          BY <5>1, LessTyped
        <5> QED  BY <4>3, <5>2
      <4> QED  BY <4>1, <4>2, <4>3
    <3>2. req' = [r \in Requests |-> req'[r]]
      BY <2>3 DEF Answered
    <3> QED  BY <3>1, <3>2, AllRequests
  <2> QED  BY <1>0, <2>1, <2>2, <2>3, RequestSame
<1>15. CASE \E s \in navs : HandleNavigation(s)
  <2>1. req' = [r \in Requests |-> [req[r] EXCEPT !.fresh = FALSE]]
    BY <1>15 DEF HandleNavigation
  <2>2. \A r \in Requests : Request(req'[r])
    BY <1>0, <2>1, LessTyped
  <2> QED  BY <2>1, <2>2, AllRequests
<1>16. CASE \E t \in tasks : \E op \in t.todo : TaskStep(t, op)
  <2>1. \/ UNCHANGED req
        \/ \E ref : req' = [r \in Requests |->
                              IF ref \notin req[r].waiting THEN req[r]
                              ELSE [req[r] EXCEPT !.waiting = @ \ {ref}, !.failed = TRUE,
                                                  !.unsent = @ \ {ref}]]
    BY <1>16, TaskStepWaits DEF LetGo
  <2>2. ASSUME NEW ref,
               req' = [r \in Requests |->
                         IF ref \notin req[r].waiting THEN req[r]
                         ELSE [req[r] EXCEPT !.waiting = @ \ {ref}, !.failed = TRUE,
                                             !.unsent = @ \ {ref}]]
        PROVE  RequestTyped'
    <3>1. ASSUME NEW r \in Requests  PROVE Request(req'[r])
      <4> PICK q : q = req[r]  OBVIOUS
      <4>1. Request(q)
        BY <1>0
      <4>2. Request([q EXCEPT !.waiting = @ \ {ref}, !.failed = TRUE,
                              !.unsent = @ \ {ref}])
        BY <4>1, LessTyped
      <4> QED  BY <2>2, <4>1, <4>2
    <3>2. req' = [r \in Requests |-> req'[r]]
      BY <2>2
    <3> QED  BY <3>1, <3>2, AllRequests
  <2> QED  BY <1>0, <2>1, <2>2, RequestSame
<1>17. CASE \E r \in Requests : RequestError(r)
  <2> PICK r \in Requests : RequestError(r)
    BY <1>17
  <2> PICK q : q = req[r]  OBVIOUS
  <2> PICK m : m = [q EXCEPT !.reply = "failed", !.unsent = {}, !.waiting = {}]
    OBVIOUS
  <2> PICK n : n = [m EXCEPT !.pc = "settle"]
    OBVIOUS
  <2>0. Request(q) /\ q.pc \notin {"new", "done"}
    BY <1>0 DEF RequestError
  <2>1. Request(q) /\ Shaped(q) /\ q.pc \notin {"new", "done"}
    BY <2>0, RequestShape
  <2>2. /\ Shaped(m) /\ m.pc = q.pc /\ m.op = q.op /\ m.origin = q.origin
        /\ m.epoch = q.epoch /\ m.fresh = q.fresh /\ m.resumed = q.resumed
        /\ m.before = q.before /\ m.subs = q.subs /\ m.unsent = {} /\ m.waiting = {}
    BY <2>1 DEF Shaped
  <2>3. Request(m)
    BY <2>1, <2>2 DEF Request, Shaped
  <2>4. Request(n)
    BY <2>1, <2>2, <2>3, PcTyped DEF Places
  <2>5. req' = [req EXCEPT ![r] = n]
    <3>1. n = [q EXCEPT !.pc = "settle", !.reply = "failed", !.unsent = {}, !.waiting = {}]
      BY <2>1 DEF Shaped
    <3> QED  BY <3>1 DEF RequestError
  <2> QED  BY <1>0, <2>4, <2>5, OneRequest
<1> QED  BY <1>1, <1>2, <1>3, <1>4, <1>5, <1>6, <1>7, <1>8, <1>9, <1>10, <1>11, <1>12,
         <1>13, <1>14, <1>15, <1>16, <1>17 DEF Step

-----------------------------------------------------------------------------
(* The types of the worker's own state.                                    *)

LEMMA AlarmTyped ==
  ASSUME IInv, Step
  PROVE  alarm' \in BOOLEAN /\ loaded' \in BOOLEAN /\ reread' \in BOOLEAN
<1>0. alarm \in BOOLEAN /\ loaded \in BOOLEAN /\ reread \in BOOLEAN
  BY DEF IInv, Typed, WorkerTyped
<1>1. CASE \/ \E f \in Frames : Capture(f)
           \/ \E f \in Frames : CloseFrame(f)
           \/ \E f \in Frames, p \in Paths : ChangeRoute(f, p)
           \/ \E f \in Frames, p \in Paths, o \in Origins : Navigate(f, o, p)
           \/ ClearAll
           \/ \E m \in net : ShowMarkers(m)
           \/ \E m \in net : TakeDown(m)
           \/ \E r \in Requests : Resume(r)
  <2>1. CASE \E f \in Frames : Capture(f)
    BY <2>1, <1>0 DEF Capture, Rest, passVars
  <2>2. CASE \E f \in Frames : CloseFrame(f)
    BY <2>2, <1>0 DEF CloseFrame, Rest, passVars
  <2>3. CASE \E f \in Frames, p \in Paths : ChangeRoute(f, p)
    BY <2>3, <1>0 DEF ChangeRoute, Rest, passVars
  <2>4. CASE \E f \in Frames, p \in Paths, o \in Origins : Navigate(f, o, p)
    BY <2>4, <1>0 DEF Navigate, Rest, passVars
  <2>5. CASE ClearAll
    BY <2>5, <1>0 DEF ClearAll, Rest, passVars
  <2>6. CASE \E m \in net : ShowMarkers(m)
    BY <2>6, <1>0 DEF ShowMarkers, Rest, passVars
  <2>7. CASE \E m \in net : TakeDown(m)
    BY <2>7, <1>0 DEF TakeDown, Rest, passVars
  <2>8. CASE \E r \in Requests : Resume(r)
    BY <2>8, <1>0 DEF Resume, Rest, passVars
  <2> QED  BY <1>1, <2>1, <2>2, <2>3, <2>4, <2>5, <2>6, <2>7, <2>8
<1>2. CASE \/ \E r \in Requests : Refuse(r)
           \/ \E r \in Requests : Discover(r)
           \/ \E r \in Requests : StartClear(r)
           \/ \E r \in Requests : Withdraw(r)
           \/ \E r \in Requests : ClearSessions(r)
           \/ \E r \in Requests : Bind(r)
           \/ \E r \in Requests : GiveUp(r)
           \/ \E r \in Requests : Delivered(r)
  <2>1. CASE \E r \in Requests : Refuse(r)
    BY <2>1, <1>0 DEF Refuse, Fail, Arm, Rest, passVars
  <2>2. CASE \E r \in Requests : Discover(r)
    BY <2>2, <1>0 DEF Discover, Fail, Arm, Rest, passVars
  <2>3. CASE \E r \in Requests : StartClear(r)
    BY <2>3, <1>0 DEF StartClear, Fail, Arm, Rest, passVars
  <2>4. CASE \E r \in Requests : Withdraw(r)
    BY <2>4, <1>0 DEF Withdraw, Fail, Arm, Rest, passVars
  <2>5. CASE \E r \in Requests : ClearSessions(r)
    BY <2>5, <1>0 DEF ClearSessions, Fail, Arm, Rest, passVars
  <2>6. CASE \E r \in Requests : Bind(r)
    BY <2>6, <1>0 DEF Bind, Fail, Arm, Rest, passVars
  <2>7. CASE \E r \in Requests : GiveUp(r)
    BY <2>7, <1>0 DEF GiveUp, Fail, Arm, Rest, passVars
  <2>8. CASE \E r \in Requests : Delivered(r)
    BY <2>8, <1>0 DEF Delivered, Fail, Arm, Rest, passVars
  <2> QED  BY <1>2, <2>1, <2>2, <2>3, <2>4, <2>5, <2>6, <2>7, <2>8
<1>3. CASE \/ \E r \in Requests : Reply(r)
           \/ \E r \in Requests : Settle(r)
           \/ \E r \in Requests : BarrierError(r)
           \/ \E r \in Requests : Ask(r)
           \/ \E r \in Requests, op \in Ops : Look(r, op)
           \/ \E ref \in Due : Deliver(ref)
           \/ \E ref \in sends : Timeout(ref)
           \/ \E m \in net : Acknowledged(m)
           \/ \E m \in net : Disbelieved(m)
  <2>1. CASE \E r \in Requests : Reply(r)
    BY <2>1, <1>0 DEF Reply, Fail, Arm, Rest, passVars
  <2>2. CASE \E r \in Requests : Settle(r) \/ BarrierError(r)
    BY <2>2, <1>0 DEF Settle, BarrierError, Fail, Arm, Rest, passVars
  <2>3. CASE \E r \in Requests : Ask(r)
    BY <2>3, <1>0 DEF Ask, Fail, Arm, Rest, passVars
  <2>4. CASE \E r \in Requests, op \in Ops : Look(r, op)
    BY <2>4, <1>0 DEF Look, passVars
  <2>5. CASE \E ref \in Due : Deliver(ref)
    BY <2>5, <1>0 DEF Deliver, Answered, Arm
  <2>6. CASE \E ref \in sends : Timeout(ref)
    BY <2>6, <1>0 DEF Timeout
  <2>7. CASE \E m \in net : Acknowledged(m)
    BY <2>7, <1>0 DEF Acknowledged
  <2>8. CASE \E m \in net : Disbelieved(m)
    BY <2>8, <1>0 DEF Disbelieved
  <2> QED  BY <1>3, <2>1, <2>2, <2>3, <2>4, <2>5, <2>6, <2>7, <2>8
<1>4. CASE \/ \E s \in navs : HandleNavigation(s)
           \/ \E m \in net : HandleRestore(m)
           \/ \E t \in tasks : TaskEnd(t)
           \/ \E t \in tasks : \E op \in t.todo : TaskStep(t, op)
           \/ ReconStart
           \/ ReconRemove
           \/ ReconLeave
           \/ ReconClear
  <2>1. CASE \E s \in navs : HandleNavigation(s)
    BY <2>1, <1>0 DEF HandleNavigation, passVars
  <2>2. CASE \E m \in net : HandleRestore(m)
    BY <2>2, <1>0 DEF HandleRestore, passVars
  <2>3. CASE \E t \in tasks : TaskEnd(t)
    BY <2>3, <1>0 DEF TaskEnd, Rest
  <2>4. CASE \E t \in tasks : \E op \in t.todo : TaskStep(t, op)
    BY <2>4, <1>0 DEF TaskStep
  <2>5. CASE ReconStart
    BY <2>5, <1>0 DEF ReconStart, Arm, passVars, Rest
  <2>6. CASE ReconRemove
    BY <2>6, <1>0 DEF ReconRemove, Arm, passVars, Rest
  <2>7. CASE ReconLeave
    BY <2>7, <1>0 DEF ReconLeave, Arm, passVars, Rest
  <2>8. CASE ReconClear
    BY <2>8, <1>0 DEF ReconClear, Arm, passVars, Rest
  <2> QED  BY <1>4, <2>1, <2>2, <2>3, <2>4, <2>5, <2>6, <2>7, <2>8
<1>5. CASE \/ ReconGiveUp
           \/ ReconBind
           \/ ReconFinalize
           \/ ReconDrain
           \/ ReconEnd
           \/ \E op \in recon.todo : ReconTake(op)
           \/ DrainStart
           \/ DrainEnd
  <2>1. CASE ReconGiveUp
    BY <2>1, <1>0 DEF ReconGiveUp, Arm, passVars, Rest
  <2>2. CASE ReconBind
    BY <2>2, <1>0 DEF ReconBind, Arm, passVars, Rest
  <2>3. CASE ReconFinalize
    BY <2>3, <1>0 DEF ReconFinalize, Arm, passVars, Rest
  <2>4. CASE ReconDrain
    BY <2>4, <1>0 DEF ReconDrain, Arm, passVars, Rest
  <2>5. CASE ReconEnd
    BY <2>5, <1>0 DEF ReconEnd, Arm, passVars, Rest
  <2>6. CASE \E op \in recon.todo : ReconTake(op)
    BY <2>6, <1>0 DEF ReconTake, Arm, Rest
  <2>7. CASE DrainStart
    BY <2>7, <1>0 DEF DrainStart, Arm, Rest
  <2>8. CASE DrainEnd
    BY <2>8, <1>0 DEF DrainEnd, Arm, Rest
  <2> QED  BY <1>5, <2>1, <2>2, <2>3, <2>4, <2>5, <2>6, <2>7, <2>8
<1>6. CASE \/ Reschedule
           \/ AlarmFires
           \/ LoadBarriers
           \/ \E op \in Ops : Finalize(op)
           \/ \E op \in Ops : Forget(op)
           \/ PassError
           \/ WorkerDies
           \/ \E m \in net : LoseMessage(m)
  <2>1. CASE Reschedule
    BY <2>1, <1>0 DEF Reschedule, Arm, passVars, Rest
  <2>2. CASE AlarmFires
    BY <2>2, <1>0 DEF AlarmFires, Arm, passVars, Rest
  <2>3. CASE LoadBarriers
    BY <2>3, <1>0 DEF LoadBarriers, Arm, passVars, Rest
  <2>4. CASE \E op \in Ops : Finalize(op)
    BY <2>4, <1>0 DEF Finalize, Arm, Rest
  <2>5. CASE \E op \in Ops : Forget(op)
    BY <2>5, <1>0 DEF Forget, Arm, Rest
  <2>6. CASE PassError
    BY <2>6, <1>0 DEF PassError, Arm, Answered, Rest
  <2>7. CASE WorkerDies
    BY <2>7, <1>0 DEF WorkerDies
  <2>8. CASE \E m \in net : LoseMessage(m)
    BY <2>8, <1>0 DEF LoseMessage, Rest, passVars
  <2> QED  BY <1>6, <2>1, <2>2, <2>3, <2>4, <2>5, <2>6, <2>7, <2>8
<1>7. CASE \E r \in Requests : RequestError(r)
  BY <1>7, <1>0 DEF RequestError, Fail, Arm, Answered, passVars, Rest
<1> QED  BY <1>1, <1>2, <1>3, <1>4, <1>5, <1>6, <1>7 DEF Step

\* All others leave the barriers alone.
BarrierMoves ==
  \/ LoadBarriers \/ WorkerDies
  \/ \E r \in Requests : Ask(r) \/ Settle(r) \/ BarrierError(r)
  \/ \E op \in Ops : Forget(op)
  \/ ReconRemove

LEMMA BarrierSteps ==
  ASSUME Step
  PROVE  BarrierMoves \/ UNCHANGED <<barrier, loaded>>
<1>1. CASE \/ \E f \in Frames : Capture(f)
           \/ \E f \in Frames : CloseFrame(f)
           \/ \E f \in Frames, p \in Paths : ChangeRoute(f, p)
           \/ \E f \in Frames, p \in Paths, o \in Origins : Navigate(f, o, p)
           \/ ClearAll
           \/ \E m \in net : ShowMarkers(m)
           \/ \E m \in net : TakeDown(m)
           \/ \E r \in Requests : Resume(r)
  BY <1>1 DEF Capture, CloseFrame, ChangeRoute, Navigate, ClearAll, ShowMarkers,
     TakeDown, Resume, Rest
<1>2. CASE \/ \E r \in Requests : Refuse(r)
           \/ \E r \in Requests : Discover(r)
           \/ \E r \in Requests : StartClear(r)
           \/ \E r \in Requests : Withdraw(r)
           \/ \E r \in Requests : ClearSessions(r)
           \/ \E r \in Requests : Bind(r)
           \/ \E r \in Requests : GiveUp(r)
           \/ \E r \in Requests : Delivered(r)
  BY <1>2 DEF Refuse, Discover, StartClear, Withdraw, ClearSessions, Bind, GiveUp,
     Delivered, Rest
<1>3. CASE \/ \E r \in Requests : Reply(r)
           \/ \E r \in Requests, op \in Ops : Look(r, op)
           \/ \E ref \in Due : Deliver(ref)
           \/ \E ref \in sends : Timeout(ref)
           \/ \E m \in net : Acknowledged(m)
           \/ \E m \in net : Disbelieved(m)
           \/ \E s \in navs : HandleNavigation(s)
           \/ \E m \in net : HandleRestore(m)
  BY <1>3 DEF Reply, Look, Deliver, Timeout, Acknowledged, Disbelieved,
     HandleNavigation, HandleRestore, Rest
<1>4. CASE \/ \E t \in tasks : TaskEnd(t)
           \/ \E t \in tasks : \E op \in t.todo : TaskStep(t, op)
           \/ ReconStart
           \/ ReconLeave
           \/ ReconClear
           \/ ReconGiveUp
           \/ ReconBind
           \/ ReconFinalize
  BY <1>4 DEF TaskEnd, TaskStep, ReconStart, ReconLeave, ReconClear, ReconGiveUp,
     ReconBind, ReconFinalize, Rest
<1>5. CASE \/ ReconDrain
           \/ ReconEnd
           \/ \E op \in recon.todo : ReconTake(op)
           \/ DrainStart
           \/ DrainEnd
           \/ Reschedule
           \/ AlarmFires
           \/ \E op \in Ops : Finalize(op)
  BY <1>5 DEF ReconDrain, ReconEnd, ReconTake, DrainStart, DrainEnd, Reschedule,
     AlarmFires, Finalize, Rest
<1>6. CASE \/ PassError
           \/ \E m \in net : LoseMessage(m)
           \/ \E r \in Requests : RequestError(r)
  BY <1>6 DEF PassError, LoseMessage, RequestError, Rest
<1> QED  BY <1>1, <1>2, <1>3, <1>4, <1>5, <1>6 DEF Step, BarrierMoves

LEMMA BarrierTyped ==
  ASSUME IInv, Step
  PROVE  barrier' \in [Ops -> Attempt]
<1>0. barrier \in [Ops -> Attempt] /\ {None, Boot} \subseteq Attempt /\ Requests \subseteq Attempt
  BY DEF IInv, Typed, WorkerTyped, Attempt
<1>1. CASE \E r \in Requests : Ask(r)
  BY <1>1, <1>0 DEF Ask
<1>2. CASE \/ \E r \in Requests : Settle(r) \/ BarrierError(r)
           \/ \E op \in Ops : Forget(op)
           \/ ReconRemove
  <2>1. barrier' = barrier \/ \E op, a : barrier' = BarrierWithout(op, a)
    BY <1>2 DEF Settle, BarrierError, Forget, ReconRemove
  <2>2. ASSUME NEW op, NEW a  PROVE BarrierWithout(op, a) \in [Ops -> Attempt]
    BY <1>0 DEF BarrierWithout
  <2> QED  BY <1>0, <2>1, <2>2
<1>3. CASE LoadBarriers \/ WorkerDies
  BY <1>3, <1>0 DEF LoadBarriers, WorkerDies
<1> QED  BY <1>0, <1>1, <1>2, <1>3, BarrierSteps DEF BarrierMoves

TasksTyped == \A t \in tasks : t.sub \in Subject /\ t.todo \subseteq Ops

LEMMA TasksStep ==
  ASSUME IInv, Step
  PROVE  TasksTyped'
<1>0. TasksTyped
  BY DEF IInv, Typed, WorkerTyped, TasksTyped
<1>1. CASE \/ \E f \in Frames : Capture(f)
           \/ \E f \in Frames : CloseFrame(f)
           \/ \E f \in Frames, p \in Paths : ChangeRoute(f, p)
           \/ \E f \in Frames, p \in Paths, o \in Origins : Navigate(f, o, p)
           \/ ClearAll
           \/ \E m \in net : ShowMarkers(m)
           \/ \E m \in net : TakeDown(m)
           \/ \E r \in Requests : Resume(r)
  BY <1>1, <1>0 DEF Capture, CloseFrame, ChangeRoute, Navigate, ClearAll, ShowMarkers,
     TakeDown, Resume, Rest, TasksTyped
<1>2. CASE \/ \E r \in Requests : Refuse(r)
           \/ \E r \in Requests : Discover(r)
           \/ \E r \in Requests : StartClear(r)
           \/ \E r \in Requests : Withdraw(r)
           \/ \E r \in Requests : ClearSessions(r)
           \/ \E r \in Requests : Bind(r)
           \/ \E r \in Requests : GiveUp(r)
           \/ \E r \in Requests : Delivered(r)
  BY <1>2, <1>0 DEF Refuse, Discover, StartClear, Withdraw, ClearSessions, Bind, GiveUp,
     Delivered, Rest, TasksTyped
<1>3. CASE \/ \E r \in Requests : Reply(r)
           \/ \E r \in Requests : Settle(r)
           \/ \E r \in Requests : BarrierError(r)
           \/ \E r \in Requests : Ask(r)
           \/ \E r \in Requests, op \in Ops : Look(r, op)
           \/ \E ref \in Due : Deliver(ref)
           \/ \E ref \in sends : Timeout(ref)
           \/ \E m \in net : Acknowledged(m)
           \/ \E m \in net : Disbelieved(m)
  BY <1>3, <1>0 DEF Reply, Settle, BarrierError, Ask, Look, Deliver, Timeout, Acknowledged,
     Disbelieved, Rest, TasksTyped
<1>4. CASE \/ ReconStart
           \/ ReconRemove
           \/ ReconLeave
           \/ ReconClear
           \/ ReconGiveUp
           \/ ReconBind
           \/ ReconFinalize
           \/ ReconDrain
  BY <1>4, <1>0 DEF ReconStart, ReconRemove, ReconLeave, ReconClear, ReconGiveUp,
     ReconBind, ReconFinalize, ReconDrain, Rest, TasksTyped
<1>5. CASE \/ ReconEnd
           \/ \E op \in recon.todo : ReconTake(op)
           \/ DrainStart
           \/ DrainEnd
           \/ Reschedule
           \/ AlarmFires
           \/ LoadBarriers
           \/ \E op \in Ops : Finalize(op)
  BY <1>5, <1>0 DEF ReconEnd, ReconTake, DrainStart, DrainEnd, Reschedule, AlarmFires,
     LoadBarriers, Finalize, Rest, TasksTyped
<1>6. CASE \/ \E op \in Ops : Forget(op)
           \/ PassError
           \/ \E m \in net : LoseMessage(m)
           \/ \E r \in Requests : RequestError(r)
  BY <1>6, <1>0 DEF Forget, PassError, LoseMessage, RequestError, Rest, TasksTyped
<1>7. CASE \/ \E s \in navs : HandleNavigation(s)
           \/ \E m \in net : HandleRestore(m)
  <2>1. \E kind : \E s \in Subject : tasks' = tasks \cup {Task(kind, s)}
    <3>1. CASE \E s \in navs : HandleNavigation(s)
      BY <3>1 DEF HandleNavigation, IInv, Typed, PageTyped
    <3>2. CASE \E m \in net : HandleRestore(m)
      <4> PICK m \in net : HandleRestore(m)
        BY <3>2
      <4>1. m.sub \in Subject
        BY DEF HandleRestore, IInv, Typed, PageTyped, Message
      <4> QED  BY <4>1 DEF HandleRestore
    <3> QED  BY <1>7, <3>1, <3>2
  <2>2. DOMAIN journal \subseteq Ops
    BY DEF IInv, Typed, JournalTypeOK
  <2> QED  BY <1>0, <2>1, <2>2 DEF TasksTyped, Task
<1>8. CASE \E t \in tasks : \E op \in t.todo : TaskStep(t, op)
  <2> PICK t \in tasks : \E op \in t.todo : TaskStep(t, op)
    BY <1>8
  <2> PICK op \in t.todo : TaskStep(t, op)
    OBVIOUS
  <2> PICK n : n = [t EXCEPT !.todo = @ \ {op}]  OBVIOUS
  <2>1. n.sub = t.sub /\ n.todo \subseteq Ops
    BY <1>0 DEF TasksTyped
  <2>2. tasks' \subseteq tasks \cup {n}
    BY DEF TaskStep
  <2> QED  BY <1>0, <2>1, <2>2 DEF TasksTyped
<1>9. CASE \/ \E t \in tasks : TaskEnd(t)
           \/ WorkerDies
  <2>1. tasks' \subseteq tasks
    BY <1>9 DEF TaskEnd, WorkerDies
  <2> QED  BY <1>0, <2>1 DEF TasksTyped
<1> QED  BY <1>1, <1>2, <1>3, <1>4, <1>5, <1>6, <1>7, <1>8, <1>9 DEF Step

LEMMA SendsStep ==
  ASSUME IInv, Step
  PROVE  sends' \subseteq Ref
<1>0. sends \subseteq Ref
  BY DEF IInv, Typed, WorkerTyped
<1>1. CASE \/ \E f \in Frames : Capture(f)
           \/ \E f \in Frames : CloseFrame(f)
           \/ \E f \in Frames, p \in Paths : ChangeRoute(f, p)
           \/ \E f \in Frames, p \in Paths, o \in Origins : Navigate(f, o, p)
           \/ ClearAll
           \/ \E m \in net : ShowMarkers(m)
           \/ \E m \in net : TakeDown(m)
           \/ \E r \in Requests : Resume(r)
  BY <1>1, <1>0 DEF Capture, CloseFrame, ChangeRoute, Navigate, ClearAll, ShowMarkers,
     TakeDown, Resume, Rest
<1>2. CASE \/ \E r \in Requests : Refuse(r)
           \/ \E r \in Requests : Discover(r)
           \/ \E r \in Requests : StartClear(r)
           \/ \E r \in Requests : Withdraw(r)
           \/ \E r \in Requests : ClearSessions(r)
           \/ \E r \in Requests : Bind(r)
           \/ \E r \in Requests : GiveUp(r)
           \/ \E r \in Requests : Delivered(r)
  BY <1>2, <1>0 DEF Refuse, Discover, StartClear, Withdraw, ClearSessions, Bind, GiveUp,
     Delivered, Rest
<1>3. CASE \/ \E r \in Requests : Reply(r)
           \/ \E r \in Requests : Settle(r)
           \/ \E r \in Requests : BarrierError(r)
           \/ \E r \in Requests : Ask(r)
           \/ \E r \in Requests, op \in Ops : Look(r, op)
           \/ \E s \in navs : HandleNavigation(s)
           \/ \E m \in net : HandleRestore(m)
           \/ \E t \in tasks : TaskEnd(t)
           \/ ReconStart
  BY <1>3, <1>0 DEF Reply, Settle, BarrierError, Ask, Look, HandleNavigation,
     HandleRestore, TaskEnd, ReconStart, Rest
<1>4. CASE \/ ReconRemove
           \/ ReconLeave
           \/ ReconClear
           \/ ReconGiveUp
           \/ ReconBind
           \/ ReconFinalize
           \/ ReconDrain
           \/ ReconEnd
  BY <1>4, <1>0 DEF ReconRemove, ReconLeave, ReconClear, ReconGiveUp, ReconBind,
     ReconFinalize, ReconDrain, ReconEnd, Rest
<1>5. CASE \/ \E op \in recon.todo : ReconTake(op)
           \/ DrainStart
           \/ DrainEnd
           \/ Reschedule
           \/ AlarmFires
           \/ LoadBarriers
           \/ \E op \in Ops : Finalize(op)
           \/ \E op \in Ops : Forget(op)
  BY <1>5, <1>0 DEF ReconTake, DrainStart, DrainEnd, Reschedule, AlarmFires,
     LoadBarriers, Finalize, Forget, Rest
<1>6. CASE \/ \E m \in net : LoseMessage(m)
           \/ \E r \in Requests : RequestError(r)
  BY <1>6, <1>0 DEF LoseMessage, RequestError, Rest
<1>7. CASE \E ref \in Due : Deliver(ref)
  <2>1. \E ref \in Due : sends' \subseteq sends \cup {ref}
    BY <1>7 DEF Deliver, Answered
  <2> QED  BY <1>0, <2>1, DueIs DEF IInv
<1>8. CASE \/ \E ref \in sends : Timeout(ref)
           \/ \E m \in net : Acknowledged(m)
           \/ \E m \in net : Disbelieved(m)
           \/ \E t \in tasks : \E op \in t.todo : TaskStep(t, op)
           \/ PassError
           \/ WorkerDies
  <2>1. CASE \/ \E ref \in sends : Timeout(ref)
             \/ \E m \in net : Acknowledged(m)
             \/ \E m \in net : Disbelieved(m)
    <3>1. CASE \E ref \in sends : Timeout(ref)
      BY <1>0, <3>1 DEF Timeout, Answered
    <3>2. CASE \E m \in net : Acknowledged(m)
      BY <1>0, <3>2 DEF Acknowledged, Answered
    <3>3. CASE \E m \in net : Disbelieved(m)
      BY <1>0, <3>3 DEF Disbelieved, Answered
    <3> QED  BY <2>1, <3>1, <3>2, <3>3
  <2>2. CASE \E t \in tasks : \E op \in t.todo : TaskStep(t, op)
    BY <1>0, <2>2, TaskStepWaits DEF LetGo
  <2>3. CASE PassError
    BY <1>0, <2>3 DEF PassError, Answered
  <2>4. CASE WorkerDies
    BY <1>0, <2>4 DEF WorkerDies
  <2> QED  BY <1>8, <2>1, <2>2, <2>3, <2>4
<1> QED  BY <1>1, <1>2, <1>3, <1>4, <1>5, <1>6, <1>7, <1>8 DEF Step

Recon == [busy : BOOLEAN, again : BOOLEAN, todo : SUBSET Ops, held : Ops \cup {None},
          att : Attempt, drop : BOOLEAN, drains : BOOLEAN]

LEMMA ReconTyped ==
  ASSUME IInv, Step
  PROVE  recon' \in Recon
<1>0. recon \in Recon /\ None \in Attempt
  BY DEF IInv, Typed, WorkerTyped, Recon, Attempt
<1>1. CASE \/ \E f \in Frames : Capture(f)
           \/ \E f \in Frames : CloseFrame(f)
           \/ \E f \in Frames, p \in Paths : ChangeRoute(f, p)
           \/ \E f \in Frames, p \in Paths, o \in Origins : Navigate(f, o, p)
           \/ ClearAll
           \/ \E m \in net : ShowMarkers(m)
           \/ \E m \in net : TakeDown(m)
           \/ \E r \in Requests : Resume(r)
  BY <1>1, <1>0 DEF Capture, CloseFrame, ChangeRoute, Navigate, ClearAll, ShowMarkers,
     TakeDown, Resume, Rest, passVars
<1>2. CASE \/ \E r \in Requests : Refuse(r)
           \/ \E r \in Requests : Discover(r)
           \/ \E r \in Requests : StartClear(r)
           \/ \E r \in Requests : Withdraw(r)
           \/ \E r \in Requests : ClearSessions(r)
           \/ \E r \in Requests : Bind(r)
           \/ \E r \in Requests : GiveUp(r)
           \/ \E r \in Requests : Delivered(r)
  BY <1>2, <1>0 DEF Refuse, Discover, StartClear, Withdraw, ClearSessions, Bind, GiveUp,
     Delivered, Rest, passVars
<1>3. CASE \/ \E r \in Requests : Reply(r)
           \/ \E r \in Requests : Settle(r)
           \/ \E r \in Requests : BarrierError(r)
           \/ \E r \in Requests : Ask(r)
           \/ \E r \in Requests, op \in Ops : Look(r, op)
           \/ \E ref \in Due : Deliver(ref)
           \/ \E ref \in sends : Timeout(ref)
           \/ \E m \in net : Disbelieved(m)
           \/ \E s \in navs : HandleNavigation(s)
  BY <1>3, <1>0 DEF Reply, Settle, BarrierError, Ask, Look, Deliver, Timeout, Disbelieved,
     HandleNavigation, Rest, passVars
<1>4. CASE \/ \E m \in net : HandleRestore(m)
           \/ \E t \in tasks : TaskEnd(t)
           \/ \E t \in tasks : \E op \in t.todo : TaskStep(t, op)
           \/ ReconBind
           \/ DrainStart
           \/ DrainEnd
           \/ Reschedule
           \/ LoadBarriers
  BY <1>4, <1>0 DEF HandleRestore, TaskEnd, TaskStep, ReconBind, DrainStart, DrainEnd,
     Reschedule, LoadBarriers, Rest, passVars
<1>5. CASE \/ \E op \in Ops : Finalize(op)
           \/ \E op \in Ops : Forget(op)
           \/ \E m \in net : LoseMessage(m)
           \/ \E r \in Requests : RequestError(r)
  BY <1>5, <1>0 DEF Finalize, Forget, LoseMessage, RequestError, Rest, passVars
<1>6. CASE ReconStart
  <2>1. DOMAIN journal \subseteq Ops
    BY DEF IInv, Typed, JournalTypeOK
  <2> QED  BY <1>6, <1>0, <2>1 DEF ReconStart, Recon
<1>7. CASE \E op \in recon.todo : ReconTake(op)
  <2> PICK op \in recon.todo : ReconTake(op)
    BY <1>7
  <2>1. op \in Ops /\ barrier[op] \in Attempt
    BY <1>0 DEF Recon, IInv, Typed, WorkerTyped
  <2> PICK h, a : /\ h = IF Clearing(op) \/ ~Present(op) THEN None ELSE op
                  /\ a = IF Clearing(op) \/ ~Present(op) THEN None ELSE barrier[op]
    OBVIOUS
  <2>2. h \in Ops \cup {None} /\ a \in Attempt
    BY <1>0, <2>1
  <2>3. recon' = [recon EXCEPT !.todo = @ \ {op}, !.held = h, !.att = a]
    BY DEF ReconTake
  <2> QED  BY <1>0, <2>2, <2>3 DEF Recon
<1>8. CASE \/ ReconRemove
           \/ ReconLeave
           \/ ReconClear
           \/ ReconFinalize
           \/ PassError
  <2>1. Release \/ UNCHANGED recon \/ recon' = [recon EXCEPT !.again = FALSE]
    BY <1>8 DEF ReconRemove, ReconLeave, ReconClear, ReconFinalize, PassError
  <2> QED  BY <1>0, <2>1 DEF Release, Recon
<1>9. CASE \/ ReconGiveUp
           \/ ReconDrain
           \/ ReconEnd
           \/ AlarmFires
           \/ \E m \in net : Acknowledged(m)
           \/ WorkerDies
  <2>1. CASE ReconGiveUp \/ ReconDrain \/ ReconEnd
    BY <2>1, <1>0 DEF ReconGiveUp, ReconDrain, ReconEnd, Recon
  <2>2. CASE AlarmFires \/ \E m \in net : Acknowledged(m)
    <3>1. recon' = [recon EXCEPT !.again = TRUE]
      BY <2>2 DEF AlarmFires, Acknowledged
    <3> QED  BY <1>0, <3>1 DEF Recon
  <2>3. CASE WorkerDies
    BY <2>3, <1>0 DEF WorkerDies, IdleRecon, Recon
  <2> QED  BY <1>9, <2>1, <2>2, <2>3
<1> QED  BY <1>1, <1>2, <1>3, <1>4, <1>5, <1>6, <1>7, <1>8, <1>9 DEF Step

Drain == [busy : BOOLEAN, again : BOOLEAN, batch : SUBSET Ref, waiting : SUBSET Ref]

LEMMA DrainTyped ==
  ASSUME IInv, Step
  PROVE  drain' \in Drain
<1>0. drain \in Drain
  BY DEF IInv, Typed, WorkerTyped, Drain
<1>1. CASE \/ \E f \in Frames : Capture(f)
           \/ \E f \in Frames : CloseFrame(f)
           \/ \E f \in Frames, p \in Paths : ChangeRoute(f, p)
           \/ \E f \in Frames, p \in Paths, o \in Origins : Navigate(f, o, p)
           \/ ClearAll
           \/ \E m \in net : ShowMarkers(m)
           \/ \E m \in net : TakeDown(m)
           \/ \E r \in Requests : Resume(r)
  BY <1>1, <1>0 DEF Capture, CloseFrame, ChangeRoute, Navigate, ClearAll, ShowMarkers,
     TakeDown, Resume, Rest, passVars
<1>2. CASE \/ \E r \in Requests : Refuse(r)
           \/ \E r \in Requests : Discover(r)
           \/ \E r \in Requests : StartClear(r)
           \/ \E r \in Requests : Withdraw(r)
           \/ \E r \in Requests : ClearSessions(r)
           \/ \E r \in Requests : Bind(r)
           \/ \E r \in Requests : GiveUp(r)
           \/ \E r \in Requests : Delivered(r)
  BY <1>2, <1>0 DEF Refuse, Discover, StartClear, Withdraw, ClearSessions, Bind, GiveUp,
     Delivered, Rest, passVars
<1>3. CASE \/ \E r \in Requests : Reply(r)
           \/ \E r \in Requests : Settle(r)
           \/ \E r \in Requests : BarrierError(r)
           \/ \E r \in Requests : Ask(r)
           \/ \E r \in Requests, op \in Ops : Look(r, op)
           \/ \E s \in navs : HandleNavigation(s)
           \/ \E m \in net : HandleRestore(m)
           \/ ReconStart
           \/ ReconRemove
  BY <1>3, <1>0 DEF Reply, Settle, BarrierError, Ask, Look, HandleNavigation, HandleRestore,
     ReconStart, ReconRemove, Rest, passVars
<1>4. CASE \/ ReconLeave
           \/ ReconClear
           \/ ReconGiveUp
           \/ ReconBind
           \/ ReconFinalize
           \/ ReconEnd
           \/ \E op \in recon.todo : ReconTake(op)
           \/ Reschedule
  BY <1>4, <1>0 DEF ReconLeave, ReconClear, ReconGiveUp, ReconBind, ReconFinalize,
     ReconEnd, ReconTake, Reschedule, Rest, passVars
<1>5. CASE \/ AlarmFires
           \/ LoadBarriers
           \/ \E op \in Ops : Finalize(op)
           \/ \E op \in Ops : Forget(op)
           \/ \E m \in net : LoseMessage(m)
           \/ \E r \in Requests : RequestError(r)
  BY <1>5, <1>0 DEF AlarmFires, LoadBarriers, Finalize, Forget, LoseMessage,
     RequestError, Rest, passVars
<1>6. CASE \/ \E ref \in Due : Deliver(ref)
           \/ \E ref \in sends : Timeout(ref)
           \/ \E m \in net : Acknowledged(m)
           \/ \E m \in net : Disbelieved(m)
           \/ \E t \in tasks : \E op \in t.todo : TaskStep(t, op)
           \/ PassError
  <2>1. \/ UNCHANGED drain
        \/ \E ref : drain' = [drain EXCEPT !.batch = @ \ {ref}]
        \/ \E ref : drain' = [drain EXCEPT !.waiting = @ \ {ref}, !.batch = @ \ {ref}]
        \/ \E ref : drain' = [drain EXCEPT !.waiting = @ \ {ref}, !.batch = @ \ {ref},
                                           !.again = TRUE]
        \/ drain' = [drain EXCEPT !.again = FALSE]
    <3>1. CASE \E ref \in Due : Deliver(ref)
      BY <3>1 DEF Deliver, Answered
    <3>2. CASE \/ \E ref \in sends : Timeout(ref)
               \/ \E m \in net : Acknowledged(m)
               \/ \E m \in net : Disbelieved(m)
      BY <3>2 DEF Timeout, Acknowledged, Disbelieved, Answered
    <3>3. CASE \E t \in tasks : \E op \in t.todo : TaskStep(t, op)
      BY <3>3, TaskStepWaits DEF LetGo
    <3>4. CASE PassError
      BY <3>4 DEF PassError, Answered
    <3> QED  BY <1>6, <3>1, <3>2, <3>3, <3>4
  <2> QED  BY <1>0, <2>1 DEF Drain
<1>7. CASE \/ \E t \in tasks : TaskEnd(t)
           \/ ReconDrain
           \/ DrainEnd
           \/ WorkerDies
  <2>1. \/ UNCHANGED drain
        \/ drain' = [drain EXCEPT !.again = TRUE]
        \/ drain' = [drain EXCEPT !.busy = FALSE]
        \/ drain' = IdleDrain
    BY <1>7 DEF TaskEnd, ReconDrain, DrainEnd, WorkerDies
  <2>2. IdleDrain \in Drain
    BY DEF IdleDrain, Drain
  <2> QED  BY <1>0, <2>1, <2>2 DEF Drain
<1>8. CASE DrainStart
  <2> PICK open : open = UNION {OpenRefs(op) : op \in {x \in DOMAIN journal : Bound(x)}}
    OBVIOUS
  <2>1. ASSUME NEW op \in DOMAIN journal, Bound(op)  PROVE OpenRefs(op) \subseteq Ref
    <3>1. op \in Ops
      BY DEF IInv, Typed, JournalTypeOK
    <3> QED  BY <2>1, <3>1, TargetTyped
             DEF IInv, OpenRefs, RefOf, OpenSubjects, Ref, Target, Bound, Unbound
  <2>2. open \subseteq Ref
    BY <2>1
  <2>3. drain' = [busy |-> TRUE, again |-> FALSE, batch |-> open, waiting |-> open]
    BY <1>8 DEF DrainStart
  <2> QED  BY <2>2, <2>3 DEF Drain
<1> QED  BY <1>1, <1>2, <1>3, <1>4, <1>5, <1>6, <1>7, <1>8 DEF Step

Fin == [pc : {"idle", "asked", "half"}, att : Attempt]

LEMMA FinTyped ==
  ASSUME IInv, Step
  PROVE  fin' \in [Ops -> Fin]
<1>0. fin \in [Ops -> Fin] /\ None \in Attempt
  BY DEF IInv, Typed, WorkerTyped, Fin, Attempt
<1>1. CASE \/ \E f \in Frames : Capture(f)
           \/ \E f \in Frames : CloseFrame(f)
           \/ \E f \in Frames, p \in Paths : ChangeRoute(f, p)
           \/ \E f \in Frames, p \in Paths, o \in Origins : Navigate(f, o, p)
           \/ ClearAll
           \/ \E m \in net : ShowMarkers(m)
           \/ \E m \in net : TakeDown(m)
           \/ \E r \in Requests : Resume(r)
  BY <1>1, <1>0 DEF Capture, CloseFrame, ChangeRoute, Navigate, ClearAll, ShowMarkers,
     TakeDown, Resume, Rest, passVars
<1>2. CASE \/ \E r \in Requests : Refuse(r)
           \/ \E r \in Requests : Discover(r)
           \/ \E r \in Requests : StartClear(r)
           \/ \E r \in Requests : Withdraw(r)
           \/ \E r \in Requests : ClearSessions(r)
           \/ \E r \in Requests : Bind(r)
           \/ \E r \in Requests : GiveUp(r)
           \/ \E r \in Requests : Reply(r)
  BY <1>2, <1>0 DEF Refuse, Discover, StartClear, Withdraw, ClearSessions, Bind, GiveUp,
     Reply, Rest, passVars
<1>3. CASE \/ \E r \in Requests : Settle(r)
           \/ \E r \in Requests : BarrierError(r)
           \/ \E r \in Requests : Ask(r)
           \/ \E r \in Requests, op \in Ops : Look(r, op)
           \/ \E ref \in Due : Deliver(ref)
           \/ \E ref \in sends : Timeout(ref)
           \/ \E m \in net : Disbelieved(m)
           \/ \E s \in navs : HandleNavigation(s)
           \/ \E m \in net : HandleRestore(m)
  BY <1>3, <1>0 DEF Settle, BarrierError, Ask, Look, Deliver, Timeout, Disbelieved,
     HandleNavigation, HandleRestore, Rest, passVars
<1>4. CASE \/ \E t \in tasks : TaskEnd(t)
           \/ ReconStart
           \/ ReconRemove
           \/ ReconLeave
           \/ ReconClear
           \/ ReconGiveUp
           \/ ReconBind
           \/ ReconDrain
  BY <1>4, <1>0 DEF TaskEnd, ReconStart, ReconRemove, ReconLeave, ReconClear,
     ReconGiveUp, ReconBind, ReconDrain, Rest, passVars
<1>5. CASE \/ ReconEnd
           \/ \E op \in recon.todo : ReconTake(op)
           \/ DrainStart
           \/ DrainEnd
           \/ Reschedule
           \/ AlarmFires
           \/ LoadBarriers
           \/ \E m \in net : LoseMessage(m)
  BY <1>5, <1>0 DEF ReconEnd, ReconTake, DrainStart, DrainEnd, Reschedule, AlarmFires,
     LoadBarriers, LoseMessage, Rest, passVars
<1>6. CASE \E r \in Requests : RequestError(r)
  BY <1>6, <1>0 DEF RequestError, Rest, passVars
<1>7. CASE \/ \E r \in Requests : Delivered(r)
           \/ \E m \in net : Acknowledged(m)
           \/ \E t \in tasks : \E op \in t.todo : TaskStep(t, op)
           \/ ReconFinalize
           \/ \E op \in Ops : Forget(op)
           \/ PassError
           \/ WorkerDies
  <2> PICK a : a = [pc |-> "asked", att |-> None]  OBVIOUS
  <2>1. a \in Fin /\ NoFin \in Fin
    BY <1>0 DEF Fin, NoFin
  <2>2. \/ UNCHANGED fin
        \/ \E op : \E x \in {a, NoFin} : fin' = [fin EXCEPT ![op] = x]
        \/ \E ops : AskFin(ops)
        \/ fin' = [op \in Ops |-> NoFin]
    <3>1. CASE \/ \E t \in tasks : \E op \in t.todo : TaskStep(t, op)
               \/ ReconFinalize
               \/ \E op \in Ops : Forget(op)
               \/ PassError
               \/ WorkerDies
      BY <3>1 DEF TaskStep, ReconFinalize, Forget, PassError, WorkerDies
    <3>2. CASE \E r \in Requests : Delivered(r)
      <4> PICK r \in Requests : Delivered(r)
        BY <3>2
      <4> PICK op : op = req[r].op  OBVIOUS
      <4>1. UNCHANGED fin \/ fin' = [fin EXCEPT ![op] = IF @.pc = "idle" THEN a ELSE @]
        BY DEF Delivered
      <4>2. [fin EXCEPT ![op] = fin[op]] = fin
        BY <1>0
      <4> QED  BY <4>1, <4>2
    <3>3. CASE \E m \in net : Acknowledged(m)
      <4> PICK m \in net : Acknowledged(m)
        BY <3>3
      <4> PICK op : op = m.ref.op  OBVIOUS
      <4>1. \/ fin' = [fin EXCEPT ![op] = a]
            \/ fin' = [fin EXCEPT ![op] = fin[op]]
        BY DEF Acknowledged
      <4>2. [fin EXCEPT ![op] = fin[op]] = fin
        BY <1>0
      <4> QED  BY <4>1, <4>2
    <3> QED  BY <1>7, <3>1, <3>2, <3>3
  <2>3. ASSUME NEW ops, AskFin(ops)  PROVE fin' \in [Ops -> Fin]
    BY <1>0, <2>1, <2>3 DEF AskFin
  <2>4. ASSUME NEW op, NEW x \in {a, NoFin}, fin' = [fin EXCEPT ![op] = x]
        PROVE  fin' \in [Ops -> Fin]
    BY <1>0, <2>1, <2>4
  <2> QED  BY <1>0, <2>1, <2>2, <2>3, <2>4
<1>8. CASE \E op \in Ops : Finalize(op)
  <2> PICK op \in Ops : Finalize(op)
    BY <1>8
  <2> PICK h : h = [pc |-> "half", att |-> barrier[op]]  OBVIOUS
  <2>1. h \in Fin /\ NoFin \in Fin
    BY <1>0 DEF Fin, NoFin, IInv, Typed, WorkerTyped
  <2>2. fin' = [fin EXCEPT ![op] = h] \/ fin' = [fin EXCEPT ![op] = NoFin]
    BY DEF Finalize
  <2> QED  BY <1>0, <2>1, <2>2
<1> QED  BY <1>1, <1>2, <1>3, <1>4, <1>5, <1>6, <1>7, <1>8 DEF Step

LEMMA WorkerStep ==
  ASSUME IInv, Step
  PROVE  WorkerTyped'
<1>1. alarm' \in BOOLEAN /\ loaded' \in BOOLEAN /\ reread' \in BOOLEAN
  BY AlarmTyped
<1>2. barrier' \in [Ops -> Attempt]
  BY BarrierTyped
<1>3. TasksTyped'
  BY TasksStep
<1>4. sends' \subseteq Ref
  BY SendsStep
<1>5. recon' \in Recon
  BY ReconTyped
<1>6. drain' \in Drain
  BY DrainTyped
<1>7. fin' \in [Ops -> Fin]
  BY FinTyped
<1> QED  BY <1>1, <1>2, <1>3, <1>4, <1>5, <1>6, <1>7
         DEF WorkerTyped, TasksTyped, Recon, Drain, Fin

-----------------------------------------------------------------------------
(* The steps of the clear are steps of the journal.                        *)

LEMMA PrepareIsNext ==
  ASSUME NEW op \in Ops, NEW e \in Subject, NEW b, NEW su \in SUBSET Subject,
         Partial(b, Origins, Nat), Prepare(op, e, b, su)
  PROVE  JournalNext
<1>1. PICK D \in SUBSET Origins : b \in [D -> Nat]
  BY DEF Partial
<1>2. \E endpoint \in Subject, subjects \in SUBSET Subject, E \in SUBSET Origins :
        \E before \in [E -> Nat] : Prepare(op, endpoint, before, subjects)
  BY <1>1
<1> QED  BY <1>2 DEF JournalNext

LEMMA CommitIsNext ==
  ASSUME NEW op \in Ops, NEW g \in Nat, NEW af, Partial(af, Origins, Nat),
         CommitOrigins(op, g, af)
  PROVE  JournalNext
<1>1. PICK D \in SUBSET Origins : af \in [D -> Nat]
  BY DEF Partial
<1>2. \E gen \in Nat : \E E \in SUBSET Origins : \E after \in [E -> Nat] :
        CommitOrigins(op, gen, after)
  BY <1>1
<1> QED  BY <1>2 DEF JournalNext

LEMMA TargetIsNext ==
  ASSUME NEW op \in Ops, NEW g \in Nat, NEW s \in Subject, NEW v \in Nat \ {0},
         \/ MarkDelivered(op, g, s, v) \/ Acknowledge(op, g, s, v) \/ Supersede(op, g, s, v)
         \/ \E next \in Subject : ReplaceTarget(op, g, s, v, next)
  PROVE  JournalNext
<1>1. \E gen \in Nat : \E x \in Subject, rev \in Nat \ {0} :
        \/ MarkDelivered(op, gen, x, rev) \/ Acknowledge(op, gen, x, rev)
        \/ Supersede(op, gen, x, rev)
        \/ \E next \in Subject : ReplaceTarget(op, gen, x, rev, next)
  OBVIOUS
<1> QED  BY <1>1 DEF JournalNext

LEMMA RemoveIsNext ==
  ASSUME JournalTypeOK, NEW op \in Ops, NEW g, RemoveOperation(op, g)
  PROVE  JournalNext
<1>1. g \in Nat
  BY DEF RemoveOperation, Present, JournalTypeOK, Operation
<1> QED  BY <1>1 DEF JournalNext

\* Its arguments are those of a target that is there.
LEMMA ExactTyped ==
  ASSUME JournalOK, NEW op, NEW g, NEW s, NEW v, Exact(op, g, s, v)
  PROVE  op \in Ops /\ g \in Nat /\ s \in Subject /\ v \in Nat \ {0}
<1>1. /\ op \in DOMAIN journal /\ s \in DOMAIN journal[op].targets
      /\ g = journal[op].gen /\ v = journal[op].targets[s].rev
  BY DEF Exact, Present
<1>2. s \in Subject /\ journal[op].targets[s] \in Target /\ journal[op].gen \in Nat
  BY <1>1, TargetTyped
<1> QED  BY <1>1, <1>2 DEF JournalOK, JournalTypeOK, Target

LEMMA StepIsJournalNext ==
  ASSUME IInv, Step
  PROVE  [JournalNext]_journal
<1>0. JournalOK /\ JournalTypeOK /\ RequestTyped /\ PageTyped
  BY DEF IInv, JournalOK, Typed
<1>1. CASE \/ \E f \in Frames : Capture(f)
           \/ \E f \in Frames : CloseFrame(f)
           \/ \E f \in Frames, p \in Paths : ChangeRoute(f, p)
           \/ \E f \in Frames, p \in Paths, o \in Origins : Navigate(f, o, p)
           \/ ClearAll
           \/ \E m \in net : ShowMarkers(m)
           \/ \E m \in net : TakeDown(m)
           \/ \E r \in Requests : Resume(r)
  BY <1>1, <1>0 DEF Capture, CloseFrame, ChangeRoute, Navigate, ClearAll, ShowMarkers,
     TakeDown, Resume, Rest, Fail
<1>2. CASE \/ \E r \in Requests : Refuse(r)
           \/ \E r \in Requests : Discover(r)
           \/ \E r \in Requests : ClearSessions(r)
           \/ \E r \in Requests : Delivered(r)
           \/ \E r \in Requests : Reply(r)
           \/ \E r \in Requests : Settle(r)
           \/ \E r \in Requests : BarrierError(r)
           \/ \E r \in Requests : Ask(r)
           \/ \E r \in Requests, op \in Ops : Look(r, op)
  BY <1>2, <1>0 DEF Refuse, Discover, ClearSessions, Delivered, Reply, Settle, BarrierError, Ask,
     Look, Rest, Fail
<1>3. CASE \/ \E ref \in sends : Timeout(ref)
           \/ \E m \in net : Disbelieved(m)
           \/ \E s \in navs : HandleNavigation(s)
           \/ \E m \in net : HandleRestore(m)
           \/ \E t \in tasks : TaskEnd(t)
           \/ ReconStart
           \/ ReconLeave
           \/ ReconClear
  BY <1>3, <1>0 DEF Timeout, Disbelieved, HandleNavigation, HandleRestore, TaskEnd,
     ReconStart, ReconLeave, ReconClear, Rest, Fail
<1>4. CASE \/ ReconGiveUp
           \/ ReconFinalize
           \/ ReconDrain
           \/ ReconEnd
           \/ \E op \in recon.todo : ReconTake(op)
           \/ DrainStart
           \/ DrainEnd
           \/ Reschedule
  BY <1>4, <1>0 DEF ReconGiveUp, ReconFinalize, ReconDrain, ReconEnd, ReconTake,
     DrainStart, DrainEnd, Reschedule, Rest, Fail
<1>5. CASE \/ AlarmFires
           \/ LoadBarriers
           \/ \E op \in Ops : Finalize(op)
           \/ PassError
           \/ WorkerDies
           \/ \E m \in net : LoseMessage(m)
           \/ \E r \in Requests : RequestError(r)
  BY <1>5, <1>0 DEF AlarmFires, LoadBarriers, Finalize, PassError, WorkerDies,
     LoseMessage, RequestError, Rest, Fail
<1>6. CASE \E r \in Requests : StartClear(r)
  <2> PICK r \in Requests : StartClear(r)
    BY <1>6
  <2> PICK q, e : q = req[r] /\ e = Top  OBVIOUS
  <2>1. q.pc = "found" /\ (UNCHANGED journal \/ Prepare(q.op, e, q.before, q.subs))
    BY DEF StartClear
  <2>2. Request(q) /\ e \in Subject
    BY <1>0, LiveIs, ConstantsOK DEF RequestTyped, Top
  <2>3. q.op \in Ops /\ q.subs \in SUBSET Subject /\ Partial(q.before, Origins, Nat)
    BY <2>1, <2>2 DEF Request
  <2> QED  BY <2>1, <2>2, <2>3, PrepareIsNext
<1>7. CASE \/ \E r \in Requests : Withdraw(r)
           \/ \E r \in Requests : GiveUp(r)
           \/ \E op \in Ops : Forget(op)
           \/ ReconRemove
  <2>1. \/ UNCHANGED journal
        \/ \E op, g : RemoveOperation(op, g)
    BY <1>7 DEF Withdraw, GiveUp, Forget, ReconRemove
  <2>2. ASSUME NEW op, NEW g, RemoveOperation(op, g)  PROVE op \in Ops
    BY <1>0, <2>2 DEF RemoveOperation, Present, JournalTypeOK
  <2> QED  BY <1>0, <2>1, <2>2, RemoveIsNext
<1>8. CASE (\E r \in Requests : Bind(r)) \/ ReconBind
  <2>1. \E op : Settled(op) /\ CommitOrigins(op, canon[op].gen, Committed(op))
    <3>1. CASE \E r \in Requests : Bind(r)
      <4> PICK r \in Requests : Bind(r)
        BY <3>1
      <4>1. req[r].pc = "cleared"
            /\ CommitOrigins(req[r].op, canon[req[r].op].gen, Committed(req[r].op))
        BY DEF Bind
      <4>2. Settled(req[r].op)
        BY <4>1 DEF IInv, RestOK, HolderOK
      <4> QED  BY <4>1, <4>2
    <3>2. CASE ReconBind
      BY <3>2 DEF ReconBind
    <3> QED  BY <1>8, <3>1, <3>2
  <2> PICK op : Settled(op) /\ CommitOrigins(op, canon[op].gen, Committed(op))
    BY <2>1
  <2> PICK g, af : g = canon[op].gen /\ af = Committed(op)  OBVIOUS
  <2>2. op \in Ops /\ op \in DOMAIN canon
    BY DEF Settled, InCanon, IInv, Typed, StoreTyped
  <2>3. /\ g \in Nat /\ Partial(canon[op].entry, Origins, Entry)
    BY <2>2 DEF IInv, Typed, StoreTyped, Canonical
  <2>4. Partial(af, Origins, Nat)
    <3> PICK en : en = canon[op].entry  OBVIOUS
    <3>1. /\ DOMAIN en \subseteq Origins
          /\ \A x \in DOMAIN en : en[x] \in Entry
      BY <2>3, PartialIs
    <3>2. /\ DOMAIN af \subseteq Origins /\ af = [x \in DOMAIN af |-> af[x]]
          /\ \A x \in DOMAIN af : af[x] \in Nat
      BY <3>1 DEF Committed, Entries, Entry
    <3> QED  BY <3>2, PartialIf
  <2>5. CommitOrigins(op, g, af)
    OBVIOUS
  <2> QED  BY <2>2, <2>3, <2>4, <2>5, CommitIsNext
<1>9. CASE \E ref \in Due : Deliver(ref)
  <2> PICK ref \in Due : Deliver(ref)
    BY <1>9
  <2> PICK op, g, s, v : op = ref.op /\ g = ref.gen /\ s = ref.sub /\ v = ref.rev
    OBVIOUS
  <2>1. UNCHANGED journal \/ MarkDelivered(op, g, s, v)
    BY DEF Deliver
  <2>2. MarkDelivered(op, g, s, v) => Exact(op, g, s, v)
    BY DEF MarkDelivered
  <2> QED  BY <1>0, <2>1, <2>2, ExactTyped, TargetIsNext
<1>10. CASE \E m \in net : Acknowledged(m)
  <2> PICK m \in net : Acknowledged(m)
    BY <1>10
  <2> PICK op, g, s, v : op = m.ref.op /\ g = m.ref.gen /\ s = m.sub /\ v = m.ref.rev
    OBVIOUS
  <2>1. UNCHANGED journal \/ Acknowledge(op, g, s, v)
    BY DEF Acknowledged
  <2>2. Acknowledge(op, g, s, v) => Exact(op, g, s, v)
    BY DEF Acknowledge
  <2> QED  BY <1>0, <2>1, <2>2, ExactTyped, TargetIsNext
<1>11. CASE \E t \in tasks : \E op \in t.todo : TaskStep(t, op)
  <2> PICK t \in tasks : \E op \in t.todo : TaskStep(t, op)
    BY <1>11
  <2> PICK op \in t.todo : TaskStep(t, op)
    OBVIOUS
  <2>1. t.sub \in Subject
    BY DEF IInv, Typed, WorkerTyped
  <2>2. \/ UNCHANGED journal
        \/ \E x : \/ ReplaceTarget(op, RefOf(op, x).gen, x, RefOf(op, x).rev, t.sub)
                  \/ Supersede(op, RefOf(op, x).gen, x, RefOf(op, x).rev)
    BY DEF TaskStep
  <2>3. ASSUME NEW x, NEW g, NEW v,
               ReplaceTarget(op, g, x, v, t.sub) \/ Supersede(op, g, x, v)
        PROVE  JournalNext
    <3>1. Exact(op, g, x, v)
      BY <2>3 DEF ReplaceTarget, Supersede
    <3> QED  BY <1>0, <2>1, <2>3, <3>1, ExactTyped, TargetIsNext
  <2> QED  BY <2>2, <2>3
<1> QED  BY <1>1, <1>2, <1>3, <1>4, <1>5, <1>6, <1>7, <1>8, <1>9, <1>10, <1>11 DEF Step

-----------------------------------------------------------------------------
(* The invariant.                                                          *)

LEMMA InitInv == Init => IInv
<1> SUFFICES ASSUME Init  PROVE IInv
  OBVIOUS
<1>1. PICK p \in Paths : live = [f \in Frames |-> [frame |-> f, doc |-> 0,
                                                  origin |-> HomeOf[f], path |-> p]]
  BY DEF Init
<1>2. JournalOK /\ DOMAIN journal = {}
  <2>1. DOMAIN journal = {} /\ journal = [op \in DOMAIN journal |-> journal[op]]
    BY DEF Init, JournalInit
  <2>2. JournalTypeOK
    BY <2>1 DEF JournalTypeOK
  <2>3. JournalFinite /\ Cardinality(DOMAIN journal) = 0
    BY <2>1, FS_EmptySet DEF JournalFinite
  <2>4. JournalReadable
    BY <2>1, <2>3, JournalConstantsOK DEF JournalReadable
  <2> QED  BY <2>1, <2>2, <2>3, <2>4 DEF JournalOK
<1>3. PageTyped
  <2>1. 0 \in Documents /\ 0 \in 0 .. MaxMoves
    BY ConstantsOK
  <2>2. /\ live \in [Frames -> Subject] /\ \A f \in Frames : live[f].doc <= moves
        /\ \A f \in Frames : live[f].frame = f /\ live[f].origin \in Origins
                             /\ live[f].path \in Paths
    BY <1>1, <2>1, ConstantsOK DEF Init, Subject
  <2>3. marks \in [Frames -> Nat] /\ net = {} /\ navs = {} /\ closed = {} /\ moves = 0
    BY DEF Init
  <2> QED  BY <2>1, <2>2, <2>3 DEF PageTyped
<1>4. StoreTyped
  <2>1. saved \subseteq Frames \X Origins \X Paths
    BY <1>3, LiveIs DEF Init, PlaceOf
  <2> QED  BY <2>1 DEF Init, StoreTyped, Nothing
<1>5. RequestTyped /\ \A r \in Requests : req[r].pc = "new"
  <2>1. Partial(Nothing, Origins, Nat)
    BY PartialIf DEF Nothing
  <2>2. Request(NewReq)
    BY <2>1 DEF NewReq, Request, Places
  <2>3. req = [r \in Requests |-> NewReq] /\ NewReq.pc = "new"
    BY DEF Init, NewReq
  <2> QED  BY <2>2, <2>3 DEF RequestTyped
<1>6. WorkerTyped
  <2>1. None \in Attempt
    BY DEF Attempt
  <2>2. recon \in Recon /\ drain \in Drain /\ fin \in [Ops -> Fin]
    BY <2>1 DEF Init, IdleRecon, IdleDrain, NoFin, Recon, Drain, Fin
  <2>3. /\ barrier \in [Ops -> Attempt] /\ tasks = {} /\ sends = {}
        /\ alarm \in BOOLEAN /\ loaded \in BOOLEAN /\ reread \in BOOLEAN
    BY <2>1 DEF Init
  <2> QED  BY <2>2, <2>3 DEF WorkerTyped, Recon, Drain, Fin
<1>7. LeaseOK /\ HolderOK
  <2>1. \A op \in Ops : fin[op].pc = "idle"
    BY DEF Init, NoFin
  <2> QED  BY <1>5, <2>1 DEF LeaseOK, HolderOK, Holding
<1>8. CanonOK /\ SnapshotConsistent
  <2>1. DOMAIN canon = {}
    BY DEF Init, Nothing
  <2>2. \A op \in Ops : Owned(op) = {}
    BY <1>2, <2>1 DEF Owned, InCanon, Present
  <2> QED  BY <1>2, <2>1, <2>2 DEF CanonOK, SnapshotConsistent
<1> QED  BY <1>2, <1>3, <1>4, <1>5, <1>6, <1>7, <1>8
         DEF IInv, Typed, JournalOK, RestOK

LEMMA InvariantStep == IInv /\ [Next]_vars => IInv'
<1> SUFFICES ASSUME IInv, [Next]_vars  PROVE IInv'
  OBVIOUS
<1>1. JournalOK' /\ RestOK'
  BY StepKeeps
<1>2. CASE Next
  <2>1. Step
    BY <1>2, NextIsStep
  <2>2. StoreTyped' /\ PageTyped' /\ RequestTyped' /\ WorkerTyped'
    BY <2>1, StoreStep, PageStep, RequestStepTyped, WorkerStep
  <2> QED  BY <1>1, <2>2 DEF IInv, Typed, JournalOK
<1>3. CASE UNCHANGED vars
  <2>1. StoreTyped' /\ PageTyped' /\ RequestTyped' /\ WorkerTyped'
    BY <1>3 DEF vars, storeVars, pageVars, passVars, IInv, Typed, StoreTyped, PageTyped,
                RequestTyped, WorkerTyped, Canonical, Request
  <2> QED  BY <1>1, <2>1 DEF IInv, Typed, JournalOK
<1> QED  BY <1>2, <1>3

\* What a request, the pass or a finalisation relies on while it holds an operation's
\* lease is so, whoever else runs; journal and store keep their types and agree.
THEOREM ClearInvariant == Spec => []IInv
BY InitInv, InvariantStep, PTL DEF Spec

\* What the worker writes to its journal and to the store can be read back, whatever
\* step it died at (parseClearProjectionJournal refuses a journal that breaks a rule,
\* and nothing repairs a refused one).
THEOREM StoresCanBeRead == Spec => []StoresReadable
<1>1. IInv => StoresReadable
  <2> SUFFICES ASSUME IInv  PROVE StoresReadable
    OBVIOUS
  <2>1. JournalTypeOK /\ JournalReadable
    BY DEF IInv, JournalOK
  <2>2. /\ epoch \in [Origins -> Nat] /\ made \in [Origins -> Nat] /\ gens \in Nat
        /\ DOMAIN canon \in SUBSET Ops
        /\ \A op \in DOMAIN canon : /\ canon[op].gen \in Nat \ {0}
                                    /\ Partial(canon[op].entry, Origins, Entry)
        /\ last \in [Origins -> Ops \cup {None}]
        /\ saved \subseteq Frames \X Origins \X Paths
    BY DEF IInv, Typed, StoreTyped, Canonical
  <2>3. /\ live \in [Frames -> Subject] /\ closed \subseteq Frames
        /\ marks \in [Frames -> Nat]
    BY DEF IInv, Typed, PageTyped
  <2>4. \A r \in Requests :
          /\ req[r].pc \in Running \cup {"new", "looked", "asked", "settle", "gone", "done"}
          /\ req[r].op \in Ops \cup {None}
          /\ req[r].unsent \subseteq Ref
          /\ req[r].waiting \subseteq Ref
    BY DEF IInv, Typed, RequestTyped, Request, Places
  <2>5. /\ alarm \in BOOLEAN /\ loaded \in BOOLEAN /\ reread \in BOOLEAN
        /\ barrier \in [Ops -> Requests \cup {None, Boot}]
        /\ sends \subseteq Ref
        /\ recon.todo \subseteq Ops /\ recon.held \in Ops \cup {None}
        /\ drain.batch \subseteq Ref /\ drain.waiting \subseteq Ref
        /\ \A op \in Ops : fin[op].pc \in {"idle", "asked", "half"}
    BY DEF IInv, Typed, WorkerTyped, Attempt
  <2> QED  BY <2>1, <2>2, <2>3, <2>4, <2>5 DEF StoresReadable, TypeOK
<1> QED  BY <1>1, ClearInvariant, PTL

\* The journal and the store's clear authority never contradict each other, so the
\* snapshot that every clear and readback needs can always be combined, after any
\* retry, crash or storage error (combineAuthoritativeClearSnapshot).
THEOREM StoresAgree == Spec => []SnapshotConsistent
<1>1. IInv => SnapshotConsistent
  BY DEF IInv, RestOK
<1> QED  BY <1>1, ClearInvariant, PTL

\* One at a time: two requests never run under the lease of the same operation, nor a
\* request and the pass, nor either and a finalisation (withClearProjectionOperationLease).
THEOREM LeaseIsExclusive == Spec => []LeaseOK
<1>1. IInv => LeaseOK
  BY DEF IInv, RestOK
<1> QED  BY <1>1, ClearInvariant, PTL

\* No step drops a document that still has to take its markers down, whatever else
\* happens to the operation (clear-projection-store).
THEOREM NoWorkLost == Spec => WorkKept
<1>1. IInv /\ [Next]_vars => WorkStep
  BY StepKeeps
<1>2. IInv /\ [Next]_vars =>
        [\A op \in DOMAIN journal : Bound(op) =>
           \A s \in OpenSubjects(op) :
             /\ op \in DOMAIN journal'
             /\ \/ /\ s \in DOMAIN journal'[op].targets
                   /\ journal'[op].targets[s].state = "acknowledged" =>
                        journal[op].targets[s].state = "delivered"
                \/ \E n \in DOMAIN journal'[op].targets :
                     /\ n.frame = s.frame /\ n.origin = s.origin
                     /\ journal'[op].targets[n].state = "pending"
                     /\ journal'[op].targets[n].rev > journal[op].targets[s].rev]_journal
  BY <1>1 DEF WorkStep
<1> QED  BY <1>2, ClearInvariant, PTL DEF Spec, WorkKept

\* The worker changes the journal by the journal's own operations alone, each within
\* its preconditions: the coordinator implements ClearJournal.
THEOREM UsesJournal == Spec => JournalSpec
<1>1. Init => JournalInit
  BY DEF Init
<1>2. IInv /\ [Next]_vars => [JournalNext]_journal
  <2>1. IInv /\ Next => [JournalNext]_journal
    BY NextIsStep, StepIsJournalNext
  <2>2. UNCHANGED vars => UNCHANGED journal
    BY DEF vars
  <2> QED  BY <2>1, <2>2
<1> QED  BY <1>1, <1>2, ClearInvariant, PTL DEF Spec, JournalSpec
=============================================================================
