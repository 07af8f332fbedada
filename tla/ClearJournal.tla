---------------------------- MODULE ClearJournal ----------------------------
(***************************************************************************)
(* The clear projection journal of the extension (clear-projection-store): *)
(* which documents still have to take their markers down after a clear,    *)
(* kept in storage so that it survives the worker.  Every operation reads  *)
(* the whole journal, changes it and writes it back under one lock, so     *)
(* each is one action, and a refused one changes nothing.                  *)
(*                                                                         *)
(* A target is named by its subject (tab, frame, document, origin, path);  *)
(* `rev' stands for its projection id and revision.  Delivery attempts are *)
(* not counted: a delivery is taken to be due whenever it is unanswered.   *)
(***************************************************************************)
EXTENDS Naturals, FiniteSets

CONSTANTS
  Ops,          \* ids of clear operations
  Origins,      \* web origins
  Frames,       \* frames of the tab that is cleared
  Documents,    \* documents a frame may show, one after the other
  Paths,        \* path names
  MaxActive,    \* CLEAR_PROJECTION_MAX_ACTIVE_OPERATIONS, 16
  MaxSubjects   \* CLEAR_PROJECTION_MAX_SUBJECTS, 128

ASSUME JournalConstantsOK ==
  /\ MaxActive \in Nat
  /\ MaxSubjects \in Nat

VARIABLE journal    \* operation id -> operation, for the ids in the journal

Subject == [frame : Frames, doc : Documents, origin : Origins, path : Paths]
Target  == [rev : Nat \ {0},
            state : {"pending", "delivered", "acknowledged", "superseded"}]
Unbound == 0        \* the authority of an operation that has none yet

\* f is a function from some of the elements of D into R.
Partial(f, D, R) == \E S \in SUBSET D : f \in [S -> R]

Operation(j) ==
  /\ j = [gen |-> j.gen, endpoint |-> j.endpoint, before |-> j.before,
          after |-> j.after, targets |-> j.targets]
  /\ j.gen \in Nat                         \* authority generation
  /\ j.endpoint \in Subject                \* page that asked
  /\ Partial(j.before, Origins, Nat)       \* requestedOrigins
  /\ Partial(j.after, Origins, Nat)        \* origins committed
  /\ Partial(j.targets, Subject, Target)

JournalTypeOK ==
  /\ DOMAIN journal \in SUBSET Ops
  /\ journal = [op \in DOMAIN journal |-> journal[op]]
  /\ \A op \in DOMAIN journal : Operation(journal[op])

JournalInit == journal = [op \in {} |-> {}]

Present(op)  == op \in DOMAIN journal
Bound(op)    == Present(op) /\ journal[op].gen # Unbound
IsOpen(t)    == t.state \in {"pending", "delivered"}
OpenSubjects(op) == {s \in DOMAIN journal[op].targets :
                       IsOpen(journal[op].targets[s])}
AllTerminal(op)  == OpenSubjects(op) = {}

\* findExactTarget: the authority, the subject and the revision all match.
Exact(op, gen, s, rev) ==
  /\ Present(op)
  /\ journal[op].gen = gen
  /\ s \in DOMAIN journal[op].targets
  /\ journal[op].targets[s].rev = rev

SetTarget(op, s, t) ==
  journal' = [journal EXCEPT ![op].targets =
                [x \in DOMAIN @ |-> IF x = s THEN t ELSE @[x]]]

Without(op) == [x \in DOMAIN journal \ {op} |-> journal[x]]

-----------------------------------------------------------------------------
\* prepare: a new operation, before anything is cleared, with its targets.
Prepare(op, endpoint, before, subjects) ==
  /\ ~Present(op)
  /\ Cardinality(DOMAIN journal) < MaxActive
  /\ \A x \in DOMAIN journal : DOMAIN journal[x].before \cap DOMAIN before = {}
  /\ Cardinality(subjects) <= MaxSubjects
  /\ endpoint.origin \in DOMAIN before
  /\ \A s \in subjects : s.origin \in DOMAIN before
  /\ LET new == [gen |-> Unbound, endpoint |-> endpoint, before |-> before,
                 after |-> [o \in {} |-> 0],
                 targets |-> [s \in subjects |-> [rev |-> 1, state |-> "pending"]]]
     IN journal' = [x \in DOMAIN journal \cup {op} |->
                      IF x = op THEN new ELSE journal[x]]

\* MUTANTS of CommitOrigins: with the epochs from before the clear; without the
\* authority.
CommitOldEpochs(op, gen, after) ==
  /\ Present(op)
  /\ journal[op].gen = Unbound
  /\ \A x \in DOMAIN journal : journal[x].gen # gen
  /\ journal' = [journal EXCEPT ![op].gen = gen,
                                ![op].after = [o \in DOMAIN after |-> journal[op].before[o]]]
CommitNoAuthority(op, gen, after) ==
  /\ Present(op)
  /\ journal[op].gen = Unbound
  /\ journal' = [journal EXCEPT ![op].after = after]

\* commitOrigins: binds the authority of the canonical clear; the targets of
\* origins that were not cleared are given up.
CommitOrigins(op, gen, after) ==
  /\ Present(op)
  /\ journal[op].gen = Unbound
  /\ gen # Unbound
  /\ \A x \in DOMAIN journal : journal[x].gen # gen
  /\ DOMAIN after # {}
  /\ DOMAIN after \subseteq DOMAIN journal[op].before
  /\ journal' = [journal EXCEPT
       ![op].gen = gen,
       ![op].after = after,
       ![op].targets = [s \in {x \in DOMAIN @ : x.origin \in DOMAIN after} |-> @[s]]]

\* markDelivered: written before the page is told.
MarkDelivered(op, gen, s, rev) ==
  /\ gen # Unbound
  /\ Exact(op, gen, s, rev)
  /\ IsOpen(journal[op].targets[s])
  /\ SetTarget(op, s, [rev |-> rev, state |-> "delivered"])

\* acknowledge: the page of the target shows no markers.
Acknowledge(op, gen, s, rev) ==
  /\ gen # Unbound
  /\ Exact(op, gen, s, rev)
  /\ journal[op].targets[s].state = "delivered"
  /\ SetTarget(op, s, [rev |-> rev, state |-> "acknowledged"])

\* supersede: the document of the target is gone for good.
Supersede(op, gen, s, rev) ==
  /\ gen # Unbound
  /\ Exact(op, gen, s, rev)
  /\ journal[op].targets[s].state # "acknowledged"
  /\ SetTarget(op, s, [rev |-> rev, state |-> "superseded"])

\* MUTANT of ReplaceTarget: the revision stays, so that an answer of the old document
\* would count for the new one.
ReplaceSameRevision(op, gen, s, rev, next) ==
  /\ gen # Unbound
  /\ Exact(op, gen, s, rev)
  /\ next \notin DOMAIN journal[op].targets
  /\ journal' = [journal EXCEPT ![op].targets =
       [x \in (DOMAIN @ \ {s}) \cup {next} |->
          IF x = next THEN [rev |-> rev, state |-> "pending"] ELSE @[x]]]

\* replaceTarget: the next document of the frame takes the target over.
ReplaceTarget(op, gen, s, rev, next) ==
  /\ gen # Unbound
  /\ Exact(op, gen, s, rev)
  /\ journal[op].targets[s].state # "acknowledged"
  /\ next.frame = s.frame /\ next.origin = s.origin
  /\ next.origin \in DOMAIN journal[op].after
  /\ next \notin DOMAIN journal[op].targets
  /\ journal' = [journal EXCEPT ![op].targets =
       [x \in (DOMAIN @ \ {s}) \cup {next} |->
          IF x = next THEN [rev |-> rev + 1, state |-> "pending"] ELSE @[x]]]

\* removeOperation: by its authority once all its work is done, or by its id
\* alone while it is not bound; removeExactUnboundOperation is the latter.
RemoveOperation(op, gen) ==
  /\ Present(op)
  /\ journal[op].gen = gen
  /\ gen # Unbound => AllTerminal(op)
  /\ journal' = Without(op)

JournalNext ==
  \E op \in Ops :
    \/ \E endpoint \in Subject, subjects \in SUBSET Subject, D \in SUBSET Origins :
         \E before \in [D -> Nat] : Prepare(op, endpoint, before, subjects)
    \/ \E gen \in Nat :
         \/ \E D \in SUBSET Origins : \E after \in [D -> Nat] :
              CommitOrigins(op, gen, after)
         \/ \E s \in Subject, rev \in Nat \ {0} :
              \/ MarkDelivered(op, gen, s, rev)
              \/ Acknowledge(op, gen, s, rev)
              \/ Supersede(op, gen, s, rev)
              \/ \E next \in Subject : ReplaceTarget(op, gen, s, rev, next)
         \/ RemoveOperation(op, gen)

JournalSpec == JournalInit /\ [][JournalNext]_journal

-----------------------------------------------------------------------------
\* What is stored can be read back: parseClearProjectionJournal refuses a
\* journal that breaks any of these, and nothing repairs a refused journal, so
\* one bad write would end every later clear.
JournalReadable ==
  /\ Cardinality(DOMAIN journal) <= MaxActive
  /\ \A op \in DOMAIN journal :
       LET j == journal[op] IN
       /\ j.endpoint.origin \in DOMAIN j.before
       /\ DOMAIN j.after \subseteq DOMAIN j.before
       /\ (j.gen = Unbound) <=> (DOMAIN j.after = {})
       /\ \A s \in DOMAIN j.targets :
            s.origin \in (IF j.gen = Unbound THEN DOMAIN j.before ELSE DOMAIN j.after)
       /\ Cardinality(DOMAIN j.targets) <= MaxSubjects
  /\ \A x, y \in DOMAIN journal :
       (x # y /\ journal[x].gen = journal[y].gen) => journal[x].gen = Unbound

\* Work is never lost: once a clear is bound, a document that still has to take
\* its markers down stays in the journal until it has (after it was told), until
\* its frame has gone on to a document that is known to be another origin's
\* (superseded), or until the frame's next document has it to do instead.
WorkKept ==
  [][\A op \in DOMAIN journal : Bound(op) =>
       \A s \in OpenSubjects(op) :
         /\ op \in DOMAIN journal'
         /\ \/ /\ s \in DOMAIN journal'[op].targets
               /\ journal'[op].targets[s].state = "acknowledged" =>
                    journal[op].targets[s].state = "delivered"
            \/ \E n \in DOMAIN journal'[op].targets :
                 /\ n.frame = s.frame /\ n.origin = s.origin
                 /\ journal'[op].targets[n].state = "pending"
                 /\ journal'[op].targets[n].rev > journal[op].targets[s].rev
    ]_journal
=============================================================================
