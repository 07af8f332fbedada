----------------------------- MODULE ProfileLock -----------------------------
(***************************************************************************)
(* The lock file that serializes the commands which change the bridge      *)
(* profile (bridge-cli.ts, acquireMeanThisBridgeProfileLock).  A lock left *)
(* by a process that has died is taken over under a second lock file, the  *)
(* reclaim guard, which may itself have been left by a dead process.       *)
(*                                                                         *)
(* Every file operation is a step.  The identity of a file (inode, size    *)
(* and times) is the nonce of its record and whether the record has been   *)
(* written.  A record names its process and the instance of it, so whether *)
(* its process still runs is a flag of the file; the pid of a dead process *)
(* being in use again by one that cannot be examined is left out.  A live  *)
(* process writes its record within the five minutes after which a file    *)
(* without one counts as abandoned.                                        *)
(***************************************************************************)
EXTENDS Naturals, FiniteSets

CONSTANTS
  Commands,        \* processes that run a command under the lock
  MaxLockCrashes,  \* bound on the processes that die
  MaxLockFaults    \* bound on the records that cannot be written

VARIABLES
  lockFile,        \* .meanthis-bridge-profile.lock
  guardFile,       \* .meanthis-bridge-profile.reclaim.lock
  commands,        \* where each command is, and what it has seen
  lockCrashes,
  lockFaults

lockVars == <<lockFile, guardFile, commands, lockCrashes, lockFaults>>

Nonces == 1 .. 4 * Cardinality(Commands) + 3
NoFile == [nonce |-> 0, whole |-> FALSE, alive |-> FALSE, old |-> FALSE]
LockFiles == [nonce : Nonces, whole : BOOLEAN, alive : BOOLEAN, old : BOOLEAN]
IdOf(f) == [nonce |-> f.nonce, whole |-> f.whole]
NoId == IdOf(NoFile)

CommandPlaces ==
  {"idle", "create", "write", "inspect", "guard", "guardWrite", "guardInspect",
   "guardLatest", "guardUnlink", "recheck", "unlink", "recreate", "rewrite",
   "leave", "dropGuard", "held", "release", "dropLock"}
Outside == [pc |-> "idle", lock |-> 0, guard |-> 0, seen |-> NoId, attempt |-> 1]

LockTypeOK ==
  /\ {lockFile, guardFile} \subseteq LockFiles \cup {NoFile}
  /\ commands \in [Commands ->
       [pc : CommandPlaces, lock : Nonces \cup {0}, guard : Nonces \cup {0},
        seen : [nonce : Nonces \cup {0}, whole : BOOLEAN], attempt : 1 .. 2]]
  /\ lockCrashes \in 0 .. MaxLockCrashes /\ lockFaults \in 0 .. MaxLockFaults

LockInit ==
  /\ lockFile = NoFile /\ guardFile = NoFile
  /\ commands = [c \in Commands |-> Outside]
  /\ lockCrashes = 0 /\ lockFaults = 0

UsedNonces == {lockFile.nonce, guardFile.nonce} \cup
  UNION {{commands[c].lock, commands[c].guard, commands[c].seen.nonce} : c \in Commands}
FreshNonce == CHOOSE n \in Nonces : n \notin UsedNonces
NewFile(n) == [nonce |-> n, whole |-> FALSE, alive |-> TRUE, old |-> FALSE]

InPlace(c, place) == commands[c].pc = place
Update(c, r) == commands' = [commands EXCEPT ![c] = r]
Move(c, place) == Update(c, [commands[c] EXCEPT !.pc = place])
GiveUp(c) == Update(c, Outside)
KeepCounts == UNCHANGED <<lockCrashes, lockFaults>>

\* MUTANT of Reclaimable: only a file with a record can be abandoned.
ReclaimableWhole(f) == f.whole /\ ~f.alive

\* A file is abandoned when the process of its record is gone, or when it
\* has no record for as long as a lock may last.
Reclaimable(f) == IF f.whole THEN ~f.alive ELSE f # NoFile /\ f.old

-----------------------------------------------------------------------------
StartCommand(c) ==
  /\ InPlace(c, "idle") /\ Move(c, "create")
  /\ UNCHANGED <<lockFile, guardFile>> /\ KeepCounts

\* open(path, "wx").
CreateLock(c) ==
  /\ InPlace(c, "create")
  /\ \/ /\ lockFile = NoFile
        /\ lockFile' = NewFile(FreshNonce)
        /\ Update(c, [commands[c] EXCEPT !.pc = "write", !.lock = FreshNonce])
     \/ lockFile # NoFile /\ Move(c, "inspect") /\ UNCHANGED lockFile
  /\ UNCHANGED guardFile /\ KeepCounts

\* The record is written to the file that was opened, wherever it is now; a
\* file whose record could not be written is removed by its path.
WriteLock(c) ==
  /\ InPlace(c, "write")
  /\ \/ /\ lockFile' = IF lockFile.nonce = commands[c].lock
                         THEN [lockFile EXCEPT !.whole = TRUE] ELSE lockFile
        /\ Move(c, "held") /\ UNCHANGED lockFaults
     \/ /\ lockFaults < MaxLockFaults /\ lockFaults' = lockFaults + 1
        /\ lockFile' = NoFile /\ GiveUp(c)
  /\ UNCHANGED <<guardFile, lockCrashes>>

InspectLock(c) ==
  /\ InPlace(c, "inspect")
  /\ IF Reclaimable(lockFile)
       THEN Update(c, [commands[c] EXCEPT !.pc = "guard", !.seen = IdOf(lockFile)])
       ELSE GiveUp(c)
  /\ UNCHANGED <<lockFile, guardFile>> /\ KeepCounts

CreateGuard(c) ==
  /\ InPlace(c, "guard")
  /\ \/ /\ guardFile = NoFile
        /\ guardFile' = NewFile(FreshNonce)
        /\ Update(c, [commands[c] EXCEPT !.pc = "guardWrite", !.guard = FreshNonce])
     \/ guardFile # NoFile /\ Move(c, "guardInspect") /\ UNCHANGED guardFile
  /\ UNCHANGED lockFile /\ KeepCounts

WriteGuard(c) ==
  /\ InPlace(c, "guardWrite")
  /\ \/ /\ guardFile' = IF guardFile.nonce = commands[c].guard
                          THEN [guardFile EXCEPT !.whole = TRUE] ELSE guardFile
        /\ Move(c, "recheck") /\ UNCHANGED lockFaults
     \/ /\ lockFaults < MaxLockFaults /\ lockFaults' = lockFaults + 1
        /\ guardFile' = NoFile /\ GiveUp(c)
  /\ UNCHANGED <<lockFile, lockCrashes>>

\* The guard is inspected twice and removed by its path, once; `guard' holds
\* what the first inspection saw until the command has a guard of its own.
InspectGuard(c) ==
  /\ InPlace(c, "guardInspect")
  /\ IF Reclaimable(guardFile)
       THEN Update(c, [commands[c] EXCEPT !.pc = "guardLatest", !.guard = guardFile.nonce])
       ELSE GiveUp(c)
  /\ UNCHANGED <<lockFile, guardFile>> /\ KeepCounts

InspectGuardAgain(c) ==
  /\ InPlace(c, "guardLatest")
  /\ IF guardFile.nonce = commands[c].guard /\ Reclaimable(guardFile)
       THEN Move(c, "guardUnlink")
       ELSE GiveUp(c)
  /\ UNCHANGED <<lockFile, guardFile>> /\ KeepCounts

UnlinkGuard(c) ==
  /\ InPlace(c, "guardUnlink")
  /\ guardFile' = NoFile
  /\ IF commands[c].attempt = 1
       THEN Update(c, [commands[c] EXCEPT !.pc = "guard", !.guard = 0, !.attempt = 2])
       ELSE GiveUp(c)
  /\ UNCHANGED lockFile /\ KeepCounts

\* MUTANT of RecheckLock: the guard is trusted, the lock is not looked at again.
RecheckNothing(c) ==
  /\ InPlace(c, "recheck") /\ Move(c, "unlink")
  /\ UNCHANGED <<lockFile, guardFile>> /\ KeepCounts

\* Under the guard the lock is inspected once more, and replaced.
RecheckLock(c) ==
  /\ InPlace(c, "recheck")
  /\ Move(c, IF IdOf(lockFile) = commands[c].seen /\ Reclaimable(lockFile)
               THEN "unlink" ELSE "leave")
  /\ UNCHANGED <<lockFile, guardFile>> /\ KeepCounts

UnlinkLock(c) ==
  /\ InPlace(c, "unlink")
  /\ lockFile' = NoFile
  /\ Move(c, IF lockFile = NoFile THEN "leave" ELSE "recreate")
  /\ UNCHANGED guardFile /\ KeepCounts

RecreateLock(c) ==
  /\ InPlace(c, "recreate")
  /\ \/ /\ lockFile = NoFile
        /\ lockFile' = NewFile(FreshNonce)
        /\ Update(c, [commands[c] EXCEPT !.pc = "rewrite", !.lock = FreshNonce])
     \/ lockFile # NoFile /\ Move(c, "leave") /\ UNCHANGED lockFile
  /\ UNCHANGED guardFile /\ KeepCounts

RewriteLock(c) ==
  /\ InPlace(c, "rewrite")
  /\ \/ /\ lockFile' = IF lockFile.nonce = commands[c].lock
                         THEN [lockFile EXCEPT !.whole = TRUE] ELSE lockFile
        /\ Move(c, "leave") /\ UNCHANGED lockFaults
     \/ /\ lockFaults < MaxLockFaults /\ lockFaults' = lockFaults + 1
        /\ lockFile' = NoFile
        /\ Update(c, [commands[c] EXCEPT !.pc = "leave", !.lock = 0])
  /\ UNCHANGED <<guardFile, lockCrashes>>

\* The guard is released by whoever finds its own nonce in it.  A command
\* that does not gives up, and removes the lock it has just taken.
LeaveGuard(c) ==
  /\ InPlace(c, "leave")
  /\ \/ /\ guardFile.nonce = commands[c].guard
        /\ Move(c, "dropGuard") /\ UNCHANGED lockFile
     \/ /\ guardFile.nonce # commands[c].guard
        /\ lockFile' = IF commands[c].lock # 0 THEN NoFile ELSE lockFile
        /\ GiveUp(c)
  /\ UNCHANGED guardFile /\ KeepCounts

DropGuard(c) ==
  /\ InPlace(c, "dropGuard")
  /\ guardFile' = NoFile
  /\ IF commands[c].lock # 0
       THEN Update(c, [Outside EXCEPT !.pc = "held", !.lock = commands[c].lock])
       ELSE GiveUp(c)
  /\ UNCHANGED lockFile /\ KeepCounts

\* The command has done its work.
ReleaseLock(c) ==
  /\ InPlace(c, "held")
  /\ IF lockFile.nonce = commands[c].lock THEN Move(c, "dropLock") ELSE GiveUp(c)
  /\ UNCHANGED <<lockFile, guardFile>> /\ KeepCounts

DropLock(c) ==
  /\ InPlace(c, "dropLock")
  /\ lockFile' = NoFile /\ GiveUp(c)
  /\ UNCHANGED guardFile /\ KeepCounts

-----------------------------------------------------------------------------
\* A process dies; its files stay, and no later process is the same instance.
Orphaned(f, c) ==
  IF f # NoFile /\ \/ f.nonce = commands[c].lock
                   \/ f.nonce = commands[c].guard /\ ~InPlace(c, "guardLatest")
                                                  /\ ~InPlace(c, "guardUnlink")
    THEN [f EXCEPT !.alive = FALSE] ELSE f
CommandDies(c) ==
  /\ ~InPlace(c, "idle")
  /\ lockCrashes < MaxLockCrashes /\ lockCrashes' = lockCrashes + 1
  /\ lockFile' = Orphaned(lockFile, c) /\ guardFile' = Orphaned(guardFile, c)
  /\ GiveUp(c) /\ UNCHANGED lockFaults

\* Five minutes pass over a file without a record.
Age(f) == [f EXCEPT !.old = TRUE]
MayAge(f) == f # NoFile /\ ~f.whole /\ ~f.alive /\ ~f.old
TimePasses ==
  /\ \/ MayAge(lockFile) /\ lockFile' = Age(lockFile) /\ UNCHANGED guardFile
     \/ MayAge(guardFile) /\ guardFile' = Age(guardFile) /\ UNCHANGED lockFile
  /\ UNCHANGED commands /\ KeepCounts

TakeLock(c) ==
  \/ CreateLock(c) \/ WriteLock(c) \/ InspectLock(c) \/ CreateGuard(c)
  \/ WriteGuard(c) \/ InspectGuard(c) \/ InspectGuardAgain(c) \/ UnlinkGuard(c)
  \/ RecheckLock(c) \/ UnlinkLock(c) \/ RecreateLock(c) \/ RewriteLock(c)
  \/ LeaveGuard(c) \/ DropGuard(c)

CommandWork(c) ==
  StartCommand(c) \/ TakeLock(c) \/ ReleaseLock(c) \/ DropLock(c)

LockNext == TimePasses \/ \E c \in Commands : CommandWork(c) \/ CommandDies(c)

\* A command goes on once it is started, and somebody starts one again; a
\* file without a record gets old.
LockFairness ==
  /\ WF_lockVars(TimePasses)
  /\ \A c \in Commands : WF_lockVars(CommandWork(c))

LockSpec == LockInit /\ [][LockNext]_lockVars /\ LockFairness

Working(c) == commands[c].pc \in {"held", "dropLock"}

\* Two commands never change the profile at the same time.
OneCommand == \A c, d \in Commands : Working(c) /\ Working(d) => c = d

\* That holds as long as no process has died with the reclaim guard, for
\* which another one must have died with the lock before.
OneCommandWithoutLostGuard == lockCrashes < 2 => OneCommand

\* No crash locks the profile for good, not even one during a takeover:
\* commands that are started again and again get to work at last.
LockRecovers ==
  (\E c \in Commands : InPlace(c, "create")) ~> (\E c \in Commands : Working(c))
=============================================================================
