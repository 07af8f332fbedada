--------------------------- MODULE CredentialFile ---------------------------
(***************************************************************************)
(* A credential of the local bridge: a token in a file of a directory of   *)
(* its own, created by whichever process needs it first, reused by all the *)
(* others and replaced by an explicit rotation.  The agent credential      *)
(* (local-bridge-agent-token.ts) and the MCP bearer (the token functions   *)
(* of local-bridge-mcp-http-token.ts) do it in two styles.                 *)
(*                                                                         *)
(* Every call to the file system on which another process may have a       *)
(* bearing is a step.  A file is the number of the request that made it,   *)
(* its token (0 while it is empty), whether its permissions are the        *)
(* required ones, and a stamp that stands for its times.  The Windows      *)
(* access lists take the place of the mode and are left out.               *)
(***************************************************************************)
EXTENDS Naturals, FiniteSets

CONSTANTS
  Users,          \* processes that load or rotate the credential
  MaxRequests,    \* bound on the loads and rotations of all users
  MaxAttempts,    \* readings of a creator that lost the race (50 in the code)
  MaxFileFaults   \* bound on the file operations that fail

VARIABLES
  style,          \* "agent" or "mcp"
  folder,         \* the directory: who made it (0: missing) and its stamp
  disk,           \* the credential file
  users,
  requests,
  rotated,        \* the token of the last committed rotation
  fileFaults

credentialVars == <<style, folder, disk, users, requests, rotated, fileFaults>>

Stamps == 0 .. 8 * MaxRequests
Ids == 0 .. MaxRequests + 1        \* MaxRequests + 1: from before
Files == [ino : Ids, token : Ids, safe : BOOLEAN, stamp : Stamps]
Folders == [ino : Ids, stamp : Stamps]
Absent == [ino |-> 0, token |-> 0, safe |-> FALSE, stamp |-> 0]
NoFolder == [ino |-> 0, stamp |-> 0]
UserPlaces == {"idle", "exists", "prepare", "create", "write", "identify", "secure",
  "readback", "stat", "inspect", "read", "verify", "check", "recheck", "remove",
  "temporary", "prepared", "rename", "removeFolder", "done", "failed", "unverified"}
Resting == {"idle", "done", "failed", "unverified"}
AtRest == [pc |-> "idle", mine |-> 0, rotates |-> FALSE, made |-> 0, owns |-> FALSE,
           seen |-> Absent, seenFolder |-> NoFolder, text |-> 0, tries |-> 1]

CredentialTypeOK ==
  /\ style \in {"agent", "mcp"} /\ folder \in Folders /\ disk \in Files
  /\ users \in [Users -> [pc : UserPlaces, mine : Ids, rotates : BOOLEAN, made : Ids,
       owns : BOOLEAN, seen : Files, seenFolder : Folders, text : Ids,
       tries : 1 .. MaxAttempts]]
  /\ requests \in 0 .. MaxRequests /\ rotated \in Ids
  /\ fileFaults \in 0 .. MaxFileFaults

CredentialInit ==
  /\ style \in {"agent", "mcp"}
  /\ \/ folder = NoFolder /\ disk = Absent
     \/ /\ folder = [ino |-> MaxRequests + 1, stamp |-> 0]
        /\ disk \in {Absent} \cup {[ino |-> MaxRequests + 1, token |-> MaxRequests + 1,
                                    safe |-> good, stamp |-> 0] : good \in BOOLEAN}
  /\ users = [u \in Users |-> AtRest]
  /\ requests = 0 /\ rotated = 0 /\ fileFaults = 0

UserAt(u, place) == users[u].pc = place
Become(u, r) == users' = [users EXCEPT ![u] = r]
Proceed(u, place) == Become(u, [users[u] EXCEPT !.pc = place])
KeepFiles == UNCHANGED <<folder, disk, rotated>>
Works == UNCHANGED <<style, requests, fileFaults>>
Fails == fileFaults < MaxFileFaults /\ fileFaults' = fileFaults + 1
         /\ UNCHANGED <<style, requests>>
Touched(f) == [f EXCEPT !.stamp = @ + 1]
\* What remains of a request that fails: the agent's way takes back a
\* directory of its own.
Abandon(u) == IF users[u].owns THEN "removeFolder" ELSE "failed"

-----------------------------------------------------------------------------
Request(u) ==
  /\ users[u].pc \in Resting /\ requests < MaxRequests /\ requests' = requests + 1
  /\ \E rotates \in BOOLEAN :
       Become(u, [AtRest EXCEPT !.mine = requests + 1, !.rotates = rotates,
                                !.pc = IF rotates THEN "prepare" ELSE "exists"])
  /\ KeepFiles /\ UNCHANGED <<style, fileFaults>>

\* credentialExists.
Exists(u) ==
  /\ UserAt(u, "exists")
  /\ Proceed(u, IF disk # Absent THEN "stat" ELSE "prepare")
  /\ KeepFiles /\ Works

\* mkdir, chmod of the directory, for a creation or a rotation.
PrepareFolder(u) ==
  /\ UserAt(u, "prepare")
  /\ LET new == folder = NoFolder
         next == IF users[u].rotates THEN "temporary" ELSE "create" IN
     /\ folder' = IF new THEN [ino |-> users[u].mine, stamp |-> 0] ELSE Touched(folder)
     /\ \/ /\ Become(u, [users[u] EXCEPT !.pc = next, !.owns = new /\ style = "agent"])
           /\ Works
        \/ /\ Become(u, [users[u] EXCEPT !.owns = new /\ style = "agent",
             !.pc = IF new /\ style = "agent" THEN "removeFolder" ELSE "failed"])
           /\ Fails
  /\ UNCHANGED <<disk, rotated>>

\* writeFile with "wx": the file appears empty, then its text is written.
Create(u) ==
  /\ UserAt(u, "create")
  /\ CASE folder = NoFolder -> KeepFiles /\ Proceed(u, Abandon(u))
       [] folder # NoFolder /\ disk # Absent ->
            /\ KeepFiles
            /\ Become(u, [users[u] EXCEPT !.pc = "stat",
                            !.tries = IF style = "agent" THEN MaxAttempts ELSE 1])
       [] OTHER -> /\ disk' = [ino |-> users[u].mine, token |-> 0, safe |-> TRUE, stamp |-> 0]
                   /\ folder' = Touched(folder) /\ UNCHANGED rotated
                   /\ Proceed(u, "write")
  /\ Works

Write(u) ==
  /\ UserAt(u, "write")
  /\ disk' = IF disk.ino = users[u].mine
               THEN [Touched(disk) EXCEPT !.token = users[u].mine] ELSE disk
  /\ Proceed(u, "identify") /\ UNCHANGED <<folder, rotated>> /\ Works

Identify(u) ==
  /\ UserAt(u, "identify")
  /\ IF disk = Absent THEN Proceed(u, Abandon(u))
     ELSE Become(u, [users[u] EXCEPT !.pc = "secure", !.made = disk.ino])
  /\ KeepFiles /\ Works

\* secureCreatedPath on what the path leads to now.
Secure(u) ==
  /\ UserAt(u, "secure") /\ UNCHANGED <<folder, rotated>>
  /\ \/ /\ disk # Absent /\ disk' = [Touched(disk) EXCEPT !.safe = TRUE]
        /\ Proceed(u, "readback") /\ Works
     \/ disk = Absent /\ UNCHANGED disk /\ Proceed(u, "check") /\ Works
     \/ UNCHANGED disk /\ Proceed(u, "check") /\ Fails

\* The agent's way wants its own token in its own file; the other one takes
\* whatever token is there.
ReadBack(u) ==
  /\ UserAt(u, "readback") /\ KeepFiles
  /\ \/ /\ Works
        /\ IF disk.token # 0 /\ (style = "agent" => disk.token = users[u].mine
                                                     /\ disk.ino = users[u].made)
             THEN Become(u, [users[u] EXCEPT !.pc = "done", !.text = disk.token])
             ELSE Proceed(u, "check")
     \/ Proceed(u, "check") /\ Fails

-----------------------------------------------------------------------------
(* readExistingCredentialForReuse.                                          *)
\* A creator that lost the race has several tries, everyone else one.
ReadFailed(u) ==
  LET r == users[u] IN
  IF r.tries > 1 THEN Become(u, [r EXCEPT !.pc = "stat", !.tries = @ - 1])
  ELSE Proceed(u, IF r.rotates THEN "unverified" ELSE Abandon(u))

Stat(u) ==
  /\ UserAt(u, "stat") /\ KeepFiles /\ Works
  /\ IF disk = Absent THEN ReadFailed(u)
     ELSE Become(u, [users[u] EXCEPT !.seen = disk, !.seenFolder = folder,
            !.pc = IF users[u].rotates /\ style = "mcp" THEN "read" ELSE "inspect"])

Inspect(u) ==
  /\ UserAt(u, "inspect") /\ KeepFiles /\ Works
  /\ IF disk.safe THEN Proceed(u, "read") ELSE ReadFailed(u)

Answer(u, text) ==
  IF users[u].rotates /\ text # users[u].mine THEN Proceed(u, "unverified")
  ELSE Become(u, [users[u] EXCEPT !.pc = "done", !.text = text])

Read(u) ==
  /\ UserAt(u, "read") /\ KeepFiles
  /\ \/ /\ Works
        /\ CASE disk.token = 0 -> ReadFailed(u)
             [] disk.token # 0 /\ style = "mcp" -> Answer(u, disk.token)
             [] OTHER -> Become(u, [users[u] EXCEPT !.pc = "verify", !.text = disk.token])
     \/ ReadFailed(u) /\ Fails

\* The agent's way only: directory and file are what they were before, twice.
VerifyRead(u) ==
  /\ UserAt(u, "verify") /\ KeepFiles /\ Works
  /\ IF disk = users[u].seen /\ folder = users[u].seenFolder
       THEN Answer(u, users[u].text) ELSE ReadFailed(u)

-----------------------------------------------------------------------------
\* MUTANT of Check: what lies at the path is taken for one's own.
CheckNothing(u) ==
  /\ UserAt(u, "check") /\ KeepFiles /\ Works
  /\ Proceed(u, IF disk # Absent THEN "remove" ELSE Abandon(u))

(* removeCreatedCredentialIfUnchanged and removeOwnedDirectoryIfEmpty.      *)
Check(u) ==
  /\ UserAt(u, "check") /\ KeepFiles /\ Works
  /\ Proceed(u, IF disk.ino = users[u].made /\ disk.token = users[u].mine
                  THEN "recheck" ELSE Abandon(u))

Recheck(u) ==
  /\ UserAt(u, "recheck") /\ KeepFiles /\ Works
  /\ Proceed(u, IF disk.ino = users[u].made THEN "remove" ELSE Abandon(u))

\* The file is removed by its path.
Remove(u) ==
  /\ UserAt(u, "remove") /\ disk' = Absent /\ folder' = Touched(folder)
  /\ UNCHANGED rotated /\ Proceed(u, Abandon(u)) /\ Works

Temporaries == {v \in Users : users[v].pc \in {"prepared", "rename"}}
RemoveFolder(u) ==
  /\ UserAt(u, "removeFolder")
  /\ folder' = IF folder.ino = users[u].mine /\ disk = Absent /\ Temporaries = {}
                 THEN NoFolder ELSE folder
  /\ UNCHANGED <<disk, rotated>> /\ Proceed(u, "failed") /\ Works

-----------------------------------------------------------------------------
(* A rotation writes a temporary file and renames it.                       *)
Temporary(u) ==
  /\ UserAt(u, "temporary") /\ UNCHANGED <<disk, rotated>>
  /\ \/ /\ folder # NoFolder /\ folder' = Touched(folder)
        /\ Proceed(u, "prepared") /\ Works
     \/ folder = NoFolder /\ UNCHANGED folder /\ Proceed(u, Abandon(u)) /\ Works
     \/ UNCHANGED folder /\ Proceed(u, Abandon(u)) /\ Fails

\* Secured and read back; removed again when that fails.
Prepared(u) ==
  /\ UserAt(u, "prepared") /\ UNCHANGED <<disk, rotated>>
  /\ \/ UNCHANGED folder /\ Proceed(u, "rename") /\ Works
     \/ folder' = Touched(folder) /\ Proceed(u, Abandon(u)) /\ Fails

Rename(u) ==
  /\ UserAt(u, "rename")
  /\ \/ /\ disk' = [ino |-> users[u].mine, token |-> users[u].mine,
                    safe |-> TRUE, stamp |-> 0]
        /\ rotated' = users[u].mine /\ Proceed(u, "stat") /\ Works
     \/ UNCHANGED <<disk, rotated>> /\ Proceed(u, Abandon(u)) /\ Fails
  /\ folder' = Touched(folder)

CredentialNext ==
  \E u \in Users :
    \/ Request(u) \/ Exists(u) \/ PrepareFolder(u)
    \/ Create(u) \/ Write(u) \/ Identify(u) \/ Secure(u) \/ ReadBack(u)
    \/ Stat(u) \/ Inspect(u) \/ Read(u) \/ VerifyRead(u)
    \/ Check(u) \/ Recheck(u) \/ Remove(u) \/ RemoveFolder(u)
    \/ Temporary(u) \/ Prepared(u) \/ Rename(u)

CredentialSpec == CredentialInit /\ [][CredentialNext]_credentialVars

-----------------------------------------------------------------------------
(* Processes that create the credential at the same time, none of them     *)
(* rotating it, all go on with the same token, the one that is stored, as  *)
(* long as no file operation fails (writeFile with "wx", then              *)
(* readConcurrentCreatorCredential).                                       *)
CreatorsAgree ==
  rotated = 0 /\ fileFaults = 0 =>
    \A u \in Users : UserAt(u, "done") => users[u].text = disk.token

(* A rotated credential stays until the next rotation: no creator that     *)
(* fails beside the rotation takes it away (removeCreatedCredential-       *)
(* IfUnchanged compares the file and its text first).  With a failing      *)
(* operation this is too much to ask: between the last comparison and the  *)
(* removal, a rotation may still put its file there.                       *)
RotationStays == rotated # 0 /\ fileFaults = 0 => disk.token = rotated

(* Everybody ends with the one token that is stored, and that is the last  *)
(* rotated one.                                                            *)
CredentialSafe == CreatorsAgree /\ RotationStays
=============================================================================
