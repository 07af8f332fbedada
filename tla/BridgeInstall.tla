---------------------------- MODULE BridgeInstall ----------------------------
(***************************************************************************)
(* What the bridge commands do under the profile lock (bridge-cli.ts): an  *)
(* installation changes up to three registrations of the Codex command     *)
(* line, one process per read and per change, and rolls them back when one *)
(* fails; a rotation replaces both credentials and turns the two owner     *)
(* processes over.                                                         *)
(*                                                                         *)
(* The lock keeps other bridge commands out but not other writers of the   *)
(* Codex configuration.  A Codex process may fail with or without having   *)
(* done its work; one that cannot be confirmed dead may do it later.       *)
(* Statuses of a registration stand for its contents; a backup of the      *)
(* configuration is made before the first change and never read.           *)
(***************************************************************************)
EXTENDS Naturals, Sequences, FiniteSets

CONSTANTS
  MaxOutside,      \* bound on the changes made by other programs
  MaxCodexFaults   \* bound on the failures of processes, files and owners

VARIABLES
  regs,            \* the registrations, by name
  cmd,             \* the command that runs
  late,            \* changes of processes not confirmed dead
  touched,         \* names others may have changed since they were last read
  keys,            \* the two credentials
  running,         \* the credentials the two owner processes run with
  outside,
  codexFaults

installVars == <<regs, cmd, late, touched, keys, running, outside, codexFaults>>

Names == {"main", "legacy", "resolver"}
Statuses(name) == IF name = "main" THEN {"missing", "legacy", "current", "drifted"}
                                   ELSE {"missing", "current", "drifted"}
Unread == {"error", "unavailable", "unconfirmed"}
Kinds == {"start", "install", "uninstall", "rotateMcp", "rotateAgent"}
Results == {"none", "ok", "refused", "clean", "restored", "manual", "unverified", "failed"}

Idle == [kind |-> "start", pc |-> "idle", first |-> [n \in Names |-> "missing"],
         todo |-> <<>>, done |-> <<>>, outcomes |-> {}, retried |-> FALSE, result |-> "none"]

InstallTypeOK ==
  /\ \A n \in Names : regs[n] \in Statuses(n)
  /\ cmd.kind \in Kinds /\ cmd.result \in Results
  /\ \A n \in Names : cmd.first[n] \in Statuses(n) \cup Unread
  /\ late \subseteq Names \X {"missing", "legacy", "current"} /\ touched \subseteq Names
  /\ keys \in [{"agent", "mcp"} -> 0 .. 2] /\ running \in [{"agent", "mcp"} -> 0 .. 2]
  /\ outside \in 0 .. MaxOutside /\ codexFaults \in 0 .. MaxCodexFaults

\* Credential 0 does not exist, owner 0 does not run; an owner may still run
\* with a credential that is no longer the stored one.
InstallInit ==
  /\ regs \in {r \in [Names -> UNION {Statuses(n) : n \in Names}] :
                 \A n \in Names : r[n] \in Statuses(n)}
  /\ keys = [k \in {"agent", "mcp"} |-> 1]
  /\ running \in [{"agent", "mcp"} -> {0, 1}]
  /\ cmd \in {[Idle EXCEPT !.kind = k] : k \in Kinds}
  /\ late = {} /\ touched = {} /\ outside = 0 /\ codexFaults = 0

CmdAt(place) == cmd.pc = place
Step(place) == cmd' = [cmd EXCEPT !.pc = place]
Finish(result) == cmd' = [cmd EXCEPT !.pc = "end", !.result = result]
CodexFault == codexFaults < MaxCodexFaults /\ codexFaults' = codexFaults + 1
KeepOwners == UNCHANGED <<keys, running>>
KeepCodex == UNCHANGED <<regs, late, touched>>
Calm == UNCHANGED codexFaults

\* codex mcp get: what is stored, or a process that failed.
ReadOutcome(name, status) ==
  \/ status = regs[name] /\ Calm
  \/ status \in Unread /\ CodexFault
\* codex mcp add, codex mcp remove.
ChangeOutcome(name, value, ended) ==
  \/ /\ ended = "done" /\ regs' = [regs EXCEPT ![name] = value]
     /\ UNCHANGED late /\ Calm
  \/ /\ ended = "failed" /\ regs' \in {regs, [regs EXCEPT ![name] = value]}
     /\ UNCHANGED late /\ CodexFault
  \/ /\ ended = "unconfirmed" /\ late' = late \cup {<<name, value>>}
     /\ UNCHANGED regs /\ CodexFault

-----------------------------------------------------------------------------
\* An installation reads all three at the same time, the other commands the
\* main one only.
ReadFirst ==
  /\ CmdAt("idle") /\ cmd.kind # "start"
  /\ LET mine == IF cmd.kind = "install" THEN Names ELSE {"main"} IN
     /\ \/ /\ cmd' = [cmd EXCEPT !.pc = "decide", !.first = regs] /\ Calm
        \/ /\ \E n \in mine, bad \in Unread :
                cmd' = [cmd EXCEPT !.pc = "decide", !.first = [regs EXCEPT ![n] = bad]]
           /\ CodexFault
     /\ touched' = touched \ mine
  /\ UNCHANGED <<regs, late, outside>> /\ KeepOwners

Plan(first) == SelectSeq(<<"main", "legacy", "resolver">>,
  LAMBDA n : first[n] \in IF n = "main" THEN {"missing", "legacy"} ELSE {"current"})
Wanted(name) == IF cmd.kind = "install" /\ name = "main" THEN "current" ELSE "missing"

\* An installation does nothing next to a registration that is not its own.
DecideInstall ==
  /\ CmdAt("decide") /\ cmd.kind = "install"
  /\ LET first == cmd.first IN
     IF \E n \in Names : first[n] \in Unread \cup {"drifted"}
       THEN Finish("refused")
       ELSE cmd' = [cmd EXCEPT !.todo = Plan(first),
                               !.pc = IF Plan(first) = <<>> THEN "token" ELSE "backup"]
  /\ KeepCodex /\ KeepOwners /\ Calm /\ UNCHANGED outside

DecideUninstall ==
  /\ CmdAt("decide") /\ cmd.kind = "uninstall"
  /\ CASE cmd.first["main"] = "missing" -> Finish("ok")
       [] cmd.first["main"] = "current" ->
            cmd' = [cmd EXCEPT !.todo = <<"main">>, !.pc = "backup"]
       [] OTHER -> Finish("refused")
  /\ KeepCodex /\ KeepOwners /\ Calm /\ UNCHANGED outside

DecideRotation ==
  /\ CmdAt("decide") /\ cmd.kind \in {"rotateMcp", "rotateAgent"}
  /\ IF cmd.first["main"] \in Unread \cup {"drifted"}
       THEN Finish("refused") ELSE Step("rotateMcp")
  /\ KeepCodex /\ KeepOwners /\ Calm /\ UNCHANGED outside

BackUp ==
  /\ CmdAt("backup")
  /\ \/ Step(IF cmd.kind = "install" THEN "token" ELSE "latest") /\ Calm
     \/ Finish("refused") /\ CodexFault
  /\ KeepCodex /\ KeepOwners /\ UNCHANGED outside

\* bridge start begins here: the bearer is loaded or created.
LoadToken ==
  /\ CmdAt("token") \/ (CmdAt("idle") /\ cmd.kind = "start")
  /\ \/ Step("browser") /\ Calm
     \/ Finish("failed") /\ CodexFault
  /\ KeepCodex /\ KeepOwners /\ UNCHANGED outside

\* ensureOwners: one more try for the MCP owner, after another one for the
\* browser owner, unless the error is one that a retry cannot help.
AfterOwners == CASE cmd.kind = "install" -> IF cmd.todo = <<>> THEN "final" ELSE "latest"
                 [] cmd.kind = "start" -> "finish"
                 [] OTHER -> "verify2"
EnsureBrowser ==
  /\ CmdAt("browser")
  /\ \/ /\ running' = [running EXCEPT !["agent"] = keys["agent"]] /\ Calm
        /\ Step(IF cmd.kind = "rotateAgent" /\ cmd.first["main"] # "current"
                  THEN "verify2" ELSE "http")
     \/ Finish("failed") /\ CodexFault /\ UNCHANGED running
  /\ KeepCodex /\ UNCHANGED <<keys, outside>>

EnsureHttp ==
  /\ CmdAt("http")
  /\ \/ /\ running' = [running EXCEPT !["mcp"] = keys["mcp"]] /\ Step(AfterOwners) /\ Calm
     \/ /\ UNCHANGED running /\ CodexFault
        /\ \/ ~cmd.retried /\ cmd' = [cmd EXCEPT !.pc = "browser", !.retried = TRUE]
           \/ Finish("failed")
  /\ KeepCodex /\ UNCHANGED <<keys, outside>>

FinishStart ==
  /\ CmdAt("finish") /\ Finish("ok")
  /\ KeepCodex /\ KeepOwners /\ Calm /\ UNCHANGED outside

-----------------------------------------------------------------------------
(* One registration after the other: read again, change, read back.        *)
Changing == Head(cmd.todo)
\* failRegistrationMutation: no rollback beside a process that may still run.
Fail(ended, done) ==
  cmd' = [cmd EXCEPT !.done = done,
            !.pc = IF ended = "unconfirmed" \/ done = <<>> THEN "end" ELSE "undo",
            !.result = IF ended = "unconfirmed" THEN "manual"
                       ELSE IF done = <<>> THEN "clean" ELSE "none"]

ReadLatest ==
  /\ CmdAt("latest")
  /\ \E status \in Statuses("main") \cup Unread :
       /\ ReadOutcome(Changing, status)
       /\ IF status = cmd.first[Changing]
            THEN cmd' = [cmd EXCEPT !.pc = "change",
                           !.done = Append(@, [name |-> Changing, before |-> status])]
            ELSE Fail(status, cmd.done)
  /\ touched' = touched \ {Changing} /\ UNCHANGED <<regs, late, outside>> /\ KeepOwners

Change ==
  /\ CmdAt("change")
  /\ \E ended \in {"done", "failed", "unconfirmed"} :
       /\ ChangeOutcome(Changing, Wanted(Changing), ended)
       /\ IF ended = "done" THEN Step("verify") ELSE Fail(ended, cmd.done)
  /\ UNCHANGED <<touched, outside>> /\ KeepOwners

Verify ==
  /\ CmdAt("verify")
  /\ \E status \in Statuses("main") \cup Unread :
       /\ ReadOutcome(Changing, status)
       /\ IF status # Wanted(Changing) THEN Fail(status, cmd.done)
          ELSE IF Len(cmd.todo) > 1
                 THEN cmd' = [cmd EXCEPT !.todo = Tail(@), !.pc = "latest"]
          ELSE IF cmd.kind = "install" THEN Step("final") ELSE Finish("ok")
  /\ touched' = touched \ {Changing} /\ UNCHANGED <<regs, late, outside>> /\ KeepOwners

\* The installation reads everything once more; nothing is rolled back then.
ReadFinal ==
  /\ CmdAt("final")
  /\ \/ /\ Finish(IF \A n \in Names : regs[n] = Wanted(n) THEN "ok" ELSE "unverified")
        /\ Calm
     \/ Finish("unverified") /\ CodexFault
  /\ touched' = {} /\ UNCHANGED <<regs, late, outside>> /\ KeepOwners

(* The rollback, last change first.                                        *)
Undoing == cmd.done[Len(cmd.done)]
\* MUTANT of Undone: the rollback goes on beside a process that may still run.
UndoneAll(outcome) ==
  LET rest == SubSeq(cmd.done, 1, Len(cmd.done) - 1)
      all == cmd.outcomes \cup {outcome}
  IN cmd' = IF rest = <<>>
       THEN [cmd EXCEPT !.outcomes = all, !.pc = "end",
               !.result = IF all = {"restored"} THEN "restored" ELSE "manual"]
       ELSE [cmd EXCEPT !.outcomes = all, !.done = rest, !.pc = "undo"]

Undone(outcome) ==
  LET rest == SubSeq(cmd.done, 1, Len(cmd.done) - 1)
      all == cmd.outcomes \cup {outcome}
  IN cmd' = IF rest = <<>> \/ outcome = "unconfirmed"
       THEN [cmd EXCEPT !.outcomes = all, !.pc = "end",
               !.result = IF all = {"restored"} THEN "restored" ELSE "manual"]
       ELSE [cmd EXCEPT !.outcomes = all, !.done = rest, !.pc = "undo"]

CanUndo(before, now) ==
  IF before = "missing" THEN now = "current"
  ELSE now = "missing" \/ (before = "legacy" /\ now = "current")

UndoRead ==
  /\ CmdAt("undo")
  /\ \E status \in Statuses("main") \cup Unread :
       /\ ReadOutcome(Undoing.name, status)
       /\ CASE status = Undoing.before -> Undone("restored")
            [] status = "unconfirmed" -> Undone("unconfirmed")
            [] CanUndo(Undoing.before, status) -> Step("undoChange")
            [] OTHER -> Undone("manual")
  /\ touched' = touched \ {Undoing.name} /\ UNCHANGED <<regs, late, outside>> /\ KeepOwners

UndoChange ==
  /\ CmdAt("undoChange")
  /\ \E ended \in {"done", "failed", "unconfirmed"} :
       /\ ChangeOutcome(Undoing.name, Undoing.before, ended)
       /\ CASE ended = "done" -> Step("undoVerify")
            [] ended = "failed" -> Undone("manual")
            [] OTHER -> Undone("unconfirmed")
  /\ UNCHANGED <<touched, outside>> /\ KeepOwners

UndoVerify ==
  /\ CmdAt("undoVerify")
  /\ \E status \in Statuses("main") \cup Unread :
       /\ ReadOutcome(Undoing.name, status)
       /\ Undone(CASE status = Undoing.before -> "restored"
                   [] status = "unconfirmed" -> "unconfirmed"
                   [] OTHER -> "manual")
  /\ touched' = touched \ {Undoing.name} /\ UNCHANGED <<regs, late, outside>> /\ KeepOwners

-----------------------------------------------------------------------------
(* The rotations.  The bearer goes first, so that no MCP owner is left that *)
(* holds the new agent credential behind an exposed bearer.                 *)
RotateMcp ==
  /\ CmdAt("rotateMcp")
  /\ \/ /\ keys' = [keys EXCEPT !["mcp"] = 2] /\ Calm
        /\ Step(IF cmd.kind = "rotateAgent" THEN "rotateAgent" ELSE "verify1")
     \/ /\ keys' \in {keys, [keys EXCEPT !["mcp"] = 2]} /\ CodexFault /\ Finish("failed")
  /\ KeepCodex /\ UNCHANGED <<running, outside>>

RotateAgent ==
  /\ CmdAt("rotateAgent")
  /\ \/ keys' = [keys EXCEPT !["agent"] = 2] /\ Calm /\ Step("verify1")
     \/ keys' \in {keys, [keys EXCEPT !["agent"] = 2]} /\ CodexFault /\ Finish("failed")
  /\ KeepCodex /\ UNCHANGED <<running, outside>>

\* The stored credentials are read back; a rotation of the bearer alone ends
\* here when nothing of this checkout is registered.
VerifyKeys ==
  /\ CmdAt("verify1")
  /\ \/ /\ Calm
        /\ IF cmd.kind = "rotateMcp" /\ cmd.first["main"] # "current"
             THEN Finish("ok") ELSE Step("browser")
     \/ /\ cmd.kind = "rotateAgent" \/ cmd.first["main"] # "current"
        /\ CodexFault /\ Finish("unverified")
  /\ KeepCodex /\ KeepOwners /\ UNCHANGED outside

\* Everything is read back, with the registration, which must be as it was.
VerifyTurnover ==
  /\ CmdAt("verify2")
  /\ \/ /\ Calm
        /\ Finish(IF /\ regs["main"] = cmd.first["main"]
                     /\ cmd.first["main"] = "current" => running["mcp"] = keys["mcp"]
                    THEN "ok" ELSE "unverified")
     \/ Finish("unverified") /\ CodexFault
  /\ touched' = touched \ {"main"} /\ UNCHANGED <<regs, late, outside>> /\ KeepOwners

-----------------------------------------------------------------------------
(* Others.                                                                  *)
ChangeFromOutside ==
  /\ outside < MaxOutside /\ outside' = outside + 1
  /\ \E n \in Names : /\ \E s \in Statuses(n) \ {regs[n]} : regs' = [regs EXCEPT ![n] = s]
                      /\ touched' = touched \cup {n}
  /\ UNCHANGED <<cmd, late>> /\ KeepOwners /\ Calm

LateProcessWrites ==
  /\ \E l \in late : /\ late' = late \ {l}
                     /\ \/ /\ regs' = [regs EXCEPT ![l[1]] = l[2]]
                           /\ touched' = touched \cup {l[1]}
                        \/ UNCHANGED <<regs, touched>>
  /\ UNCHANGED <<cmd, outside>> /\ KeepOwners /\ Calm

OwnerEnds ==
  /\ CodexFault /\ ~CmdAt("end")
  /\ \E k \in {"agent", "mcp"} : running[k] # 0 /\ running' = [running EXCEPT ![k] = 0]
  /\ KeepCodex /\ UNCHANGED <<cmd, keys, outside>>

CommandStep ==
  \/ ReadFirst \/ DecideInstall \/ DecideUninstall \/ DecideRotation \/ BackUp
  \/ LoadToken \/ EnsureBrowser \/ EnsureHttp \/ FinishStart
  \/ ReadLatest \/ Change \/ Verify \/ ReadFinal
  \/ UndoRead \/ UndoChange \/ UndoVerify
  \/ RotateMcp \/ RotateAgent \/ VerifyKeys \/ VerifyTurnover

InstallNext == CommandStep \/ ChangeFromOutside \/ LateProcessWrites \/ OwnerEnds

InstallSpec == InstallInit /\ [][InstallNext]_installVars

-----------------------------------------------------------------------------
(* Unless another program changed the registrations meanwhile, a command   *)
(* that reports that nothing was done, or that what it did was rolled      *)
(* back, leaves every registration as it found it: also when the change    *)
(* that failed had been made, or the rollback met a failure of its own     *)
(* (failRegistrationMutation, rollbackRegistrationMutations).              *)
RollbackIsComplete ==
  CmdAt("end") /\ cmd.result \in {"clean", "restored"} /\ outside = 0
    => regs = cmd.first

(* No registration is changed beside a process that may still change one,  *)
(* and the result says so: whatever the late process does, nobody is told  *)
(* that the configuration is as it was (termination_unconfirmed).          *)
NothingBesideLateProcess ==
  late # {} => CmdAt("end") /\ cmd.result = "manual"

(* What a reader of the command's result may rely on: it tells what is     *)
(* registered now, or that this is not known.                              *)
InstallSafe == RollbackIsComplete /\ NothingBesideLateProcess

(* A registration that is not of this checkout is overwritten only when it *)
(* came after the command's last reading of it: external writers ignore    *)
(* the lock, so every change reads again first.                            *)
KeepsForeignRegistration ==
  \A n \in Names :
    regs[n] = "drifted" /\ regs'[n] # "drifted" /\ CommandStep => n \in touched

(* Both together: what a command tells, and what it leaves alone.          *)
InstallIsSafe == [][KeepsForeignRegistration /\ InstallSafe']_installVars
=============================================================================
