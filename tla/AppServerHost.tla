----------------------------- MODULE AppServerHost -----------------------------
(***************************************************************************)
(* The Codex App Server of a host, as the wrapper maintains it: setup.sh   *)
(* writes its token and configuration and installs its service; the helper *)
(* novascale-codex restarts and stops it, rotates the token, uninstalls;   *)
(* "novascale-agent app-server restart-if-updated" restarts it when the    *)
(* Codex executable has changed since it started, which it works out from  *)
(* four readings that are taken one after the other.  Meanwhile Codex is   *)
(* updated, the server dies and is respawned, and time passes.             *)
(*                                                                         *)
(* Simplified here: one command of setup and the helper runs at a time; it *)
(* may end at any step.  What the service manager is told to do takes      *)
(* place at once; the port is one, and a tool to look at it is there; the  *)
(* server reads its token when it starts.  No file is dated in the future, *)
(* the clock is not set, and process numbers are not used again.           *)
(***************************************************************************)
EXTENDS Integers, FiniteSets

CONSTANTS
    Platforms,   \* the platforms the host may be of
    Second,      \* ticks of the clock in a second
    MaxTime,     \* bound: the clock
    MaxUpdates,  \* bound: changes of the executable
    MaxStarts,   \* bound: starts of the server
    MaxCommands, \* bound: commands of setup and the helper
    MaxChecks    \* bound: runs of restart-if-updated

ASSUME PlatformsAssumption == Platforms \subseteq {"Darwin", "Linux"}
ASSUME SecondAssumption == Second \in Nat \ {0}
ASSUME BoundsAssumption ==
    /\ {MaxTime, MaxUpdates, MaxCommands, MaxChecks} \subseteq Nat
    /\ MaxStarts \in Nat \ {0}

VARIABLES
    os,      \* the platform
    now,     \* the clock, in ticks
    exe,     \* the executable: when its link and its file say they were changed,
             \* when it really was, and how often
    disk,    \* configurations, unit files, the token and the legacy token, the helper
    wanted,  \* the unit the service manager keeps running
    server,  \* the process of the server
    starts,  \* processes so far
    tokens,  \* tokens so far
    cmd,     \* the command of setup or the helper that runs, or ran last
    commands, \* how many there were
    check,   \* restart-if-updated
    checks   \* how often it was run

host == <<os, exe, disk, tokens>>
vars == <<now, host, wanted, server, starts, cmd, commands, check, checks>>

\* mtimeTolerance
Tolerance == 2 * Second

Missing == -1
Empty == 0
Tokens == {Missing, Empty} \cup 1..(MaxCommands + 1)
Units == {"current", "legacy"}

Off == [unit |-> "none", pid |-> 0, started |-> 0, image |-> 0, token |-> Missing]
NoCommand == [op |-> "none", pc |-> "idle", rotate |-> FALSE, start |-> FALSE,
              delete |-> FALSE, printed |-> Missing, crossed |-> FALSE]
NoCheck == [pc |-> "idle", asked |-> 0, changed |-> 0, pid |-> 0]

Executable == [file: 0..now, link: 0..now, changed: 0..now, image: 0..MaxUpdates]
Disk == [config: SUBSET Units, units: SUBSET Units, token: Tokens, legacyToken: Tokens,
         helper: BOOLEAN]
Process == [unit: Units, pid: 1..starts, started: 0..now, image: 0..exe.image, token: Tokens]
Command == [op: {"none", "setup", "rotate", "restart", "stop", "uninstall"},
            pc: {"idle", "done", "failed", "halt", "port", "token", "truncate", "write",
                 "config", "service", "cleanup", "restart", "print", "remove", "delete"},
            rotate: BOOLEAN, start: BOOLEAN, delete: BOOLEAN, printed: Tokens, crossed: BOOLEAN]
UpdateCheck == [pc: {"idle", "config", "link", "file", "pid", "elapsed", "restart",
                     "current", "restarted", "unknown"},
                asked: 0..now, changed: 0..now, pid: 0..starts]

TypeOK ==
    /\ os \in Platforms
    /\ now \in 0..MaxTime
    /\ exe \in Executable
    /\ disk \in Disk
    /\ wanted \in {"none"} \cup disk.units
    /\ starts \in 0..MaxStarts /\ tokens \in 1..(MaxCommands + 1)
    /\ server = Off \/ (server \in Process /\ wanted \in {"none", server.unit})
    /\ cmd \in Command
    /\ commands \in 0..MaxCommands /\ checks \in 0..MaxChecks
    /\ check \in UpdateCheck

\* A host without the wrapper; one of the time when it was called NovaAccess,
\* whose move to the new name was perhaps interrupted; one with the wrapper, in
\* which perhaps a rotation of the token was.
Bare == [config |-> {}, units |-> {}, token |-> Missing, legacyToken |-> Missing,
         helper |-> FALSE]
Legacy == [Bare EXCEPT !.config = {"legacy"}, !.units = {"legacy"}, !.legacyToken = 1]
Installed == [config |-> {"current"}, units |-> {"current"}, token |-> 1,
              legacyToken |-> Missing, helper |-> TRUE]
Running(unit) == [Off EXCEPT !.unit = unit, !.pid = 1, !.token = 1]

Init ==
    /\ os \in Platforms /\ now = 0
    /\ exe = [file |-> 0, link |-> 0, changed |-> 0, image |-> 0]
    /\ \/ /\ disk \in {Bare, [Legacy EXCEPT !.token = Empty]}
          /\ wanted = "none" /\ server = Off
       \/ /\ disk = Legacy
          /\ wanted = "legacy" /\ server = Running("legacy")
       \/ /\ disk \in {Installed, [Installed EXCEPT !.token = Empty]}
          /\ wanted = "current" /\ server = Running("current")
    /\ starts = IF server = Off THEN 0 ELSE 1
    /\ tokens = 1
    /\ cmd = NoCommand /\ commands = 0
    /\ check = NoCheck /\ checks = 0

------------------------------------------------------------------------------
(* The service manager, Codex and the clock. *)

Launch(unit) ==
    /\ starts < MaxStarts
    /\ starts' = starts + 1
    /\ wanted' = unit
    /\ server' = [unit |-> unit, pid |-> starts + 1, started |-> now, image |-> exe.image,
                  token |-> IF unit = "legacy" THEN disk.legacyToken ELSE disk.token]

Halt ==
    /\ wanted' = "none" /\ server' = Off
    /\ UNCHANGED starts

Tick ==
    /\ now < MaxTime
    /\ now' = now + 1
    /\ UNCHANGED <<host, wanted, server, starts, cmd, commands, check, checks>>

\* Codex is replaced: by a new file, by a link to another file, which may be
\* older, or by an older file in its place.  Older is as old as can be.
Replace ==
    /\ exe.image < MaxUpdates
    /\ \E file \in {0, now}, link \in {exe.link, now} :
          exe' = [file |-> file, link |-> link, changed |-> now, image |-> exe.image + 1]
    /\ UNCHANGED <<os, now, disk, tokens, wanted, server, starts, cmd, commands, check, checks>>

Die ==
    /\ server # Off
    /\ server' = Off
    /\ UNCHANGED <<now, host, wanted, starts, cmd, commands, check, checks>>

Respawn ==
    /\ server = Off /\ wanted # "none"
    /\ Launch(wanted)
    /\ UNCHANGED <<now, host, cmd, commands, check, checks>>

------------------------------------------------------------------------------
(* setup.sh and the helper. *)

Ended == cmd.pc \in {"idle", "done", "failed"}
At(pc) == cmd.pc = pc
Goto(pc) == cmd' = [cmd EXCEPT !.pc = pc]
ServiceAlone == UNCHANGED <<wanted, server, starts>>
OnDisk == UNCHANGED <<os, now, exe, wanted, server, starts, commands, check, checks>>

Begin(op, pc, rotate, start, delete) ==
    /\ Ended /\ commands < MaxCommands
    /\ commands' = commands + 1
    /\ cmd' = [NoCommand EXCEPT !.op = op, !.pc = pc, !.rotate = rotate, !.start = start,
                                !.delete = delete]
    /\ UNCHANGED <<now, host, wanted, server, starts, check, checks>>

BeginSetup(rotate, start) == Begin("setup", "halt", rotate, start, FALSE)

\* load_config: the helper knows the current configuration only.
BeginRotation ==
    /\ disk.helper /\ "current" \in disk.config
    /\ Begin("rotate", "truncate", TRUE, TRUE, FALSE)
BeginRestart == disk.helper /\ Begin("restart", "restart", FALSE, TRUE, FALSE)
BeginStop == disk.helper /\ Begin("stop", "halt", FALSE, FALSE, FALSE)
BeginUninstall(delete) == disk.helper /\ Begin("uninstall", "halt", FALSE, FALSE, delete)

\* existing_setup_present, as far as it concerns the wrapper
Present == disk.config \cup disk.units # {} \/ disk.helper
           \/ disk.token # Missing \/ disk.legacyToken # Missing

\* setup stops what is there, quietly; so do the others, but on Linux they fail
\* if there is no service of the current name.
StopService ==
    /\ At("halt")
    /\ IF cmd.op = "setup"
       THEN (IF Present THEN Halt ELSE ServiceAlone) /\ Goto("port")
       ELSE IF os = "Linux" /\ "current" \notin disk.units
       THEN ServiceAlone /\ Goto("failed")
       ELSE Halt /\ Goto(IF cmd.op = "stop" THEN "done" ELSE "remove")
    /\ UNCHANGED <<now, host, commands, check, checks>>

CheckPort ==
    /\ At("port")
    /\ Goto(IF server = Off THEN "token" ELSE "failed")
    /\ UNCHANGED <<now, host, wanted, server, starts, commands, check, checks>>

\* Mutant of EnsureToken: a legacy token is not usable.
EnsureNewToken ==
    /\ At("token")
    /\ disk' = disk
    /\ Goto(IF cmd.rotate \/ disk.token <= Empty THEN "truncate" ELSE "config")
    /\ OnDisk /\ UNCHANGED tokens

\* The token is kept, or the legacy one taken over, unless it is to be rotated.
EnsureToken ==
    /\ At("token")
    /\ LET kept == IF disk.token <= Empty /\ disk.legacyToken > Empty /\ ~cmd.rotate
                   THEN disk.legacyToken ELSE disk.token
       IN  /\ disk' = [disk EXCEPT !.token = kept]
           /\ Goto(IF cmd.rotate \/ kept <= Empty THEN "truncate" ELSE "config")
    /\ OnDisk /\ UNCHANGED tokens

\* "openssl rand > file" empties the file first.
Truncate ==
    /\ At("truncate")
    /\ disk' = [disk EXCEPT !.token = Empty] /\ Goto("write")
    /\ OnDisk /\ UNCHANGED tokens

WriteToken ==
    /\ At("write")
    /\ tokens' = tokens + 1
    /\ disk' = [disk EXCEPT !.token = tokens']
    /\ Goto(IF cmd.op = "setup" THEN "config" ELSE "restart")
    /\ OnDisk

\* write_config, install_helper
WriteConfig ==
    /\ At("config")
    /\ disk' = [disk EXCEPT !.config = @ \cup {"current"}, !.helper = TRUE]
    /\ Goto("service")
    /\ OnDisk /\ UNCHANGED tokens

\* On macOS the service is unloaded and loaded; on Linux one that runs is left.
InstallService ==
    /\ At("service")
    /\ disk' = [disk EXCEPT !.units = @ \cup {"current"}]
    /\ IF cmd.start /\ (os = "Darwin" \/ server = Off) THEN Launch("current") ELSE ServiceAlone
    /\ Goto("cleanup")
    /\ UNCHANGED <<os, now, exe, tokens, commands, check, checks>>

CleanupLegacy ==
    /\ At("cleanup")
    /\ disk' = [disk EXCEPT !.config = @ \ {"legacy"}, !.units = @ \ {"legacy"},
                            !.legacyToken = Missing]
    /\ Goto("print")
    /\ OnDisk /\ UNCHANGED tokens

\* Mutant of RestartService: the service is started.
StartService ==
    /\ At("restart")
    /\ IF "current" \in disk.units /\ server = Off THEN Launch("current") ELSE ServiceAlone
    /\ Goto(IF cmd.op = "rotate" THEN "print" ELSE "done")
    /\ UNCHANGED <<now, host, commands, check, checks>>

RestartService ==
    /\ At("restart")
    /\ IF "current" \in disk.units
       THEN Launch("current") /\ Goto(IF cmd.op = "rotate" THEN "print" ELSE "done")
       ELSE ServiceAlone /\ Goto("failed")
    /\ UNCHANGED <<now, host, commands, check, checks>>

PrintPairing ==
    /\ At("print")
    /\ cmd' = IF disk.token = Missing THEN [cmd EXCEPT !.pc = "failed"]
              ELSE [cmd EXCEPT !.pc = "done", !.printed = disk.token]
    /\ UNCHANGED <<now, host, wanted, server, starts, commands, check, checks>>

\* Mutant of RemoveUnits: the files alone go.
RemoveUnitFiles ==
    /\ At("remove")
    /\ disk' = [disk EXCEPT !.units = {}]
    /\ Goto("delete")
    /\ UNCHANGED <<os, now, exe, tokens, wanted, server, starts, commands, check, checks>>

\* systemd is told to forget the units: it keeps nothing running after that, but
\* what runs, because restart-if-updated has started it again, goes on.
RemoveUnits ==
    /\ At("remove")
    /\ disk' = [disk EXCEPT !.units = {}]
    /\ wanted' = IF os = "Linux" THEN "none" ELSE wanted
    /\ Goto("delete")
    /\ UNCHANGED <<os, now, exe, tokens, server, starts, commands, check, checks>>

DeleteFiles ==
    /\ At("delete")
    /\ disk' = IF cmd.delete
               THEN [disk EXCEPT !.config = {}, !.token = Missing, !.legacyToken = Missing,
                                 !.helper = FALSE]
               ELSE [disk EXCEPT !.helper = FALSE]
    /\ Goto("done")
    /\ OnDisk /\ UNCHANGED tokens

CommandStep ==
    \/ StopService \/ CheckPort \/ EnsureToken \/ Truncate \/ WriteToken \/ WriteConfig
    \/ InstallService \/ CleanupLegacy \/ RestartService \/ PrintPairing
    \/ RemoveUnits \/ DeleteFiles

\* The command is interrupted, or what it calls fails, the notification agent's
\* part of setup among it.
Abort ==
    /\ ~Ended
    /\ Goto("failed")
    /\ UNCHANGED <<now, host, wanted, server, starts, commands, check, checks>>

------------------------------------------------------------------------------
(* restart-if-updated: time.Now, configuration, links, file, process number, ps. *)

Checking(pc) == check.pc = pc
CheckEnded(pc) == [NoCheck EXCEPT !.pc = pc]
Alone == UNCHANGED <<now, host, wanted, server, starts, cmd, commands>>

BeginCheck ==
    /\ check.pc \in {"idle", "current", "restarted", "unknown"} /\ checks < MaxChecks
    /\ checks' = checks + 1
    /\ check' = [NoCheck EXCEPT !.pc = "config", !.asked = now]
    /\ Alone

ReadConfig ==
    /\ Checking("config")
    /\ check' = IF disk.config = {} THEN CheckEnded("unknown") ELSE [check EXCEPT !.pc = "link"]
    /\ Alone /\ UNCHANGED checks

\* resolvedBinaryChangedAt: the latest of what the links and the file say
ReadLink ==
    /\ Checking("link")
    /\ check' = [check EXCEPT !.pc = "file", !.changed = exe.link]
    /\ Alone /\ UNCHANGED checks

\* Mutant of ReadFile: the file alone counts.
ReadFileAlone ==
    /\ Checking("file")
    /\ check' = [check EXCEPT !.pc = "pid", !.changed = exe.file]
    /\ Alone /\ UNCHANGED checks

ReadFile ==
    /\ Checking("file")
    /\ check' = [check EXCEPT !.pc = "pid", !.changed = IF exe.file > @ THEN exe.file ELSE @]
    /\ Alone /\ UNCHANGED checks

ReadPID ==
    /\ Checking("pid")
    /\ check' = IF server.unit = "current"
                THEN [check EXCEPT !.pc = "elapsed", !.pid = server.pid]
                ELSE CheckEnded("unknown")
    /\ Alone /\ UNCHANGED checks

\* ps counts whole seconds.
Elapsed == Second * ((now - server.started) \div Second)

\* Mutant of RestartRequired: without the tolerance.
RestartRequiredAtOnce == check.changed > check.asked - Elapsed

RestartRequired == check.changed > check.asked - Elapsed + Tolerance

ReadElapsed ==
    /\ Checking("elapsed")
    /\ check' = IF server.pid # check.pid THEN CheckEnded("unknown")
                ELSE IF RestartRequired THEN [NoCheck EXCEPT !.pc = "restart"]
                ELSE CheckEnded("current")
    /\ Alone /\ UNCHANGED checks

\* A reading fails, or takes longer than the command may.
ReadNothing ==
    /\ check.pc \in {"config", "link", "file", "pid", "elapsed"}
    /\ check' = CheckEnded("unknown")
    /\ Alone /\ UNCHANGED checks

\* systemctl starts a service that does not run; launchctl must have it loaded.
RestartUpdated ==
    /\ Checking("restart")
    /\ IF \/ os = "Linux" /\ "current" \in disk.units
          \/ os = "Darwin" /\ wanted = "current"
       THEN /\ Launch("current")
            /\ check' = CheckEnded("restarted")
            /\ cmd' = [cmd EXCEPT !.crossed = ~Ended]
       ELSE /\ check' = CheckEnded("unknown")
            /\ ServiceAlone /\ UNCHANGED cmd
    /\ UNCHANGED <<now, host, commands, checks>>

CheckStep ==
    \/ ReadConfig \/ ReadLink \/ ReadFile \/ ReadPID \/ ReadElapsed \/ ReadNothing
    \/ RestartUpdated

------------------------------------------------------------------------------
Next ==
    \/ Tick \/ Replace \/ Die \/ Respawn
    \/ \E rotate, start \in BOOLEAN : BeginSetup(rotate, start)
    \/ BeginRotation \/ BeginRestart \/ BeginStop
    \/ \E delete \in BOOLEAN : BeginUninstall(delete)
    \/ CommandStep \/ Abort
    \/ BeginCheck \/ CheckStep

Spec == Init /\ [][Next]_vars

------------------------------------------------------------------------------
(* Properties. *)

\* The pairing that a setup or a rotation prints in the end is one the server
\* accepts, if it runs, unless restart-if-updated restarted it in between
\* (README.md:34, setup.sh:1769-1775, 1334-1346).
PairingWorks ==
    At("done") /\ cmd.op \in {"setup", "rotate"} /\ ~cmd.crossed =>
        /\ cmd.printed > Empty
        /\ server # Off => server.token = cmd.printed

\* The token that apps are paired with is replaced by a rotation and deleted by
\* an uninstallation that is told to, and by nothing else: neither the move from
\* the legacy names nor a setup that was interrupted (README.md:34-37).
Usable == IF disk.token > Empty THEN disk.token ELSE disk.legacyToken
TokenIsKept ==
    [][Usable # Usable' => Usable <= Empty \/ cmd.rotate \/ cmd.delete]_vars

\* restart-if-updated interrupts a server only if its executable is not the one
\* that is configured by now, however the readings interleave with updates and
\* restarts, if they take no longer than the tolerance (update.go:43-47,
\* README.md:199-203).
OnlyOutdatedIsRestarted ==
    [][check.pc = "elapsed" /\ check'.pc = "restart" /\ now - check.asked <= Tolerance
         => server.image # exe.image]_vars

\* And it is not content with a server that started well before the executable
\* changed: three seconds, the tolerance and what ps cuts off, if the change is
\* dated at all (update.go:32-33, 101-105).
UpdatesAreNoticed ==
    [][check.pc = "elapsed" /\ check'.pc = "current" =>
          ~ /\ exe.changed \in {exe.file, exe.link}
            /\ exe.changed < check.asked
            /\ exe.changed >= server.started + Tolerance + Second]_vars
==============================================================================
