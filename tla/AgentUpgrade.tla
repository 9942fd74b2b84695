----------------------------- MODULE AgentUpgrade -----------------------------
(***************************************************************************)
(* How setup.sh replaces the notification agent: it keeps the installed    *)
(* binary, installs the new one, stages the enrollment, writes the service *)
(* definition, restarts the daemon when it is stale, and restores the old  *)
(* binary when anything fails before the end.  Meanwhile the service       *)
(* manager keeps a daemon running from whatever binary there is.  A setup  *)
(* may fail or be interrupted at a step, which runs its EXIT trap, or be   *)
(* killed, which does not, and may then be run again, with any release.    *)
(*                                                                         *)
(* Simplified here: a binary is named by its version; Codex hooks and the  *)
(* rest of setup.sh are left out, since they do not touch the agent; two   *)
(* setups do not run at the same time.                                     *)
(***************************************************************************)
EXTENDS Integers

CONSTANTS
    Versions,      \* releases of the agent
    Capabilities,  \* version -> what it announces of "herdr-v2" and "herdr-host-capture-v1"
    Reporting,     \* versions that know daemon-version
    FailingSteps,  \* steps that may fail or be interrupted
    MaxRuns        \* bound: runs of setup.sh

Steps == {"prepare", "backup", "install", "verify", "enroll", "service", "start", "herdr",
          "confirm", "finish"}
HostCapture == "herdr-host-capture-v1"

ASSUME CapabilitiesAssumption ==
    Capabilities \in [Versions -> SUBSET {"herdr-v2", HostCapture}]
ASSUME VersionsAssumption == Versions \cap {"none", "partial"} = {} /\ Reporting \subseteq Versions
ASSUME StepsAssumption == FailingSteps \subseteq Steps /\ MaxRuns \in Nat

VARIABLES
    binary,    \* the file AGENT_PATH
    live,      \* the version the running daemon was started from
    socket,    \* whether agent.sock is there; a daemon that died may have left it
    config,    \* whether the agent has a configuration
    service,   \* whether the service is defined
    setup      \* the shell that runs setup.sh

vars == <<binary, live, socket, config, service, setup>>

Files == Versions \cup {"none", "partial"}
Setup == [pc: Steps \cup {"off", "trap", "restarting", "failed", "killed", "done"},
          run: 0..MaxRuns, incoming: Versions \cup {"none"}, noStart: BOOLEAN,
          herdr: BOOLEAN, before: Files, backup: Files, restart: BOOLEAN,
          confirmed: BOOLEAN]
Fresh == [pc |-> "off", run |-> 0, incoming |-> "none", noStart |-> FALSE, herdr |-> FALSE,
          before |-> "none", backup |-> "none", restart |-> FALSE, confirmed |-> FALSE]

\* Every variable has its type, and a daemon that runs has its socket, its
\* service and a configuration (main.go:398-417 refuses to serve without one).
TypeOK ==
    /\ binary \in Files
    /\ live \in Versions \cup {"none"}
    /\ socket \in BOOLEAN /\ config \in BOOLEAN /\ service \in BOOLEAN
    /\ live # "none" => socket /\ service /\ config
    /\ setup \in Setup

\* Nothing is installed, or an agent is and its daemon runs, or does not.
Init ==
    /\ binary \in Versions \cup {"none"}
    /\ config = (binary # "none") /\ service = config
    /\ live \in {"none", binary} /\ socket = (live # "none")
    /\ setup = Fresh

------------------------------------------------------------------------------
(* The service manager and the daemon. *)

Respawn ==
    /\ service /\ config /\ live = "none" /\ binary \in Versions
    /\ live' = binary /\ socket' = TRUE
    /\ UNCHANGED <<binary, config, service, setup>>

\* A daemon that returns removes its socket; one that is killed does not.
DaemonDie ==
    /\ live # "none"
    /\ live' = "none" /\ socket' \in BOOLEAN
    /\ UNCHANGED <<binary, config, service, setup>>

\* Mutant of Restarted: the old daemon, when it ends, takes away the socket of
\* the new one.
RestartedWithoutSocket ==
    /\ live' = IF service /\ config /\ binary \in Versions THEN binary ELSE "none"
    /\ socket' = FALSE

\* What restarting the service does: the daemon is what the binary is.
Restarted ==
    /\ live' = IF service /\ config /\ binary \in Versions THEN binary ELSE "none"
    /\ socket' = (live' # "none" \/ socket)

------------------------------------------------------------------------------
(* setup.sh *)

At(step) == setup.pc = step
Goto(step) == setup' = [setup EXCEPT !.pc = step]
OnlySetup == UNCHANGED <<binary, live, socket, config, service>>

\* A run begins with the release it is to install.
Begin(incoming, noStart, herdr) ==
    /\ setup.pc \in {"off", "failed", "killed", "done"} /\ setup.run < MaxRuns
    /\ setup' = [Fresh EXCEPT !.pc = "prepare", !.run = setup.run + 1, !.incoming = incoming,
                              !.noStart = noStart, !.herdr = herdr, !.before = binary]
    /\ OnlySetup

\* What a binary announces; a damaged one announces nothing.
Announced(file) == IF file \in Versions THEN Capabilities[file] ELSE {}

\* An older agent is refused where a capability would be lost, or is needed.
Refused ==
    \/ setup.herdr /\ HostCapture \notin Announced(setup.incoming)
    \/ ~(Announced(binary) \subseteq Announced(setup.incoming))

Changed == binary # "none" /\ binary # setup.incoming

\* Mutant of RestartRequired: only a changed binary counts.
RestartIfChanged == Changed

\* The version of the daemon is asked with the installed binary; without an
\* answer a socket counts as an old daemon.
RestartRequired ==
    LET answers == binary \in Reporting /\ live \in Reporting
    IN  \/ Changed
        \/ answers /\ live # setup.incoming
        \/ ~answers /\ socket
        \/ setup.herdr /\ answers /\ HostCapture \notin Capabilities[live]

\* Mutant of Prepare: nothing is refused.
PrepareAny ==
    /\ At("prepare")
    /\ setup' = [setup EXCEPT !.restart = RestartRequired,
                              !.backup = IF Changed THEN "partial" ELSE "none",
                              !.pc = IF Changed THEN "backup" ELSE "install"]
    /\ OnlySetup

\* prepare_agent_upgrade, up to the copy of the old binary it starts.
Prepare ==
    /\ At("prepare") /\ ~Refused
    /\ setup' = [setup EXCEPT !.restart = RestartRequired,
                              !.backup = IF Changed THEN "partial" ELSE "none",
                              !.pc = IF Changed THEN "backup" ELSE "install"]
    /\ OnlySetup

Refuse ==
    /\ At("prepare") /\ Refused
    /\ Goto("trap")
    /\ OnlySetup

\* The copy ends.
Backup ==
    /\ At("backup")
    /\ setup' = [setup EXCEPT !.backup = binary, !.pc = "install"]
    /\ OnlySetup

\* Mutant of Install: the new binary is copied over the old one.
InstallInPlace ==
    /\ At("install")
    /\ binary' \in {"partial", setup.incoming}
    /\ setup' = IF binary' = "partial" THEN setup ELSE [setup EXCEPT !.pc = "verify"]
    /\ UNCHANGED <<live, socket, config, service>>

\* install_agent_binary: a complete copy is renamed into place ...
Install ==
    /\ At("install")
    /\ binary' = setup.incoming
    /\ Goto("verify")
    /\ UNCHANGED <<live, socket, config, service>>

\* ... and must tell its version.
Verify ==
    /\ At("verify")
    /\ Goto("enroll")
    /\ OnlySetup

Enroll ==
    /\ At("enroll")
    /\ config' = TRUE
    /\ Goto("service")
    /\ UNCHANGED <<binary, live, socket, service>>

DefineService ==
    /\ At("service")
    /\ service' = TRUE
    /\ Goto(IF setup.noStart THEN "confirm" ELSE "start")
    /\ UNCHANGED <<binary, live, socket, config>>

\* A daemon that runs and is not stale is left alone.
StartService ==
    /\ At("start")
    /\ IF setup.restart \/ live = "none" THEN Restarted ELSE UNCHANGED <<live, socket>>
    /\ Goto(IF setup.herdr THEN "herdr" ELSE "confirm")
    /\ UNCHANGED <<binary, config, service>>

\* Herdr is installed once the daemon announces that it can capture; a daemon
\* that does not within 4 seconds ends the setup.
Herdr ==
    /\ At("herdr")
    /\ IF HostCapture \in Announced(live) THEN Goto("confirm") ELSE Goto("trap")
    /\ OnlySetup

\* From here on nothing is restored ...
Confirm ==
    /\ At("confirm")
    /\ setup' = [setup EXCEPT !.confirmed = TRUE, !.pc = "finish"]
    /\ OnlySetup

\* ... while the last notices are printed.
Finish ==
    /\ At("finish")
    /\ Goto("done")
    /\ OnlySetup

Fail ==
    /\ setup.pc \in FailingSteps
    /\ Goto("trap")
    /\ OnlySetup

\* In the trap it is also a copy or a rename of the rollback that fails, after
\* which the trap does nothing more.
Kill ==
    /\ setup.pc \in Steps \cup {"trap", "restarting"}
    /\ Goto("killed")
    /\ OnlySetup

\* Mutant of Restore: a setup that failed leaves what it installed.
RestoreNothing ==
    /\ At("trap")
    /\ Goto("failed")
    /\ OnlySetup

\* finish_agent_setup, the trap: the file that was kept comes back, if there is
\* one and the setup was not confirmed.
Restore ==
    /\ At("trap")
    /\ IF ~setup.confirmed /\ setup.backup # "none"
       THEN binary' = setup.backup /\ Goto(IF setup.noStart THEN "failed" ELSE "restarting")
       ELSE binary' = binary /\ Goto("failed")
    /\ UNCHANGED <<live, socket, config, service>>

RestoreRestart ==
    /\ At("restarting")
    /\ IF service THEN Restarted ELSE UNCHANGED <<live, socket>>
    /\ Goto("failed")
    /\ UNCHANGED <<binary, config, service>>

SetupStep ==
    \/ Prepare \/ Refuse \/ Backup \/ Install \/ Verify \/ Enroll \/ DefineService
    \/ StartService \/ Herdr \/ Confirm \/ Finish \/ Restore \/ RestoreRestart

Next ==
    \/ \E incoming \in Versions, noStart, herdr \in BOOLEAN : Begin(incoming, noStart, herdr)
    \/ SetupStep \/ Fail \/ Kill
    \/ Respawn \/ DaemonDie

Spec == Init /\ [][Next]_vars

------------------------------------------------------------------------------
(* Properties. *)

\* The agent path never holds a part of a binary: the new one is renamed into
\* place (setup.sh:842-845), and so is the old one when it comes back (80-81).
BinaryIsWhole == binary # "partial"

\* A setup that fails before the end leaves the agent it found, and if it had
\* replaced it, unless told to start nothing, no daemon of the one it brought
\* (README.md:236-237, setup.sh:75-101).
FailureRestores ==
    At("failed") /\ ~setup.confirmed /\ setup.before # "none" =>
        /\ binary = setup.before
        /\ setup.backup # "none" /\ ~setup.noStart => live \in {"none", setup.before}

\* A setup that succeeds leaves the new agent, and no daemon of another one,
\* whatever earlier setups that failed or did not start it have left behind.
SuccessIsCurrent ==
    At("done") => /\ binary = setup.incoming
                  /\ ~setup.noStart => live \in {"none", setup.incoming}

\* Herdr support, once installed, is lost in no update; only the agent a setup
\* replaced comes back with less when that setup fails (setup.sh:868-885).
HerdrSupportStays ==
    [][binary' # binary /\ ~At("trap") =>
          Announced(binary) \subseteq Announced(binary')]_vars
==============================================================================
