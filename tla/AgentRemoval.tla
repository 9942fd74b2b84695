----------------------------- MODULE AgentRemoval -----------------------------
(***************************************************************************)
(* How "novascale-agent uninstall" takes the agent away: it stops the      *)
(* service, takes the agent's commands out of Codex's hooks and its plugin *)
(* out of Herdr, clears what was captured, deletes the identity when it is *)
(* told to purge, and deletes the executable last, so that a removal that  *)
(* failed can be run again.  Around it: setup.sh, which installs all of    *)
(* that again; the daemon, which captures while it runs and may have been  *)
(* started by hand; Codex's users, who edit the hooks file.                *)
(*                                                                         *)
(* Simplified here: one setup or removal runs at a time; a step that fails *)
(* and a process that is killed are the same, and leave the step undone;   *)
(* Herdr's own uninstall does not mind a plugin that is not linked;        *)
(* the backup of the hooks file, which nothing reads, is left out, and so  *)
(* is what a daemon the removal has not noticed writes to files that were  *)
(* deleted.  An edit of others is one step: an editor that read the hooks  *)
(* before a removal and writes them after it is not modelled.  The         *)
(* identity is the configuration and the key; versions are in              *)
(* AgentUpgrade.                                                           *)
(***************************************************************************)
EXTENDS HooksFile

CONSTANTS
    Mine,          \* the command of the agent's hook
    Theirs,        \* commands of others
    EditedEvents,  \* events whose hooks others edit
    MaxTheirs,     \* bound: handlers and groups of others, per event
    MaxSetups,     \* bound: runs of setup.sh
    MaxFailures    \* bound: steps that fail or are interrupted

ASSUME MineAssumption == Mine \notin Theirs
ASSUME EventsAssumption == EditedEvents \subseteq Events
ASSUME BoundsAssumption == MaxTheirs \in Nat /\ MaxSetups \in Nat /\ MaxFailures \in Nat

VARIABLES
    binary,     \* whether the executable is there
    identity,   \* whether the configuration and the key are
    service,    \* the service: "none", a "file", or "enabled"
    daemon,     \* "off", or who started it: the "service" manager or a user
    socket,     \* whether agent.sock is there
    hooks,      \* Codex's hooks file
    plugin,     \* the Herdr plugin: its manifest, and its link in Herdr's registry
    queue,      \* the database: whether it exists, has events, has the consent to capture
    proc,       \* the setup or removal that runs
    setups, failures  \* what has been spent of the bounds

vars == <<binary, identity, service, daemon, socket, hooks, plugin, queue, proc, setups, failures>>

Handlers == {Mine} \cup Theirs
Idle == [pc |-> "idle", purge |-> FALSE, herdr |-> FALSE, unseen |-> FALSE,
         loaded |-> Absent, next |-> Absent]

SetupSteps == {"setup", "identity", "install", "saveInstall", "define", "manifest", "link", "consent"}
BeforeCheck == {"stop", "check"}
AfterCheck == {"undefine", "hooks", "saveHooks", "withdraw", "unlink", "clear", "delete",
               "plugin", "socket", "state", "config", "binary"}
RemovalSteps == BeforeCheck \cup AfterCheck

Process == [pc: {"idle", "failed", "installed", "removed"} \cup SetupSteps \cup RemovalSteps,
            purge: BOOLEAN, herdr: BOOLEAN, unseen: BOOLEAN,
            loaded: File(Handlers), next: File(Handlers)]

TypeOK ==
    /\ binary \in BOOLEAN /\ identity \in BOOLEAN /\ socket \in BOOLEAN
    /\ service \in {"none", "file", "enabled"}
    /\ daemon \in {"off", "service", "manual"}
    /\ hooks \in File(Handlers)
    /\ plugin \in [manifest: BOOLEAN, linked: BOOLEAN]
    /\ queue \in [exists: BOOLEAN, events: BOOLEAN, consent: BOOLEAN]
    /\ queue.events \/ queue.consent => queue.exists
    /\ proc \in Process
    /\ setups \in 0..MaxSetups /\ failures \in 0..MaxFailures

\* Nothing of the agent is there; Codex may have hooks, or a file nobody can read.
NoQueue == [exists |-> FALSE, events |-> FALSE, consent |-> FALSE]
Init ==
    /\ binary = FALSE /\ identity = FALSE /\ service = "none"
    /\ daemon = "off" /\ socket = FALSE
    /\ \/ hooks \in {Absent, Broken}
       \/ \E h \in Theirs : hooks = Document([NoGroups EXCEPT !["Stop"] = <<NewGroup(h)>>])
    /\ plugin = [manifest |-> FALSE, linked |-> FALSE]
    /\ queue = NoQueue
    /\ proc = Idle
    /\ setups = 0 /\ failures = 0

------------------------------------------------------------------------------
(* The daemon, and others. *)

CanServe == binary /\ identity /\ daemon = "off"

Serve(who) ==
    /\ daemon' = who /\ socket' = TRUE
    /\ queue' = [queue EXCEPT !.exists = TRUE]

Respawn ==
    /\ service = "enabled" /\ CanServe
    /\ Serve("service")
    /\ UNCHANGED <<binary, identity, service, hooks, plugin, proc, setups, failures>>

\* A user runs "serve", while a removal runs or not.
ServeByHand ==
    /\ CanServe
    /\ Serve("manual")
    /\ proc' = [proc EXCEPT !.unseen = @ \/ proc.pc \in AfterCheck]
    /\ UNCHANGED <<binary, identity, service, hooks, plugin, setups, failures>>

\* The daemon ends, or dies and leaves its socket.
DaemonEnd ==
    /\ daemon # "off"
    /\ daemon' = "off" /\ socket' \in {socket, FALSE}
    /\ UNCHANGED <<binary, identity, service, hooks, plugin, queue, proc, setups, failures>>

\* Mutant of Captured: it goes into a database that is not there any more.
CapturedAnywhere ==
    /\ daemon # "off"
    /\ queue.consent \/ \E e \in Events : ContainsCommand(hooks.groups[e], Mine)
    /\ queue' = [queue EXCEPT !.events = TRUE]
    /\ UNCHANGED <<binary, identity, service, daemon, socket, hooks, plugin, proc, setups, failures>>

\* An event of Codex or Herdr reaches the daemon.
Captured ==
    /\ daemon # "off" /\ queue.exists
    /\ queue.consent \/ \E e \in Events : ContainsCommand(hooks.groups[e], Mine)
    /\ queue' = [queue EXCEPT !.events = TRUE]
    /\ UNCHANGED <<binary, identity, service, daemon, socket, hooks, plugin, proc, setups, failures>>

\* The upload worker empties the queue.
Uploaded ==
    /\ daemon # "off"
    /\ queue' = [queue EXCEPT !.events = FALSE]
    /\ UNCHANGED <<binary, identity, service, daemon, socket, hooks, plugin, proc, setups, failures>>

\* Others add a handler, in a group of their own or in one that is there, or
\* a group that is not ok, which they may take out again.
Edit(e, h) ==
    /\ hooks.kind # "broken"
    /\ LET groups == hooks.groups[e]
           foreign == Cardinality(OthersAt(groups, Mine))
           edited == {Append(groups, NewGroup(h)), Append(groups, Malformed)}
                     \cup {[groups EXCEPT ![i].handlers = <<h>> \o @] : i \in DOMAIN groups}
           wellFormed == Chosen(groups, {i \in DOMAIN groups : groups[i].ok})
       IN  \/ /\ foreign < MaxTheirs /\ wellFormed = groups
              /\ \E new \in edited : hooks' = Document([hooks.groups EXCEPT ![e] = new])
           \/ /\ wellFormed # groups
              /\ hooks' = Document([hooks.groups EXCEPT ![e] = wellFormed])
    /\ UNCHANGED <<binary, identity, service, daemon, socket, plugin, queue, proc, setups, failures>>

------------------------------------------------------------------------------
(* setup.sh: see AgentUpgrade for how it replaces the executable. *)

At(pc) == proc.pc = pc
Goto(pc) == proc' = [proc EXCEPT !.pc = pc]
Ended == proc.pc \in {"idle", "failed", "installed", "removed"}

BeginSetup(herdr) ==
    /\ Ended /\ setups < MaxSetups
    /\ setups' = setups + 1
    /\ proc' = [Idle EXCEPT !.pc = "setup", !.herdr = herdr]
    /\ UNCHANGED <<binary, identity, service, daemon, socket, hooks, plugin, queue, failures>>

SetupBinary ==
    /\ At("setup") /\ binary' = TRUE /\ Goto("identity")
    /\ UNCHANGED <<identity, service, daemon, socket, hooks, plugin, queue, setups, failures>>

SetupIdentity ==
    /\ At("identity") /\ identity' = TRUE
    /\ Goto(IF proc.herdr THEN "define" ELSE "install")
    /\ UNCHANGED <<binary, service, daemon, socket, hooks, plugin, queue, setups, failures>>

\* hookconfig.Install reads the file ...
LoadInstall ==
    /\ At("install")
    /\ proc' = IF hooks.kind = "broken" THEN [proc EXCEPT !.pc = "failed"]
               ELSE IF \A e \in Events : ContainsCommand(hooks.groups[e], Mine)
               THEN [proc EXCEPT !.pc = "define"]
               ELSE [proc EXCEPT !.pc = "saveInstall", !.loaded = hooks,
                                 !.next = Install(hooks, Mine)]
    /\ UNCHANGED <<binary, identity, service, daemon, socket, hooks, plugin, queue, setups, failures>>

\* ... and renames the new one over whatever it is by then.
Save(at, pc) ==
    /\ At(at)
    /\ hooks' = proc.next
    /\ proc' = [proc EXCEPT !.pc = pc, !.loaded = Absent, !.next = Absent]
    /\ UNCHANGED <<binary, identity, service, daemon, socket, plugin, queue, setups, failures>>

SaveInstall == Save("saveInstall", "define")

\* The service is defined and enabled; or, told not to, not started, and then
\* Herdr is left for later.
Define ==
    /\ At("define")
    /\ \/ service' = "enabled" /\ Goto(IF proc.herdr THEN "manifest" ELSE "installed")
       \/ service' = (IF service = "none" THEN "file" ELSE service) /\ Goto("installed")
    /\ UNCHANGED <<binary, identity, daemon, socket, hooks, plugin, queue, setups, failures>>

\* "herdr install" asks the daemon first.
HerdrManifest ==
    /\ At("manifest")
    /\ IF daemon # "off" /\ socket
       THEN plugin' = [plugin EXCEPT !.manifest = TRUE] /\ Goto("link")
       ELSE plugin' = plugin /\ Goto("failed")
    /\ UNCHANGED <<binary, identity, service, daemon, socket, hooks, queue, setups, failures>>

HerdrLink ==
    /\ At("link")
    /\ plugin' = [plugin EXCEPT !.linked = TRUE]
    /\ queue' = [queue EXCEPT !.exists = TRUE]
    /\ Goto("consent")
    /\ UNCHANGED <<binary, identity, service, daemon, socket, hooks, setups, failures>>

HerdrConsent ==
    /\ At("consent")
    /\ queue' = [queue EXCEPT !.consent = TRUE]
    /\ Goto("installed")
    /\ UNCHANGED <<binary, identity, service, daemon, socket, hooks, plugin, setups, failures>>

SetupStep ==
    \/ SetupBinary \/ SetupIdentity \/ LoadInstall \/ SaveInstall \/ Define
    \/ HerdrManifest \/ HerdrLink \/ HerdrConsent

------------------------------------------------------------------------------
(* uninstallAgent *)

BeginRemoval(purge) ==
    /\ Ended /\ binary
    /\ proc' = [Idle EXCEPT !.pc = "stop", !.purge = purge]
    /\ UNCHANGED <<binary, identity, service, daemon, socket, hooks, plugin, queue, setups, failures>>

\* A service the manager knows is stopped, which it may have promised only; one
\* it does not know is left alone.
StopService ==
    /\ At("stop")
    /\ service' = IF service = "enabled" THEN "file" ELSE service
    /\ IF service # "none" /\ daemon = "service"
       THEN daemon' \in {"off", "service"} /\ socket' \in {socket, daemon' # "off"}
       ELSE UNCHANGED <<daemon, socket>>
    /\ Goto("check")
    /\ UNCHANGED <<binary, identity, hooks, plugin, queue, setups, failures>>

\* Mutant of CheckDaemon: the service manager is believed.
CheckNothing ==
    /\ At("check")
    /\ Goto("undefine")
    /\ UNCHANGED <<binary, identity, service, daemon, socket, hooks, plugin, queue, setups, failures>>

\* A daemon that answers on its socket ends the removal.  One that has no socket
\* any more, or does not answer within a second, is not noticed.
CheckDaemon ==
    /\ At("check")
    /\ \/ daemon # "off" /\ socket /\ Goto("failed")
       \/ proc' = [proc EXCEPT !.pc = "undefine", !.unseen = daemon # "off"]
    /\ UNCHANGED <<binary, identity, service, daemon, socket, hooks, plugin, queue, setups, failures>>

Undefine ==
    /\ At("undefine") /\ service' = "none" /\ Goto("hooks")
    /\ UNCHANGED <<binary, identity, daemon, socket, hooks, plugin, queue, setups, failures>>

\* hookconfig.Uninstall reads the file; the plugin is next, if it has a manifest.
AfterHooks == IF plugin.manifest THEN "withdraw" ELSE "clear"

\* Mutant of LoadHooks: a file that cannot be cleaned is left as it is.
LoadHooksAnyway ==
    /\ At("hooks")
    /\ proc' = IF ~Removable(hooks) \/ Uninstall(hooks, Mine) = hooks
               THEN [proc EXCEPT !.pc = AfterHooks]
               ELSE [proc EXCEPT !.pc = "saveHooks", !.loaded = hooks,
                                 !.next = Uninstall(hooks, Mine)]
    /\ UNCHANGED <<binary, identity, service, daemon, socket, hooks, plugin, queue, setups, failures>>

\* Mutant of LoadHooks: hooks that are not there any more are an error.
LoadHooksOnce ==
    /\ At("hooks")
    /\ proc' = IF ~Removable(hooks) \/ Uninstall(hooks, Mine) = hooks
               THEN [proc EXCEPT !.pc = "failed"]
               ELSE [proc EXCEPT !.pc = "saveHooks", !.loaded = hooks,
                                 !.next = Uninstall(hooks, Mine)]
    /\ UNCHANGED <<binary, identity, service, daemon, socket, hooks, plugin, queue, setups, failures>>

LoadHooks ==
    /\ At("hooks")
    /\ proc' = IF ~Removable(hooks) THEN [proc EXCEPT !.pc = "failed"]
               ELSE IF Uninstall(hooks, Mine) = hooks THEN [proc EXCEPT !.pc = AfterHooks]
               ELSE [proc EXCEPT !.pc = "saveHooks", !.loaded = hooks,
                                 !.next = Uninstall(hooks, Mine)]
    /\ UNCHANGED <<binary, identity, service, daemon, socket, hooks, plugin, queue, setups, failures>>

SaveHooks == Save("saveHooks", AfterHooks)

\* UninstallHerdr: SetHerdrCaptureEnabled(false), which discards Herdr's events,
\* and then Herdr's own command.
Withdraw ==
    /\ At("withdraw")
    /\ \E events \in {queue.events, FALSE} :
          queue' = [exists |-> TRUE, events |-> events, consent |-> FALSE]
    /\ Goto("unlink")
    /\ UNCHANGED <<binary, identity, service, daemon, socket, hooks, plugin, setups, failures>>

Unlink ==
    /\ At("unlink")
    /\ plugin' = [plugin EXCEPT !.linked = FALSE]
    /\ Goto("clear")
    /\ UNCHANGED <<binary, identity, service, daemon, socket, hooks, queue, setups, failures>>

\* ClearNotificationCapture: the consent in one transaction ...
ClearConsent ==
    /\ At("clear")
    /\ queue' = [queue EXCEPT !.consent = FALSE]
    /\ Goto(IF queue.exists THEN "delete" ELSE "plugin")
    /\ UNCHANGED <<binary, identity, service, daemon, socket, hooks, plugin, setups, failures>>

\* ... and all events in the next.
DeleteEvents ==
    /\ At("delete")
    /\ queue' = [queue EXCEPT !.events = FALSE]
    /\ Goto("plugin")
    /\ UNCHANGED <<binary, identity, service, daemon, socket, hooks, plugin, setups, failures>>

DeletePlugin ==
    /\ At("plugin")
    /\ plugin' = [plugin EXCEPT !.manifest = FALSE]
    /\ Goto("socket")
    /\ UNCHANGED <<binary, identity, service, daemon, socket, hooks, queue, setups, failures>>

DeleteSocket ==
    /\ At("socket")
    /\ socket' = FALSE
    /\ Goto(IF proc.purge THEN "state" ELSE "binary")
    /\ UNCHANGED <<binary, identity, service, daemon, hooks, plugin, queue, setups, failures>>

PurgeState ==
    /\ At("state")
    /\ queue' = NoQueue /\ socket' = FALSE
    /\ Goto("config")
    /\ UNCHANGED <<binary, identity, service, daemon, hooks, plugin, setups, failures>>

PurgeConfig ==
    /\ At("config")
    /\ identity' = FALSE /\ plugin' = [plugin EXCEPT !.manifest = FALSE]
    /\ Goto("binary")
    /\ UNCHANGED <<binary, service, daemon, socket, hooks, queue, setups, failures>>

DeleteBinary ==
    /\ At("binary")
    /\ binary' = FALSE
    /\ Goto("removed")
    /\ UNCHANGED <<identity, service, daemon, socket, hooks, plugin, queue, setups, failures>>

RemovalStep ==
    \/ StopService \/ CheckDaemon \/ Undefine \/ LoadHooks \/ SaveHooks \/ Withdraw \/ Unlink
    \/ ClearConsent \/ DeleteEvents \/ DeletePlugin \/ DeleteSocket
    \/ PurgeState \/ PurgeConfig \/ DeleteBinary

\* A step fails, or the process is killed before it.
Abort ==
    /\ ~Ended /\ failures < MaxFailures
    /\ failures' = failures + 1
    /\ Goto("failed")
    /\ UNCHANGED <<binary, identity, service, daemon, socket, hooks, plugin, queue, setups>>

------------------------------------------------------------------------------
Next ==
    \/ Respawn \/ ServeByHand \/ DaemonEnd \/ Captured \/ Uploaded
    \/ \E e \in EditedEvents, h \in Theirs : Edit(e, h)
    \/ \E herdr \in BOOLEAN : BeginSetup(herdr)
    \/ \E purge \in BOOLEAN : BeginRemoval(purge)
    \/ SetupStep \/ RemovalStep \/ Abort

Spec == Init /\ [][Next]_vars

\* A setup and a removal go on, a removal that failed is run again, and a daemon
\* that was told to end does.
Fairness ==
    /\ WF_vars(SetupStep) /\ WF_vars(RemovalStep)
    /\ WF_vars(\E purge \in BOOLEAN : BeginRemoval(purge))
    /\ WF_vars(DaemonEnd /\ service # "enabled" /\ daemon = "service")

FairSpec == Spec /\ Fairness

------------------------------------------------------------------------------
(* Properties. *)

\* The executable goes last: once it is not there, no hook runs it, Herdr has
\* no plugin that does, and no service is left to start it, wherever earlier
\* removals have failed (notifications/README.md:119, uninstall.go:91-136).
NothingRunsAMissingAgent ==
    ~binary => /\ \A e \in Events : ~ContainsCommand(hooks.groups[e], Mine)
               /\ ~plugin.linked
               /\ service = "none"

\* Hooks of others stay, and in their order: an edit that was made before the
\* file was read is never lost (uninstall.go:57, hooks.go:73-101).
OtherHooksStay ==
    [][hooks' # hooks /\ proc' # proc /\ hooks = proc.loaded =>
          \A e \in Events : SameOthers(hooks.groups[e], hooks'.groups[e], Mine)]_vars

\* A removal that has ended leaves nothing captured and no consent, and none
\* comes back, unless a daemon runs that it has not noticed; purged, it leaves
\* neither the identity nor a database (notifications/README.md:115-119).
RemovalIsClean ==
    At("removed") /\ ~proc.unseen =>
        /\ daemon = "off" /\ ~queue.events /\ ~queue.consent
        /\ proc.purge => ~identity /\ ~queue.exists /\ ~plugin.manifest

\* A removal that is run again ends in the end, wherever it failed before, if
\* the hooks file can be cleaned and no daemon is started by hand for good.
RemovalEnds == <>[](Removable(hooks) /\ daemon # "manual") => <>[]~binary
==============================================================================
