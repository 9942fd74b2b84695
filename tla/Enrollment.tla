------------------------------ MODULE Enrollment ------------------------------
(***************************************************************************)
(* The identity of the host and its registration with a backend: the       *)
(* commands init and switch-backend, which stage a registration in the     *)
(* configuration file, and the daemon's enrollment loop, which carries it  *)
(* out and records the outcome.  They run in different processes, share    *)
(* the configuration, the key and the token of an old setup as files, and  *)
(* serialize with an flock, which a process that dies gives up.            *)
(*                                                                         *)
(* Simplified here: the two signed requests of one attempt (a token, and   *)
(* the registration with it) are one exchange; a configuration read with   *)
(* the lock held is read and applied in one step; the delays between two   *)
(* rounds of the loop are left out, and so is the queue, whose part of a   *)
(* refresh is in QueueDelivery.                                            *)
(***************************************************************************)
EXTENDS Integers

CONSTANTS
    Commands,      \* runs of init and switch-backend, one each
    Operations,    \* command -> which of the two it may be
    Endpoints,
    OldStates      \* registration states an installed agent may be found in

RegistrationStates == {"pending", "active", "needs_setup_token", "identity_conflict"}

ASSUME OldStatesAssumption == OldStates \subseteq RegistrationStates
ASSUME OperationsAssumption == Operations \in [Commands -> SUBSET {"init", "switch"}]
ASSUME EndpointsAssumption == "none" \notin Endpoints
ASSUME CommandsAssumption == Commands \cap {"none", "old", "partial", "free", "daemon"} = {}

VARIABLES
    disk,          \* the configuration file
    key,           \* the private key file, named for the host it belongs to
    token,         \* whether the setup token of an old agent is still there
    lock,          \* the enrollment lock
    daemon,        \* the daemon's enrollment loop
    cmd,           \* the commands
    accepted       \* history: endpoints that accepted a registration since the
                   \* last command staged one there

vars == <<disk, key, token, lock, daemon, cmd, accepted>>

\* A host is named for the command that created it.
Hosts == Commands \cup {"old"}
Config == [host: Hosts, endpoint: Endpoints, state: RegistrationStates]
NoConfig == [host |-> "none", endpoint |-> "none", state |-> "none"]

Off == [pc |-> "off", config |-> NoConfig, read |-> NoConfig, key |-> "none",
        refresh |-> TRUE, why |-> "none", result |-> "none"]
Ready == [pc |-> "ready", op |-> "none", endpoint |-> "none", force |-> FALSE, next |-> NoConfig]

Daemon == [pc: {"off", "boot", "top", "read", "dispatch", "lock", "locked", "exchange",
                "save", "migrated", "tidy"},
           config: Config \cup {NoConfig}, read: Config \cup {NoConfig},
           key: Hosts \cup {"none", "partial"}, refresh: BOOLEAN,
           why: {"none", "discard", "renew", "enroll"},
           result: {"none", "active", "identity_conflict"}]
Command == [pc: {"ready", "load", "key", "save", "tidy", "done"}, op: {"none", "init", "switch"},
            endpoint: Endpoints \cup {"none"}, force: BOOLEAN, next: Config \cup {NoConfig}]

TypeOK ==
    /\ disk \in Config \cup {NoConfig}
    /\ key \in Hosts \cup {"none", "partial"}
    /\ token \in BOOLEAN
    /\ lock \in Commands \cup {"free", "daemon"}
    /\ daemon \in Daemon
    /\ cmd \in [Commands -> Command]
    /\ accepted \subseteq Endpoints

\* A new machine, or an agent in any state it can have been left in.
Init ==
    /\ \/ disk = NoConfig /\ key = "none" /\ token \in BOOLEAN /\ accepted = {}
       \/ /\ disk \in [host: {"old"}, endpoint: Endpoints, state: OldStates]
          /\ key = "old" /\ token \in BOOLEAN
          /\ accepted = IF disk.state = "active" THEN {disk.endpoint} ELSE {}
    /\ lock = "free"
    /\ daemon = Off
    /\ cmd = [c \in Commands |-> Ready]

------------------------------------------------------------------------------
(* The commands.  Both hold the lock from before they read the             *)
(* configuration until they end.                                           *)

Goto(c, pc) == cmd' = [cmd EXCEPT ![c].pc = pc]
End(c) == Goto(c, "done") /\ lock' = "free"

CmdLock(c, op, endpoint, force) ==
    /\ cmd[c].pc = "ready" /\ lock = "free"
    /\ op \in Operations[c]
    /\ op = "init" => ~force
    /\ op = "switch" => endpoint # "none"
    /\ lock' = c
    /\ cmd' = [cmd EXCEPT ![c] = [Ready EXCEPT !.pc = "load", !.op = op,
                                               !.endpoint = endpoint, !.force = force]]
    /\ UNCHANGED <<disk, key, token, daemon, accepted>>

Stage(c, config) == cmd' = [cmd EXCEPT ![c].pc = "save", ![c].next = config]

\* Mutant of InitLoad: it does not look for an identity.
InitLoadNew(c) ==
    /\ cmd[c].pc = "load" /\ cmd[c].op = "init"
    /\ \/ cmd[c].endpoint = "none" /\ End(c)
       \/ cmd[c].endpoint # "none" /\ Goto(c, "key") /\ lock' = lock
    /\ UNCHANGED <<disk, key, token, daemon, accepted>>

\* Mutant of InitLoad: a new identity needs no endpoint.
InitLoadUnset(c) ==
    /\ cmd[c].pc = "load" /\ cmd[c].op = "init"
    /\ disk = NoConfig /\ Goto(c, "key")
    /\ UNCHANGED <<disk, key, token, lock, daemon, accepted>>

\* init creates an identity, or keeps the one there is: an active registration
\* as it is, any other one staged, with the prerelease state made "pending".
InitLoad(c) ==
    /\ cmd[c].pc = "load" /\ cmd[c].op = "init"
    /\ \/ disk = NoConfig /\ cmd[c].endpoint = "none" /\ End(c)
       \/ disk = NoConfig /\ cmd[c].endpoint # "none" /\ Goto(c, "key") /\ lock' = lock
       \/ /\ disk # NoConfig
          /\ \/ key \notin Hosts \/ cmd[c].endpoint \notin {"none", disk.endpoint}
          /\ End(c)
       \/ /\ disk # NoConfig /\ key \in Hosts /\ cmd[c].endpoint \in {"none", disk.endpoint}
          /\ \/ disk.state = "active" /\ Goto(c, "tidy")
             \/ disk.state = "needs_setup_token" /\ Stage(c, [disk EXCEPT !.state = "pending"])
             \/ disk.state \in {"pending", "identity_conflict"} /\ Stage(c, disk)
          /\ lock' = lock
    /\ UNCHANGED <<disk, key, token, daemon, accepted>>

\* The key is written first, and the configuration that names its host later.
InitKey(c) ==
    /\ cmd[c].pc = "key"
    /\ key' = c
    /\ Stage(c, [host |-> c, endpoint |-> cmd[c].endpoint, state |-> "pending"])
    /\ UNCHANGED <<disk, token, lock, daemon, accepted>>

\* switch-backend stages a registration with the endpoint, unless it is the
\* active one and nobody forces it.
SwitchLoad(c) ==
    /\ cmd[c].pc = "load" /\ cmd[c].op = "switch"
    /\ LET same == disk.state = "active" /\ disk.endpoint = cmd[c].endpoint
       IN  IF disk = NoConfig \/ key \notin Hosts \/ (same /\ ~cmd[c].force)
           THEN End(c)
           ELSE /\ Stage(c, [disk EXCEPT !.endpoint = cmd[c].endpoint, !.state = "pending"])
                /\ lock' = lock
    /\ UNCHANGED <<disk, key, token, daemon, accepted>>

CmdSave(c) ==
    /\ cmd[c].pc = "save"
    /\ disk' = cmd[c].next
    /\ accepted' = accepted \ {cmd[c].next.endpoint}
    /\ Goto(c, "tidy")
    /\ UNCHANGED <<key, token, lock, daemon>>

CmdTidy(c) ==
    /\ cmd[c].pc = "tidy"
    /\ token' = FALSE
    /\ End(c)
    /\ UNCHANGED <<disk, key, daemon, accepted>>

\* A command that is killed or fails leaves what it has written, which may be a
\* part of the key.  The configuration is renamed into place.
CmdDie(c) ==
    /\ cmd[c].pc \notin {"ready", "done"}
    /\ key' \in IF cmd[c].pc = "key" THEN {key, "partial"} ELSE {key}
    /\ End(c)
    /\ UNCHANGED <<disk, token, daemon, accepted>>

CmdStep(c) == InitLoad(c) \/ InitKey(c) \/ SwitchLoad(c) \/ CmdSave(c) \/ CmdTidy(c)

------------------------------------------------------------------------------
(* The daemon. *)

At(pc) == daemon.pc = pc
OnlyDaemon == UNCHANGED <<disk, key, token, lock, cmd, accepted>>

\* serve loads the configuration and then the key, without the lock.
Start ==
    /\ At("off") /\ disk # NoConfig
    /\ daemon' = [Off EXCEPT !.pc = "boot", !.config = disk]
    /\ OnlyDaemon

Boot ==
    /\ At("boot")
    /\ daemon' = IF key \in Hosts THEN [daemon EXCEPT !.pc = "top", !.key = key] ELSE Off
    /\ OnlyDaemon

DaemonDie ==
    /\ ~At("off")
    /\ daemon' = Off
    /\ lock' = IF lock = "daemon" THEN "free" ELSE lock
    /\ UNCHANGED <<disk, key, token, cmd, accepted>>

\* A round of the loop reads the configuration without the lock ...
Read ==
    /\ At("top") /\ disk # NoConfig
    /\ daemon' = [daemon EXCEPT !.pc = "read", !.read = disk]
    /\ OnlyDaemon

\* ... and makes it its own, unless the host is another one or the queue fails.
Refresh ==
    /\ At("read") /\ daemon.read.host = daemon.config.host
    /\ daemon' = [daemon EXCEPT !.pc = "dispatch", !.config = daemon.read, !.read = NoConfig]
    /\ OnlyDaemon

RefreshFails ==
    /\ At("read")
    /\ daemon' = [daemon EXCEPT !.pc = "top", !.read = NoConfig]
    /\ OnlyDaemon

Want(why) == daemon' = [daemon EXCEPT !.pc = "lock", !.why = why]
EndRound(refresh) ==
    daemon' = [daemon EXCEPT !.pc = "top", !.why = "none", !.result = "none", !.refresh = refresh]

\* Mutant of Dispatch: a conflict is left alone, the token with it.
DispatchKeeps ==
    /\ At("dispatch")
    /\ \/ daemon.config.state = "active" /\ Want("discard")
       \/ daemon.config.state = "identity_conflict" /\ EndRound(daemon.refresh)
       \/ daemon.config.state = "pending" /\ Want("enroll")
    /\ OnlyDaemon

\* A settled registration discards the old token first; a pending one attempts.
Dispatch ==
    /\ At("dispatch")
    /\ \/ daemon.config.state \in {"active", "identity_conflict"} /\ Want("discard")
       \/ daemon.config.state = "pending" /\ Want("enroll")
    /\ OnlyDaemon

\* The prerelease state is migrated in a save of the daemon's configuration,
\* for which it takes no lock.
Migrate ==
    /\ At("dispatch") /\ daemon.config.state = "needs_setup_token"
    /\ daemon' = [daemon EXCEPT !.pc = "migrated", !.config.state = "pending"]
    /\ disk' = daemon'.config
    /\ UNCHANGED <<key, token, lock, cmd, accepted>>

MigrateFails ==
    /\ At("dispatch") /\ daemon.config.state = "needs_setup_token"
    /\ EndRound(daemon.refresh)
    /\ OnlyDaemon

MigrateTidy ==
    /\ At("migrated")
    /\ token' = FALSE
    /\ EndRound(daemon.refresh)
    /\ UNCHANGED <<disk, key, lock, cmd, accepted>>

Acquire ==
    /\ At("lock") /\ lock = "free"
    /\ lock' = "daemon"
    /\ daemon' = [daemon EXCEPT !.pc = "locked"]
    /\ UNCHANGED <<disk, key, token, cmd, accepted>>

Release == lock' = "free"

\* Mutant of LockedRefresh: the configuration read before the lock is used.
LockedStale ==
    /\ At("locked") /\ disk.host = daemon.config.host
    /\ daemon' = [daemon EXCEPT !.pc = "exchange"]
    /\ UNCHANGED <<disk, key, token, lock, cmd, accepted>>

\* Under the lock the configuration is read again.  An attempt goes on with what
\* it says now, in whatever state; the discard of a token only in the same one.
LockedRefresh ==
    /\ At("locked") /\ disk.host = daemon.config.host
    /\ LET same == disk.state = daemon.config.state
       IN  \/ /\ daemon.why # "discard"
              /\ daemon' = [daemon EXCEPT !.pc = "exchange", !.config = disk]
              /\ UNCHANGED <<token, lock>>
           \/ /\ daemon.why = "discard"
              /\ token' = IF same THEN FALSE ELSE token
              /\ Release
              /\ daemon' = IF daemon.config.state = "active" /\ daemon.refresh
                           THEN [daemon EXCEPT !.pc = "lock", !.why = "renew", !.config = disk]
                           ELSE [daemon EXCEPT !.pc = "top", !.why = "none", !.config = disk]
    /\ UNCHANGED <<disk, key, cmd, accepted>>

\* Mutant of LockedFails: the lock is not given back on that path.
LockedFailsHolds ==
    /\ At("locked")
    /\ IF daemon.why = "discard" /\ daemon.config.state = "active" /\ daemon.refresh
       THEN Want("renew") ELSE EndRound(daemon.refresh)
    /\ OnlyDaemon

\* That refresh fails: nothing is attempted, or discarded, in this round.
LockedFails ==
    /\ At("locked")
    /\ IF daemon.why = "discard" /\ daemon.config.state = "active" /\ daemon.refresh
       THEN Want("renew") ELSE EndRound(daemon.refresh)
    /\ Release
    /\ UNCHANGED <<disk, key, token, cmd, accepted>>

\* The backend accepts the registration, or has the identity already for another
\* key, or anything else happens, perhaps after it accepted.
Accept ==
    /\ At("exchange")
    /\ accepted' = accepted \cup {daemon.config.endpoint}
    /\ daemon' = [daemon EXCEPT !.pc = "save", !.result = "active"]
    /\ UNCHANGED <<disk, key, token, lock, cmd>>

Conflict ==
    /\ At("exchange")
    /\ daemon' = [daemon EXCEPT !.pc = "save", !.result = "identity_conflict"]
    /\ OnlyDaemon

ExchangeFails ==
    /\ At("exchange")
    /\ accepted' \in {accepted, accepted \cup {daemon.config.endpoint}}
    /\ EndRound(daemon.refresh)
    /\ Release
    /\ UNCHANGED <<disk, key, token, cmd>>

\* Mutant of SaveResult: the answer is saved once the lock has been released.
SaveUnlocked ==
    \/ /\ At("save") /\ lock = "daemon"
       /\ Release /\ UNCHANGED <<disk, key, token, daemon, cmd, accepted>>
    \/ /\ At("save") /\ lock # "daemon"
       /\ daemon' = [daemon EXCEPT !.pc = "tidy", !.config.state = daemon.result]
       /\ disk' = daemon'.config
       /\ UNCHANGED <<key, token, lock, cmd, accepted>>

\* saveRegistrationState with the answer.
SaveResult ==
    /\ At("save")
    /\ daemon' = [daemon EXCEPT !.pc = "tidy", !.config.state = daemon.result]
    /\ disk' = daemon'.config
    /\ UNCHANGED <<key, token, lock, cmd, accepted>>

SaveFails ==
    /\ At("save")
    /\ EndRound(daemon.refresh)
    /\ Release
    /\ UNCHANGED <<disk, key, token, cmd, accepted>>

\* The end of an attempt.  A conflict met by a pending registration leaves the
\* flag that asks for a renewal of an active one as it was.
Tidy ==
    /\ At("tidy")
    /\ token' = FALSE
    /\ EndRound(daemon.refresh /\ daemon.why = "enroll" /\ daemon.result # "active")
    /\ Release
    /\ UNCHANGED <<disk, key, cmd, accepted>>

DaemonStep ==
    \/ Start \/ Boot \/ Read \/ Refresh \/ RefreshFails
    \/ Dispatch \/ Migrate \/ MigrateFails \/ MigrateTidy
    \/ Acquire \/ LockedRefresh \/ LockedFails
    \/ Accept \/ Conflict \/ ExchangeFails
    \/ SaveResult \/ SaveFails \/ Tidy

Next ==
    \/ \E c \in Commands :
          \/ CmdStep(c) \/ CmdDie(c)
          \/ \E op \in {"init", "switch"}, endpoint \in Endpoints \cup {"none"},
                force \in BOOLEAN : CmdLock(c, op, endpoint, force)
    \/ DaemonStep \/ DaemonDie

Spec == Init /\ [][Next]_vars

\* A command that holds the lock goes on and so does the loop; the service
\* manager starts the daemon; a local failure, or one of the backend, that
\* could be overcome again and again is overcome once.
Fairness ==
    /\ \A c \in Commands : WF_vars(CmdStep(c))
    /\ WF_vars(DaemonStep)
    /\ SF_vars(Refresh) /\ SF_vars(Migrate) /\ SF_vars(Acquire) /\ SF_vars(LockedRefresh)
    /\ SF_vars(Accept \/ Conflict) /\ SF_vars(SaveResult)

FairSpec == Spec /\ Fairness

------------------------------------------------------------------------------
(* Properties. *)

\* An active registration is one its backend accepted after the last command
\* staged it: an answer to an attempt that was under way when switch-backend
\* --force asked for another is not taken for the answer to that.
ActiveWasAccepted ==
    disk.state = "active" => disk.endpoint \in accepted

\* Under the lock the daemon records outcomes and never undoes a switch: it
\* keeps the endpoint and the host it finds on disk, whatever it read before
\* it had the lock (enrollment.go:166-195).
LockedKeepsTheEndpoint ==
    [][lock = "daemon" /\ daemon' # daemon => /\ disk'.endpoint = disk.endpoint
                                             /\ disk'.host = disk.host]_vars

\* The same of every step of the daemon, with the lock or without: whichever
\* process writes the configuration between its reads and its saves, it keeps
\* the endpoint and the host it finds there (enrollment_lock.go:9-10).
DaemonKeepsTheEndpoint ==
    [][daemon' # daemon => /\ disk'.endpoint = disk.endpoint
                           /\ disk'.host = disk.host]_vars

\* The key on disk belongs to the host in the configuration, and so does the
\* pair the daemon signs with, although serve reads the two files one after
\* the other and without the lock (main.go:398-405).
KeyMatchesHost ==
    /\ disk # NoConfig => key = disk.host
    /\ daemon.key # "none" => daemon.key = daemon.config.host

\* With the daemon up for good, the registration is settled for good.
Up == ~At("off")
RegistrationSettles == <>[]Up => <>[](disk.state \in {"active", "identity_conflict"})

\* With the daemon up for good, the token of the old setup goes for good.
TokenGoes == <>[]Up => <>[]~token
==============================================================================
