--------------------------- MODULE EnrollmentProofs ---------------------------
(***************************************************************************)
(* What holds of Enrollment for any commands and endpoints, and any states *)
(* an old agent may be found in: its types, that the lock has one owner,   *)
(* that an active registration is one its backend accepted, that the key   *)
(* is the host's, and that the daemon undoes no switch under the lock.     *)
(***************************************************************************)
EXTENDS Enrollment, TLAPS

\* The lock is held from its acquisition to the end: by the daemon ...
Holding == {"locked", "exchange", "save", "tidy"}

\* ... or by the command between its start and its end.
LockInv ==
    /\ lock = "daemon" <=> daemon.pc \in Holding
    /\ \A c \in Commands : lock = c <=> cmd[c].pc \notin {"ready", "done"}

\* A daemon runs with a configuration of the host that is on disk, and what it
\* has read is one; what it found under the lock, with the endpoint, is on disk
\* until it gives up the lock.
DaemonInv ==
    /\ ~At("off") => /\ disk # NoConfig
                     /\ daemon.config \in Config /\ daemon.config.host = disk.host
    /\ At("read") => daemon.read \in Config /\ daemon.read.host = disk.host
    /\ daemon.pc \in {"exchange", "save", "tidy"} => daemon.config.endpoint = disk.endpoint
    /\ At("save") => daemon.result # "none"

\* A command makes a key only where there is no configuration, and what it is
\* going to save has that key, the host on disk, and no registration that is active.
CommandInv ==
    \A c \in Commands :
        /\ cmd[c].pc = "key" => disk = NoConfig /\ cmd[c].endpoint \in Endpoints
        /\ cmd[c].op = "switch" => cmd[c].endpoint \in Endpoints
        /\ cmd[c].pc = "save" =>
              /\ cmd[c].next \in Config /\ cmd[c].next.host = key
              /\ disk # NoConfig => cmd[c].next.host = disk.host
              /\ cmd[c].next.state # "active"

\* An answer that is going to be saved stands: no command stages a registration meanwhile.
AnswerInv ==
    At("save") /\ daemon.result = "active" => daemon.config.endpoint \in accepted

IInv ==
    /\ TypeOK /\ LockInv /\ DaemonInv /\ CommandInv /\ AnswerInv
    /\ KeyMatchesHost /\ ActiveWasAccepted

------------------------------------------------------------------------------
(* Steps of a command. *)

\* A command that goes on has the lock, and nobody else goes on with it.
LEMMA OneOwner ==
  ASSUME TypeOK, LockInv, NEW c \in Commands, cmd[c].pc \notin {"ready", "done"}
  PROVE  /\ lock = c /\ daemon.pc \notin Holding
         /\ \A d \in Commands \ {c} : cmd[d].pc \in {"ready", "done"}
BY CommandsAssumption DEF LockInv

\* What a step of c makes of the commands and the lock.
LEMMA CommandMoves ==
  ASSUME TypeOK, NEW c \in Commands, NEW pc \in {"load", "key", "save", "tidy", "done"},
         NEW config \in Config \cup {NoConfig},
         \/ cmd' = [cmd EXCEPT ![c].pc = pc]
         \/ cmd' = [cmd EXCEPT ![c].pc = pc, ![c].next = config]
  PROVE  /\ cmd' \in [Commands -> Command]
         /\ cmd'[c].pc = pc /\ cmd'[c].op = cmd[c].op /\ cmd'[c].endpoint = cmd[c].endpoint
         /\ \A d \in Commands \ {c} : cmd'[d] = cmd[d]
BY DEF TypeOK, Command

LEMMA ConfigTypes ==
  ASSUME NEW config \in Config
  PROVE  /\ config.host \in Hosts /\ config.endpoint \in Endpoints
         /\ config.state \in RegistrationStates
         /\ \A state \in RegistrationStates : [config EXCEPT !.state = state] \in Config
         /\ \A endpoint \in Endpoints, state \in RegistrationStates :
               [config EXCEPT !.endpoint = endpoint, !.state = state] \in Config
         /\ config # NoConfig
<1>1. /\ config.host \in Hosts /\ config.endpoint \in Endpoints
      /\ config.state \in RegistrationStates
  BY DEF Config
<1>2. ASSUME NEW state \in RegistrationStates PROVE [config EXCEPT !.state = state] \in Config
  BY DEF Config
<1>3. ASSUME NEW endpoint \in Endpoints, NEW state \in RegistrationStates
      PROVE  [config EXCEPT !.endpoint = endpoint, !.state = state] \in Config
  BY DEF Config
<1>4. config # NoConfig
  BY <1>1, EndpointsAssumption DEF NoConfig
<1> QED
  BY <1>1, <1>2, <1>3, <1>4

\* What a command is going to save.
Staged(c, config) ==
    /\ config \in Config /\ config.host = key /\ config.state # "active"
    /\ disk # NoConfig => config.host = disk.host

Stages(c) == key' = key /\ lock' = lock /\ \E config \in Config : Staged(c, config) /\ Stage(c, config)

\* A step of c that stages nothing, or something that may be staged, or ends.
Moves(c) ==
    /\ UNCHANGED <<disk, token, daemon, accepted>>
    /\ \/ key' = key /\ Goto(c, "key") /\ lock' = lock /\ disk = NoConfig
          /\ cmd[c].endpoint \in Endpoints
       \/ key' = key /\ Goto(c, "tidy") /\ lock' = lock
       \/ key' = key /\ End(c)
       \/ Stages(c)

LEMMA LoadMoves ==
  ASSUME TypeOK, CommandInv, KeyMatchesHost, NEW c \in Commands, InitLoad(c) \/ SwitchLoad(c)
  PROVE  Moves(c) /\ cmd[c].pc = "load"
<1>0. cmd[c].pc = "load"
  BY DEF InitLoad, SwitchLoad
<1>1. ASSUME disk # NoConfig, disk \in Config, NEW endpoint \in Endpoints,
             NEW state \in RegistrationStates \ {"active"}, NEW config,
             config = [disk EXCEPT !.endpoint = endpoint, !.state = state]
      PROVE  config \in Config /\ Staged(c, config)
  <2>1. config \in Config
    BY <1>1, ConfigTypes
  <2>2. config.host = disk.host /\ config.state = state
    BY <1>1 DEF Config
  <2> QED
    BY <1>1, <2>1, <2>2 DEF Staged, KeyMatchesHost
<1>2. CASE InitLoad(c)
  <2>1. CASE disk = NoConfig
    BY <1>2, <2>1 DEF InitLoad, Moves, CommandInv, TypeOK, Command
  <2>2. CASE disk # NoConfig
    <3>0. disk \in Config
      BY <2>2 DEF TypeOK
    <3>1. CASE disk.state = "active" \/ End(c)
      BY <1>2, <2>2, <3>1 DEF InitLoad, Moves
    <3>2. CASE disk.state = "needs_setup_token" /\ ~End(c)
      <4>1. Stage(c, [disk EXCEPT !.state = "pending"]) /\ UNCHANGED <<disk, key, token, lock, daemon, accepted>>
        BY <1>2, <2>2, <3>2 DEF InitLoad
      <4>2. [disk EXCEPT !.state = "pending"] =
                [disk EXCEPT !.endpoint = disk.endpoint, !.state = "pending"]
        BY <3>0 DEF Config
      <4>3. [disk EXCEPT !.state = "pending"] \in Config
               /\ Staged(c, [disk EXCEPT !.state = "pending"])
        BY <1>1, <2>2, <3>0, <4>2, ConfigTypes DEF RegistrationStates
      <4>4. Stages(c)
        BY <4>1, <4>3 DEF Stages
      <4> QED
        BY <1>0, <4>1, <4>4 DEF Moves
    <3>3. CASE disk.state \in {"pending", "identity_conflict"} /\ ~End(c)
      <4>1. Stage(c, disk) /\ UNCHANGED <<disk, key, token, lock, daemon, accepted>>
        BY <1>2, <2>2, <3>3 DEF InitLoad
      <4>2. Staged(c, disk)
        BY <2>2, <3>0, <3>3 DEF Staged, KeyMatchesHost
      <4>3. Stages(c)
        BY <3>0, <4>1, <4>2 DEF Stages
      <4> QED
        BY <1>0, <4>1, <4>3 DEF Moves
    <3> QED
      BY <3>0, <3>1, <3>2, <3>3, ConfigTypes DEF RegistrationStates
  <2> QED
    BY <2>1, <2>2
<1>3. CASE SwitchLoad(c)
  <2>1. CASE End(c)
    BY <1>3, <2>1 DEF SwitchLoad, Moves
  <2>2. CASE ~End(c)
    <3> DEFINE config == [disk EXCEPT !.endpoint = cmd[c].endpoint, !.state = "pending"]
    <3>1. /\ disk # NoConfig /\ disk \in Config /\ Stage(c, config)
          /\ UNCHANGED <<disk, key, token, lock, daemon, accepted>>
      BY <1>3, <2>2 DEF SwitchLoad, TypeOK
    <3>2. cmd[c].endpoint \in Endpoints
      BY <1>3 DEF SwitchLoad, CommandInv
    <3>3. config \in Config /\ Staged(c, config)
      BY <1>1, <3>1, <3>2 DEF RegistrationStates
    <3>4. Stages(c)
      BY <3>1, <3>3 DEF Stages
    <3> QED
      BY <1>0, <3>1, <3>4 DEF Moves
  <2> QED
    BY <2>1, <2>2
<1> QED
  BY <1>0, <1>2, <1>3

\* What only depends on the files and the daemon stays.
LEMMA FilesStay ==
  ASSUME IInv, UNCHANGED <<disk, key, token, daemon, accepted>>
  PROVE  DaemonInv' /\ AnswerInv' /\ KeyMatchesHost' /\ ActiveWasAccepted'
BY DEF IInv, DaemonInv, AnswerInv, KeyMatchesHost, ActiveWasAccepted, At

\* A step of c that keeps the lock, or gives it up when it ends.
LEMMA OwnerMoves ==
  ASSUME TypeOK, LockInv, NEW c \in Commands, cmd[c].pc \notin {"ready", "done"},
         cmd'[c].pc # "ready", \A d \in Commands \ {c} : cmd'[d] = cmd[d],
         lock' = (IF cmd'[c].pc = "done" THEN "free" ELSE lock), daemon' = daemon
  PROVE  LockInv' /\ lock' \in Commands \cup {"free", "daemon"}
<1>1. /\ lock = c /\ daemon.pc \notin Holding
      /\ \A d \in Commands \ {c} : cmd[d].pc \in {"ready", "done"}
  BY OneOwner
<1> QED
  BY <1>1, CommandsAssumption DEF LockInv, TypeOK

LEMMA CommandMoved ==
  ASSUME IInv, NEW c \in Commands, Moves(c), cmd[c].pc = "load"
  PROVE  IInv'
<1>0. TypeOK /\ LockInv /\ CommandInv
  BY DEF IInv
<1>1. PICK pc \in {"key", "save", "tidy", "done"}, config \in Config \cup {NoConfig} :
        /\ \/ cmd' = [cmd EXCEPT ![c].pc = pc]
           \/ cmd' = [cmd EXCEPT ![c].pc = pc, ![c].next = config]
        /\ lock' = (IF pc = "done" THEN "free" ELSE lock)
        /\ key' = key
        /\ pc = "key" => disk = NoConfig /\ cmd[c].endpoint \in Endpoints
        /\ pc = "save" => Staged(c, config) /\ cmd' = [cmd EXCEPT ![c].pc = pc, ![c].next = config]
  BY DEF Moves, Stages, Goto, End, Stage
<1>2. /\ cmd' \in [Commands -> Command]
      /\ cmd'[c].pc = pc /\ cmd'[c].op = cmd[c].op /\ cmd'[c].endpoint = cmd[c].endpoint
      /\ \A d \in Commands \ {c} : cmd'[d] = cmd[d]
  BY <1>0, <1>1, CommandMoves
<1>3. UNCHANGED <<disk, key, token, daemon, accepted>>
  BY <1>1 DEF Moves
<1>4. LockInv' /\ lock' \in Commands \cup {"free", "daemon"}
  BY <1>0, <1>1, <1>2, <1>3, OwnerMoves
<1>5. TypeOK'
  BY <1>0, <1>2, <1>3, <1>4 DEF TypeOK
<1>6. pc = "save" => cmd'[c].next = config
  BY <1>0, <1>1 DEF TypeOK, Command
<1>7. CommandInv'
  <2>1. \A d \in Commands \ {c} : cmd[d].pc \in {"ready", "done"}
    BY <1>0, OneOwner
  <2>2. ASSUME NEW d \in Commands \ {c}
        PROVE  cmd'[d].op = "switch" => cmd'[d].endpoint \in Endpoints
    BY <1>0, <1>2 DEF CommandInv
  <2>3. cmd[c].op = "switch" => cmd[c].endpoint \in Endpoints
    BY <1>0 DEF CommandInv
  <2>4. pc = "save" =>
           /\ config \in Config /\ config.host = key' /\ config.state # "active"
           /\ disk' # NoConfig => config.host = disk'.host
    BY <1>1, <1>3 DEF Staged
  <2>5. ASSUME NEW d \in Commands \ {c} PROVE cmd'[d].pc \in {"ready", "done"}
    BY <1>2, <2>1
  <2> QED
    BY <1>1, <1>2, <1>3, <1>6, <2>2, <2>3, <2>4, <2>5 DEF CommandInv
<1> QED
  BY <1>3, <1>4, <1>5, <1>7, FilesStay DEF IInv

LEMMA KeyMade ==
  ASSUME IInv, NEW c \in Commands, InitKey(c)
  PROVE  IInv'
<1>0. TypeOK /\ LockInv /\ CommandInv /\ DaemonInv
  BY DEF IInv
<1> DEFINE config == [host |-> c, endpoint |-> cmd[c].endpoint, state |-> "pending"]
<1>1. cmd' = [cmd EXCEPT ![c].pc = "save", ![c].next = config] /\ key' = c
      /\ UNCHANGED <<disk, token, lock, daemon, accepted>> /\ cmd[c].pc = "key"
  BY DEF InitKey, Stage
<1>2. disk = NoConfig /\ cmd[c].endpoint \in Endpoints
  BY <1>0, <1>1 DEF CommandInv
<1>3. config \in Config
  BY <1>2 DEF Config, Hosts, RegistrationStates
<1> HIDE DEF config
<1>4. /\ cmd' \in [Commands -> Command]
      /\ cmd'[c].pc = "save" /\ cmd'[c].op = cmd[c].op /\ cmd'[c].endpoint = cmd[c].endpoint
      /\ \A d \in Commands \ {c} : cmd'[d] = cmd[d]
  BY <1>0, <1>1, <1>3, CommandMoves
<1>5. cmd'[c].next = config
  BY <1>0, <1>1 DEF TypeOK, Command
<1>6. LockInv' /\ TypeOK'
  <2>1. LockInv'
    BY <1>0, <1>1, <1>4, OwnerMoves
  <2> QED
    BY <1>0, <1>1, <1>4, <2>1 DEF TypeOK, Hosts
<1>7. CommandInv'
  <2>1. ASSUME NEW d \in Commands \ {c} PROVE cmd'[d].pc \in {"ready", "done"}
    BY <1>0, <1>1, <1>4, OneOwner
  <2>2. config.host = key' /\ config.state = "pending"
    BY <1>1 DEF config
  <2> QED
    BY <1>0, <1>1, <1>2, <1>3, <1>4, <1>5, <2>1, <2>2 DEF CommandInv
<1>8. daemon.pc = "off"
  BY <1>0, <1>2 DEF DaemonInv, At
<1>9. KeyMatchesHost'
  BY <1>1, <1>2 DEF KeyMatchesHost, IInv
<1>10. DaemonInv' /\ AnswerInv' /\ ActiveWasAccepted'
  BY <1>1 DEF IInv, DaemonInv, AnswerInv, ActiveWasAccepted, At
<1> QED
  BY <1>6, <1>7, <1>9, <1>10 DEF IInv

LEMMA CommandSaved ==
  ASSUME IInv, NEW c \in Commands, CmdSave(c)
  PROVE  IInv'
<1>0. TypeOK /\ LockInv /\ CommandInv /\ DaemonInv /\ KeyMatchesHost
  BY DEF IInv
<1>1. /\ cmd[c].pc = "save" /\ disk' = cmd[c].next /\ cmd' = [cmd EXCEPT ![c].pc = "tidy"]
      /\ accepted' = accepted \ {cmd[c].next.endpoint} /\ UNCHANGED <<key, token, lock, daemon>>
  BY DEF CmdSave, Goto
<1>2. /\ disk' \in Config /\ disk' # NoConfig /\ disk'.host = key /\ disk'.state # "active"
      /\ disk # NoConfig => disk'.host = disk.host
  BY <1>0, <1>1, ConfigTypes DEF CommandInv
<1>3. NoConfig \in Config \cup {NoConfig}
  OBVIOUS
<1>4. /\ cmd' \in [Commands -> Command]
      /\ cmd'[c].pc = "tidy" /\ cmd'[c].op = cmd[c].op /\ cmd'[c].endpoint = cmd[c].endpoint
      /\ \A d \in Commands \ {c} : cmd'[d] = cmd[d]
  BY <1>0, <1>1, <1>3, CommandMoves
<1>5. LockInv'
  BY <1>0, <1>1, <1>4, OwnerMoves
<1>6. TypeOK'
  BY <1>0, <1>1, <1>2, <1>4 DEF TypeOK
<1>7. daemon.pc \notin Holding /\ \A d \in Commands \ {c} : cmd[d].pc \in {"ready", "done"}
  BY <1>0, <1>1, OneOwner
<1>8. CommandInv'
  BY <1>0, <1>4, <1>7 DEF CommandInv
<1>9. DaemonInv' /\ AnswerInv'
  BY <1>0, <1>1, <1>2, <1>7 DEF DaemonInv, AnswerInv, At, Holding
<1>10. KeyMatchesHost' /\ ActiveWasAccepted'
  BY <1>0, <1>1, <1>2 DEF KeyMatchesHost, ActiveWasAccepted
<1> QED
  BY <1>5, <1>6, <1>8, <1>9, <1>10 DEF IInv

LEMMA CommandEnded ==
  ASSUME IInv, NEW c \in Commands, CmdTidy(c) \/ CmdDie(c)
  PROVE  IInv'
<1>0. TypeOK /\ LockInv /\ CommandInv /\ DaemonInv /\ KeyMatchesHost
  BY DEF IInv
<1>1. /\ cmd[c].pc \notin {"ready", "done"} /\ cmd' = [cmd EXCEPT ![c].pc = "done"]
      /\ lock' = "free" /\ token' \in {token, FALSE} /\ key' \in {key, "partial"}
      /\ key' # key => cmd[c].pc = "key"
      /\ UNCHANGED <<disk, daemon, accepted>>
  BY DEF CmdTidy, CmdDie, End, Goto
<1>2. NoConfig \in Config \cup {NoConfig}
  OBVIOUS
<1>3. /\ cmd' \in [Commands -> Command]
      /\ cmd'[c].pc = "done" /\ cmd'[c].op = cmd[c].op /\ cmd'[c].endpoint = cmd[c].endpoint
      /\ \A d \in Commands \ {c} : cmd'[d] = cmd[d]
  BY <1>0, <1>1, <1>2, CommandMoves
<1>4. LockInv'
  BY <1>0, <1>1, <1>3, OwnerMoves
<1>5. TypeOK'
  BY <1>0, <1>1, <1>3 DEF TypeOK
<1>6. \A d \in Commands \ {c} : cmd[d].pc \in {"ready", "done"}
  BY <1>0, <1>1, OneOwner
<1>7. CommandInv'
  BY <1>0, <1>3, <1>6 DEF CommandInv
<1>8. key' # key => disk = NoConfig /\ daemon.pc = "off"
  BY <1>0, <1>1 DEF CommandInv, DaemonInv, At
<1>9. DaemonInv' /\ AnswerInv' /\ ActiveWasAccepted'
  BY <1>1 DEF IInv, DaemonInv, AnswerInv, ActiveWasAccepted, At
<1>10. KeyMatchesHost'
  BY <1>0, <1>1, <1>8 DEF KeyMatchesHost
<1> QED
  BY <1>4, <1>5, <1>7, <1>9, <1>10 DEF IInv

LEMMA CommandStarted ==
  ASSUME IInv, NEW c \in Commands, NEW op \in {"init", "switch"},
         NEW endpoint \in Endpoints \cup {"none"}, NEW force \in BOOLEAN,
         CmdLock(c, op, endpoint, force)
  PROVE  IInv'
<1>0. TypeOK /\ LockInv /\ CommandInv
  BY DEF IInv
<1> DEFINE r == [Ready EXCEPT !.pc = "load", !.op = op, !.endpoint = endpoint, !.force = force]
<1>1. /\ lock = "free" /\ lock' = c /\ cmd' = [cmd EXCEPT ![c] = r]
      /\ UNCHANGED <<disk, key, token, daemon, accepted>>
      /\ op = "switch" => endpoint # "none"
  BY DEF CmdLock
<1>2. r \in Command /\ r.pc = "load" /\ r.op = op /\ r.endpoint = endpoint
  BY DEF Command, Ready
<1> HIDE DEF r
<1>3. cmd' \in [Commands -> Command] /\ cmd'[c] = r /\ \A d \in Commands \ {c} : cmd'[d] = cmd[d]
  BY <1>0, <1>1, <1>2 DEF TypeOK
<1>4. \A d \in Commands : cmd[d].pc \in {"ready", "done"}
  BY <1>0, <1>1, CommandsAssumption DEF LockInv
<1>5. daemon.pc \notin Holding
  BY <1>0, <1>1 DEF LockInv
<1>6. LockInv'
  BY <1>1, <1>2, <1>3, <1>4, <1>5, CommandsAssumption DEF LockInv
<1>7. TypeOK'
  BY <1>0, <1>1, <1>3 DEF TypeOK
<1>8. CommandInv'
  BY <1>0, <1>1, <1>2, <1>3, <1>4 DEF CommandInv
<1> QED
  BY <1>1, <1>6, <1>7, <1>8, FilesStay DEF IInv

------------------------------------------------------------------------------
(* Steps of the daemon. *)

\* What every step of the daemon does to the files and the lock: the host on disk
\* stays, and under the lock the endpoint does; what it saves as active was accepted.
DaemonGoes ==
    /\ daemon' \in Daemon /\ token' \in BOOLEAN
    /\ UNCHANGED <<key, cmd>>
    /\ \/ lock' = lock /\ (daemon.pc \in Holding <=> daemon'.pc \in Holding)
       \/ lock = "free" /\ lock' = "daemon" /\ daemon'.pc \in Holding
       \/ lock = "daemon" /\ lock' = "free" /\ daemon'.pc \notin Holding
    /\ \/ disk' = disk
       \/ /\ disk # NoConfig /\ disk' \in Config /\ disk'.host = disk.host
          /\ disk'.endpoint = disk.endpoint \/ lock # "daemon"
          /\ disk'.state = "active" => disk'.endpoint \in accepted
    /\ accepted \subseteq accepted' /\ accepted' \subseteq Endpoints
    /\ DaemonInv' /\ AnswerInv'
    /\ daemon'.key # "none" => daemon'.key = daemon'.config.host

\* A step that leaves the files and the lock alone.
Quiet == UNCHANGED <<disk, key, token, lock, cmd, accepted>>

LEMMA QuietGoes ==
  ASSUME TypeOK, Quiet, daemon' \in Daemon, daemon.pc \in Holding <=> daemon'.pc \in Holding,
         DaemonInv', AnswerInv', daemon'.key # "none" => daemon'.key = daemon'.config.host
  PROVE  DaemonGoes
BY DEF DaemonGoes, Quiet, TypeOK

LEMMA OffType == Off \in Daemon /\ Off.pc = "off" /\ Off.key = "none"
BY DEF Off, Daemon

LEMMA Starts ==
  ASSUME IInv, Start \/ Boot
  PROVE  DaemonGoes
<1>0. TypeOK /\ DaemonInv /\ KeyMatchesHost /\ daemon \in Daemon
  BY DEF IInv, TypeOK
<1>1. Quiet
  BY DEF Start, Boot, OnlyDaemon, Quiet
<1>2. CASE Start
  <2>1. disk \in Config /\ disk # NoConfig /\ At("off")
    BY <1>0, <1>2 DEF Start, TypeOK
  <2>2. daemon' = [Off EXCEPT !.pc = "boot", !.config = disk]
    BY <1>2 DEF Start
  <2>3. daemon' \in Daemon /\ daemon'.pc = "boot" /\ daemon'.config = disk /\ daemon'.key = "none"
    BY <2>1, <2>2, OffType DEF Daemon
  <2>4. DaemonInv' /\ AnswerInv'
    BY <1>1, <2>1, <2>3 DEF DaemonInv, AnswerInv, At, Quiet
  <2> QED
    BY <1>0, <1>1, <2>1, <2>3, <2>4, QuietGoes DEF At, Holding
<1>3. CASE Boot /\ key \in Hosts
  <2>1. daemon' = [daemon EXCEPT !.pc = "top", !.key = key] /\ At("boot")
    BY <1>3 DEF Boot
  <2>2. daemon' \in Daemon /\ daemon'.pc = "top" /\ daemon'.config = daemon.config
        /\ daemon'.key = key
    BY <1>0, <1>3, <2>1 DEF Daemon
  <2>3. DaemonInv' /\ AnswerInv'
    BY <1>0, <1>1, <2>1, <2>2 DEF DaemonInv, AnswerInv, At, Quiet
  <2>4. daemon'.key = daemon'.config.host
    BY <1>0, <2>1, <2>2 DEF DaemonInv, KeyMatchesHost, At
  <2> QED
    BY <1>0, <1>1, <2>1, <2>2, <2>3, <2>4, QuietGoes DEF At, Holding
<1>4. CASE Boot /\ key \notin Hosts
  <2>1. daemon' = Off /\ At("boot")
    BY <1>4 DEF Boot
  <2>2. DaemonInv' /\ AnswerInv'
    BY <2>1, OffType DEF DaemonInv, AnswerInv, At
  <2> QED
    BY <1>0, <1>1, <2>1, <2>2, OffType, QuietGoes DEF At, Holding
<1> QED
  BY <1>2, <1>3, <1>4

LEMMA Refreshes ==
  ASSUME IInv, Read \/ Refresh \/ RefreshFails
  PROVE  DaemonGoes
<1>0. TypeOK /\ DaemonInv /\ KeyMatchesHost /\ daemon \in Daemon /\ ~At("off")
  BY DEF IInv, TypeOK, Read, Refresh, RefreshFails, At
<1>1. Quiet /\ daemon.pc \notin Holding
  BY DEF Read, Refresh, RefreshFails, OnlyDaemon, Quiet, At, Holding
<1>2. CASE Read
  <2>1. disk \in Config /\ daemon' = [daemon EXCEPT !.pc = "read", !.read = disk]
    BY <1>0, <1>2 DEF Read, TypeOK
  <2>2. daemon' \in Daemon /\ daemon'.pc = "read" /\ daemon'.config = daemon.config
        /\ daemon'.key = daemon.key /\ daemon'.read = disk
    BY <1>0, <2>1 DEF Daemon
  <2>3. DaemonInv' /\ AnswerInv'
    BY <1>0, <1>1, <2>1, <2>2 DEF DaemonInv, AnswerInv, At, Quiet
  <2> QED
    BY <1>0, <1>1, <2>2, <2>3, QuietGoes DEF Holding, KeyMatchesHost
<1>3. CASE Refresh
  <2>1. daemon' = [daemon EXCEPT !.pc = "dispatch", !.config = daemon.read, !.read = NoConfig]
        /\ daemon.read \in Config /\ daemon.read.host = disk.host
    BY <1>0, <1>3 DEF Refresh, DaemonInv
  <2>2. daemon' \in Daemon /\ daemon'.pc = "dispatch" /\ daemon'.config = daemon.read
        /\ daemon'.key = daemon.key
    BY <1>0, <2>1 DEF Daemon
  <2>3. DaemonInv' /\ AnswerInv'
    BY <1>0, <1>1, <2>1, <2>2 DEF DaemonInv, AnswerInv, At, Quiet
  <2>4. daemon.key # "none" => daemon.key = daemon.read.host
    BY <1>0, <2>1 DEF KeyMatchesHost, DaemonInv
  <2> QED
    BY <1>0, <1>1, <2>2, <2>3, <2>4, QuietGoes DEF Holding
<1>4. CASE RefreshFails
  <2>1. daemon' = [daemon EXCEPT !.pc = "top", !.read = NoConfig]
    BY <1>4 DEF RefreshFails
  <2>2. daemon' \in Daemon /\ daemon'.pc = "top" /\ daemon'.config = daemon.config
        /\ daemon'.key = daemon.key
    BY <1>0, <2>1 DEF Daemon
  <2>3. DaemonInv' /\ AnswerInv'
    BY <1>0, <1>1, <2>1, <2>2 DEF DaemonInv, AnswerInv, At, Quiet
  <2> QED
    BY <1>0, <1>1, <2>2, <2>3, QuietGoes DEF Holding, KeyMatchesHost
<1> QED
  BY <1>2, <1>3, <1>4

\* The end of a round, and the wish for an attempt.
LEMMA Rounds ==
  ASSUME daemon \in Daemon, NEW refresh \in BOOLEAN, NEW why \in {"discard", "renew", "enroll"},
         EndRound(refresh) \/ Want(why)
  PROVE  /\ daemon' \in Daemon /\ daemon'.pc \in {"top", "lock"}
         /\ daemon'.config = daemon.config /\ daemon'.key = daemon.key
<1>1. CASE EndRound(refresh)
  BY <1>1 DEF EndRound, Daemon
<1>2. CASE Want(why)
  BY <1>2 DEF Want, Daemon
<1> QED
  BY <1>1, <1>2

\* A daemon that goes on without the lock, or gives it up, and saves nothing.
LEMMA Resumes ==
  ASSUME IInv, ~At("off"), daemon' \in Daemon, daemon'.pc \in {"top", "lock"},
         daemon'.config = daemon.config, daemon'.key = daemon.key,
         UNCHANGED <<disk, key, cmd>>, token' \in BOOLEAN,
         accepted \subseteq accepted', accepted' \subseteq Endpoints,
         lock' = (IF daemon.pc \in Holding THEN "free" ELSE lock)
  PROVE  DaemonGoes
<1>1. TypeOK /\ DaemonInv /\ KeyMatchesHost /\ LockInv
  BY DEF IInv
<1>2. DaemonInv' /\ AnswerInv'
  BY <1>1 DEF DaemonInv, AnswerInv, At
<1>3. \/ lock' = lock /\ (daemon.pc \in Holding <=> daemon'.pc \in Holding)
      \/ lock = "daemon" /\ lock' = "free" /\ daemon'.pc \notin Holding
  BY <1>1 DEF LockInv, Holding
<1> QED
  BY <1>1, <1>2, <1>3 DEF DaemonGoes, KeyMatchesHost

LEMMA Dispatches ==
  ASSUME IInv, Dispatch \/ MigrateFails \/ MigrateTidy
  PROVE  DaemonGoes
<1>0. daemon \in Daemon /\ daemon.pc \notin Holding /\ ~At("off") /\ daemon.refresh \in BOOLEAN
      /\ token \in BOOLEAN /\ accepted \subseteq Endpoints
  BY DEF IInv, TypeOK, Dispatch, MigrateFails, MigrateTidy, At, Holding, Daemon
<1>1. \E why \in {"discard", "renew", "enroll"} : EndRound(daemon.refresh) \/ Want(why)
  BY DEF Dispatch, MigrateFails, MigrateTidy
<1>2. UNCHANGED <<disk, key, lock, cmd, accepted>> /\ token' \in {token, FALSE}
  BY DEF Dispatch, MigrateFails, MigrateTidy, OnlyDaemon
<1>3. /\ daemon' \in Daemon /\ daemon'.pc \in {"top", "lock"}
      /\ daemon'.config = daemon.config /\ daemon'.key = daemon.key
  BY <1>0, <1>1, Rounds
<1> QED
  BY <1>0, <1>2, <1>3, Resumes

LEMMA Migrates ==
  ASSUME IInv, Migrate
  PROVE  DaemonGoes
<1>0. TypeOK /\ DaemonInv /\ KeyMatchesHost /\ LockInv /\ daemon \in Daemon /\ ~At("off")
      /\ daemon.pc = "dispatch"
  BY DEF IInv, TypeOK, Migrate, At
<1> DEFINE config == [daemon.config EXCEPT !.state = "pending"]
<1>1. daemon' = [daemon EXCEPT !.pc = "migrated", !.config = config]
  BY <1>0 DEF Migrate
<1>2. /\ disk # NoConfig /\ config \in Config /\ config.host = disk.host
      /\ config.host = daemon.config.host /\ config.state = "pending"
  BY <1>0, ConfigTypes DEF DaemonInv, Config, RegistrationStates
<1> HIDE DEF config
<1>3. daemon' \in Daemon /\ daemon'.pc = "migrated" /\ daemon'.config = config
      /\ daemon'.key = daemon.key
  BY <1>0, <1>1, <1>2 DEF Daemon
<1>4. disk' = config /\ UNCHANGED <<key, token, lock, cmd, accepted>>
  BY <1>3 DEF Migrate
<1>5. DaemonInv' /\ AnswerInv'
  BY <1>2, <1>3, <1>4, ConfigTypes DEF DaemonInv, AnswerInv, At
<1>6. lock # "daemon"
  BY <1>0 DEF LockInv, Holding
<1>7. daemon'.key # "none" => daemon'.key = daemon'.config.host
  BY <1>0, <1>2, <1>3 DEF KeyMatchesHost
<1>8. daemon.pc \notin Holding /\ daemon'.pc \notin Holding
  BY <1>0, <1>3 DEF Holding
<1> QED
  BY <1>0, <1>2, <1>3, <1>4, <1>5, <1>6, <1>7, <1>8 DEF DaemonGoes, TypeOK

LEMMA Acquires ==
  ASSUME IInv, Acquire
  PROVE  DaemonGoes
<1>0. TypeOK /\ DaemonInv /\ KeyMatchesHost /\ daemon \in Daemon /\ daemon.pc = "lock"
      /\ lock = "free"
  BY DEF IInv, TypeOK, Acquire, At
<1>1. daemon' = [daemon EXCEPT !.pc = "locked"] /\ lock' = "daemon"
      /\ UNCHANGED <<disk, key, token, cmd, accepted>>
  BY DEF Acquire
<1>2. daemon' \in Daemon /\ daemon'.pc = "locked" /\ daemon'.config = daemon.config
      /\ daemon'.key = daemon.key
  BY <1>0, <1>1 DEF Daemon
<1>3. DaemonInv' /\ AnswerInv'
  BY <1>0, <1>1, <1>2 DEF DaemonInv, AnswerInv, At
<1>4. daemon'.pc \in Holding
  BY <1>2 DEF Holding
<1>5. token' \in BOOLEAN /\ accepted \subseteq accepted' /\ accepted' \subseteq Endpoints
  BY <1>0, <1>1 DEF TypeOK
<1> QED
  BY <1>0, <1>1, <1>2, <1>3, <1>4, <1>5 DEF DaemonGoes, KeyMatchesHost

LEMMA LockedRefreshes ==
  ASSUME IInv, LockedRefresh
  PROVE  DaemonGoes
<1>0. TypeOK /\ DaemonInv /\ KeyMatchesHost /\ LockInv /\ daemon \in Daemon
      /\ daemon.pc = "locked"
  BY DEF IInv, TypeOK, LockedRefresh, At
<1>1. disk \in Config /\ disk # NoConfig /\ disk.host = daemon.config.host /\ lock = "daemon"
  BY <1>0 DEF TypeOK, DaemonInv, LockedRefresh, At, LockInv, Holding
<1>2. UNCHANGED <<disk, key, cmd, accepted>> /\ token' \in {token, FALSE}
  BY DEF LockedRefresh
<1>3. PICK pc \in {"exchange", "lock", "top"}, why \in {daemon.why, "renew", "none"} :
        /\ daemon' = [daemon EXCEPT !.pc = pc, !.why = why, !.config = disk]
        /\ lock' = (IF pc = "exchange" THEN lock ELSE "free")
  <2>1. CASE daemon.why # "discard"
    <3>1. daemon' = [daemon EXCEPT !.pc = "exchange", !.config = disk] /\ lock' = lock
      BY <2>1 DEF LockedRefresh
    <3>2. daemon' = [daemon EXCEPT !.pc = "exchange", !.why = daemon.why, !.config = disk]
      BY <1>0, <3>1 DEF Daemon
    <3> QED
      BY <3>1, <3>2
  <2>2. CASE daemon.why = "discard"
    BY <2>2 DEF LockedRefresh, Release
  <2> QED
    BY <2>1, <2>2
<1>4. daemon.why \in {"none", "discard", "renew", "enroll"}
  BY <1>0 DEF Daemon
<1>5. /\ daemon' \in Daemon /\ daemon'.pc = pc /\ daemon'.config = disk
      /\ daemon'.key = daemon.key
  BY <1>0, <1>1, <1>3, <1>4 DEF Daemon
<1>6. DaemonInv' /\ AnswerInv'
  BY <1>1, <1>2, <1>5 DEF DaemonInv, AnswerInv, At
<1>7. \/ lock' = lock /\ (daemon.pc \in Holding <=> daemon'.pc \in Holding)
      \/ lock = "daemon" /\ lock' = "free" /\ daemon'.pc \notin Holding
  BY <1>0, <1>1, <1>3, <1>5 DEF Holding
<1>8. daemon'.key # "none" => daemon'.key = daemon'.config.host
  BY <1>0, <1>1, <1>5 DEF KeyMatchesHost
<1>9. token' \in BOOLEAN /\ accepted' \subseteq Endpoints
  BY <1>0, <1>2 DEF TypeOK
<1> QED
  BY <1>2, <1>5, <1>6, <1>7, <1>8, <1>9 DEF DaemonGoes

LEMMA Unlocks ==
  ASSUME IInv, LockedFails \/ ExchangeFails \/ SaveFails \/ Tidy
  PROVE  DaemonGoes
<1>0. TypeOK /\ daemon \in Daemon /\ daemon.pc \in Holding /\ ~At("off")
      /\ token \in BOOLEAN /\ accepted \subseteq Endpoints
  BY DEF IInv, TypeOK, LockedFails, ExchangeFails, SaveFails, Tidy, At, Holding
<1>1. \E refresh \in BOOLEAN, why \in {"discard", "renew", "enroll"} : EndRound(refresh) \/ Want(why)
  <2>1. daemon.refresh \in BOOLEAN
    BY <1>0 DEF Daemon
  <2>2. (daemon.refresh /\ daemon.why = "enroll" /\ daemon.result # "active") \in BOOLEAN
    OBVIOUS
  <2>3. CASE LockedFails
    BY <2>1, <2>3 DEF LockedFails
  <2>4. CASE ExchangeFails \/ SaveFails
    BY <2>1, <2>4 DEF ExchangeFails, SaveFails
  <2>5. CASE Tidy
    BY <2>2, <2>5 DEF Tidy
  <2> QED
    BY <2>3, <2>4, <2>5
<1>2. UNCHANGED <<disk, key, cmd>> /\ token' \in {token, FALSE} /\ lock' = "free"
  BY DEF LockedFails, ExchangeFails, SaveFails, Tidy, Release
<1>3. /\ daemon' \in Daemon /\ daemon'.pc \in {"top", "lock"}
      /\ daemon'.config = daemon.config /\ daemon'.key = daemon.key
  BY <1>0, <1>1, Rounds
<1>4. accepted \subseteq accepted' /\ accepted' \subseteq Endpoints
  <2>1. CASE ExchangeFails
    <3>1. daemon.config.endpoint \in Endpoints
      BY <1>0, <2>1, ConfigTypes DEF ExchangeFails, IInv, DaemonInv, At
    <3> QED
      BY <1>0, <2>1, <3>1 DEF ExchangeFails
  <2>2. CASE LockedFails \/ SaveFails \/ Tidy
    BY <1>0, <2>2 DEF LockedFails, SaveFails, Tidy
  <2> QED
    BY <2>1, <2>2
<1> QED
  BY <1>0, <1>2, <1>3, <1>4, Resumes

LEMMA Answers ==
  ASSUME IInv, Accept \/ Conflict
  PROVE  DaemonGoes
<1>0. TypeOK /\ DaemonInv /\ KeyMatchesHost /\ daemon \in Daemon /\ daemon.pc = "exchange"
  BY DEF IInv, TypeOK, Accept, Conflict, At
<1>1. PICK result \in {"active", "identity_conflict"} :
        /\ daemon' = [daemon EXCEPT !.pc = "save", !.result = result]
        /\ accepted' = IF result = "active" THEN accepted \cup {daemon.config.endpoint}
                                            ELSE accepted
  BY DEF Accept, Conflict, OnlyDaemon
<1>2. UNCHANGED <<disk, key, token, lock, cmd>>
  BY DEF Accept, Conflict, OnlyDaemon
<1>3. /\ daemon' \in Daemon /\ daemon'.pc = "save" /\ daemon'.config = daemon.config
      /\ daemon'.key = daemon.key /\ daemon'.result = result
  BY <1>0, <1>1 DEF Daemon
<1>4. daemon.config.endpoint \in Endpoints
  BY <1>0, ConfigTypes DEF DaemonInv, At
<1>5. DaemonInv'
  BY <1>0, <1>2, <1>3 DEF DaemonInv, At
<1>6. AnswerInv'
  BY <1>1, <1>3 DEF AnswerInv
<1>7. accepted \subseteq accepted' /\ accepted' \subseteq Endpoints /\ token' \in BOOLEAN
  BY <1>0, <1>1, <1>2, <1>4 DEF TypeOK
<1>8. daemon.pc \in Holding /\ daemon'.pc \in Holding
  BY <1>0, <1>3 DEF Holding
<1> QED
  BY <1>0, <1>2, <1>3, <1>5, <1>6, <1>7, <1>8 DEF DaemonGoes, KeyMatchesHost

LEMMA Saves ==
  ASSUME IInv, SaveResult
  PROVE  DaemonGoes
<1>0. TypeOK /\ DaemonInv /\ KeyMatchesHost /\ LockInv /\ AnswerInv /\ daemon \in Daemon
      /\ ~At("off") /\ daemon.pc = "save"
  BY DEF IInv, TypeOK, SaveResult, At
<1> DEFINE config == [daemon.config EXCEPT !.state = daemon.result]
<1>1. daemon' = [daemon EXCEPT !.pc = "tidy", !.config = config]
  BY <1>0 DEF SaveResult
<1>2. daemon.result \in {"active", "identity_conflict"}
  BY <1>0 DEF DaemonInv, At, Daemon
<1>3. daemon.config \in Config /\ daemon.config.host = disk.host
      /\ daemon.config.endpoint = disk.endpoint /\ disk # NoConfig
  BY <1>0 DEF DaemonInv, At
<1>4. /\ config \in Config /\ config.host = daemon.config.host
      /\ config.endpoint = daemon.config.endpoint /\ config.state = daemon.result
  <2>1. daemon.result \in RegistrationStates
    BY <1>2 DEF RegistrationStates
  <2>2. config \in Config
    BY <1>3, <2>1, ConfigTypes
  <2> QED
    BY <1>3, <2>2 DEF Config
<1>5. disk' = config /\ UNCHANGED <<key, token, lock, cmd, accepted>>
  <2>1. daemon'.config = config
    BY <1>0, <1>1 DEF Daemon
  <2> QED
    BY <2>1 DEF SaveResult
<1> HIDE DEF config
<1>6. daemon' \in Daemon /\ daemon'.pc = "tidy" /\ daemon'.config = config
      /\ daemon'.key = daemon.key
  BY <1>0, <1>1, <1>4 DEF Daemon
<1>7. DaemonInv' /\ AnswerInv'
  BY <1>4, <1>5, <1>6, ConfigTypes DEF DaemonInv, AnswerInv, At
<1>8. disk'.state = "active" => disk'.endpoint \in accepted
  BY <1>0, <1>4, <1>5 DEF AnswerInv, At
<1>9. daemon'.key # "none" => daemon'.key = daemon'.config.host
  BY <1>0, <1>4, <1>6 DEF KeyMatchesHost
<1>10. daemon.pc \in Holding /\ daemon'.pc \in Holding
  BY <1>0, <1>6 DEF Holding
<1>11. token' \in BOOLEAN /\ accepted' \subseteq Endpoints
  BY <1>0, <1>5 DEF TypeOK
<1> QED
  BY <1>3, <1>4, <1>5, <1>6, <1>7, <1>8, <1>9, <1>10, <1>11 DEF DaemonGoes

LEMMA Dies ==
  ASSUME IInv, DaemonDie
  PROVE  DaemonGoes
<1>0. TypeOK /\ LockInv
  BY DEF IInv
<1>1. daemon' = Off /\ lock' = (IF lock = "daemon" THEN "free" ELSE lock)
      /\ UNCHANGED <<disk, key, token, cmd, accepted>>
  BY DEF DaemonDie
<1>2. daemon' \in Daemon /\ daemon'.pc = "off" /\ daemon'.key = "none"
  BY <1>1, OffType
<1>3. DaemonInv' /\ AnswerInv'
  BY <1>2 DEF DaemonInv, AnswerInv, At
<1>4. daemon'.pc \notin Holding /\ (lock # "daemon" => daemon.pc \notin Holding)
  BY <1>0, <1>2 DEF Holding, LockInv
<1>5. token' \in BOOLEAN /\ accepted' \subseteq Endpoints
  BY <1>0, <1>1 DEF TypeOK
<1> QED
  BY <1>1, <1>2, <1>3, <1>4, <1>5 DEF DaemonGoes

LEMMA DaemonSteps ==
  ASSUME IInv, DaemonStep \/ DaemonDie
  PROVE  DaemonGoes
BY Starts, Refreshes, Dispatches, Migrates, Acquires, LockedRefreshes, Unlocks, Answers, Saves,
   Dies DEF DaemonStep

LEMMA DaemonGone ==
  ASSUME IInv, DaemonGoes
  PROVE  IInv'
<1>0. TypeOK /\ LockInv /\ CommandInv /\ KeyMatchesHost /\ ActiveWasAccepted
  BY DEF IInv
<1>1. /\ daemon' \in Daemon /\ token' \in BOOLEAN /\ UNCHANGED <<key, cmd>>
      /\ accepted \subseteq accepted' /\ accepted' \subseteq Endpoints /\ DaemonInv' /\ AnswerInv'
  BY DEF DaemonGoes
<1>2. \/ disk' = disk
      \/ /\ disk # NoConfig /\ disk' \in Config /\ disk' # NoConfig /\ disk'.host = disk.host
         /\ disk'.state = "active" => disk'.endpoint \in accepted
  BY ConfigTypes DEF DaemonGoes
<1>3. LockInv' /\ lock' \in Commands \cup {"free", "daemon"}
  BY <1>0, <1>1, CommandsAssumption DEF DaemonGoes, LockInv, TypeOK
<1>4. TypeOK'
  BY <1>0, <1>1, <1>2, <1>3 DEF TypeOK
<1>5. CommandInv'
  BY <1>0, <1>1, <1>2 DEF CommandInv
<1>6. KeyMatchesHost'
  BY <1>0, <1>1, <1>2 DEF KeyMatchesHost, DaemonGoes
<1>7. ActiveWasAccepted'
  BY <1>0, <1>1, <1>2 DEF ActiveWasAccepted
<1> QED
  BY <1>1, <1>3, <1>4, <1>5, <1>6, <1>7 DEF IInv

------------------------------------------------------------------------------
(* The theorems. *)

LEMMA IInit == Init => IInv
<1> SUFFICES ASSUME Init PROVE IInv
  OBVIOUS
<1>0. daemon = Off /\ cmd = [c \in Commands |-> Ready] /\ lock = "free" /\ token \in BOOLEAN
  BY DEF Init
<1>1. /\ disk \in Config \cup {NoConfig} /\ key \in Hosts \cup {"none", "partial"}
      /\ accepted \subseteq Endpoints /\ (disk # NoConfig => key = disk.host)
      /\ disk.state = "active" => disk.endpoint \in accepted
  <2>1. CASE disk = NoConfig /\ key = "none" /\ accepted = {}
    BY <2>1 DEF NoConfig
  <2>2. CASE /\ disk \in [host: {"old"}, endpoint: Endpoints, state: OldStates] /\ key = "old"
             /\ accepted = IF disk.state = "active" THEN {disk.endpoint} ELSE {}
    <3>1. disk \in Config /\ disk.host = "old"
      BY <2>2, OldStatesAssumption DEF Config, Hosts
    <3> QED
      BY <2>2, <3>1, ConfigTypes DEF Hosts
  <2> QED
    BY <2>1, <2>2 DEF Init
<1>2. Ready \in Command /\ Ready.pc = "ready" /\ Ready.op = "none"
  BY DEF Ready, Command
<1>3. TypeOK
  BY <1>0, <1>1, <1>2, OffType DEF TypeOK
<1>4. LockInv
  BY <1>0, <1>2, OffType, CommandsAssumption DEF LockInv, Holding
<1>5. DaemonInv /\ AnswerInv
  BY <1>0, OffType DEF DaemonInv, AnswerInv, At
<1>6. CommandInv
  BY <1>0, <1>2 DEF CommandInv
<1>7. KeyMatchesHost /\ ActiveWasAccepted
  BY <1>0, <1>1, OffType DEF KeyMatchesHost, ActiveWasAccepted
<1> QED
  BY <1>3, <1>4, <1>5, <1>6, <1>7 DEF IInv

\* A step of the commands, as the daemon sees it.
LEMMA CommandSteps ==
  ASSUME IInv, NEW c \in Commands,
         \/ CmdStep(c) \/ CmdDie(c)
         \/ \E op \in {"init", "switch"}, endpoint \in Endpoints \cup {"none"},
               force \in BOOLEAN : CmdLock(c, op, endpoint, force)
  PROVE  IInv' /\ daemon' = daemon
<1>0. TypeOK /\ CommandInv /\ KeyMatchesHost
  BY DEF IInv
<1>1. CASE InitLoad(c) \/ SwitchLoad(c)
  <2>1. Moves(c) /\ cmd[c].pc = "load"
    BY <1>0, <1>1, LoadMoves
  <2> QED
    BY <2>1, CommandMoved DEF Moves
<1>2. CASE InitKey(c)
  BY <1>2, KeyMade DEF InitKey
<1>3. CASE CmdSave(c)
  BY <1>3, CommandSaved DEF CmdSave
<1>4. CASE CmdTidy(c) \/ CmdDie(c)
  BY <1>4, CommandEnded DEF CmdTidy, CmdDie
<1>5. ASSUME NEW op \in {"init", "switch"}, NEW endpoint \in Endpoints \cup {"none"},
             NEW force \in BOOLEAN, CmdLock(c, op, endpoint, force)
      PROVE  IInv' /\ daemon' = daemon
  BY <1>5, CommandStarted DEF CmdLock
<1> QED
  BY <1>1, <1>2, <1>3, <1>4, <1>5 DEF CmdStep

LEMMA IStep == IInv /\ [Next]_vars => IInv'
<1> SUFFICES ASSUME IInv, [Next]_vars PROVE IInv'
  OBVIOUS
<1>1. CASE UNCHANGED vars
  <2>1. DaemonInv' /\ AnswerInv' /\ KeyMatchesHost' /\ ActiveWasAccepted'
    BY <1>1, FilesStay DEF vars
  <2>2. TypeOK' /\ LockInv' /\ CommandInv'
    BY <1>1 DEF vars, IInv, TypeOK, LockInv, CommandInv
  <2> QED
    BY <2>1, <2>2 DEF IInv
<1>2. CASE DaemonStep \/ DaemonDie
  BY <1>2, DaemonSteps, DaemonGone
<1>3. CASE Next /\ ~(DaemonStep \/ DaemonDie)
  BY <1>3, CommandSteps DEF Next
<1> QED
  BY <1>1, <1>2, <1>3

LEMMA Inductive == Spec => []IInv
BY IInit, IStep, PTL DEF Spec

\* Every variable keeps its type, whatever the commands, the endpoints and the
\* states old agents may be found in (config.go, enrollment.go, main.go).
THEOREM EnrollmentTyped == Spec => []TypeOK
<1>1. IInv => TypeOK
  BY DEF IInv
<1> QED
  BY <1>1, Inductive, PTL

\* An active registration is one its backend accepted after the last command
\* staged it: the answer to an attempt is saved under the lock it was made with
\* (enrollment.go:166-195), and no command stages another one meanwhile.
THEOREM ActiveAccepted == Spec => []ActiveWasAccepted
<1>1. IInv => ActiveWasAccepted
  BY DEF IInv
<1> QED
  BY <1>1, Inductive, PTL

\* The key on disk is the one of the host in the configuration, and so is the
\* pair the daemon signs with, which it reads one file after the other and
\* without the lock (main.go:398-405).
THEOREM KeyMatches == Spec => []KeyMatchesHost
<1>1. IInv => KeyMatchesHost
  BY DEF IInv
<1> QED
  BY <1>1, Inductive, PTL

\* Under the lock the daemon keeps the endpoint and the host it finds on disk,
\* whatever it read before it had the lock (enrollment.go:166-195).
THEOREM EndpointKept == Spec => LockedKeepsTheEndpoint
<1> DEFINE Kept == lock = "daemon" /\ daemon' # daemon => /\ disk'.endpoint = disk.endpoint
                                                         /\ disk'.host = disk.host
<1>1. ASSUME IInv, [Next]_vars PROVE [Kept]_vars
  <2>1. CASE DaemonStep \/ DaemonDie
    BY <1>1, <2>1, DaemonSteps DEF DaemonGoes
  <2>2. CASE Next /\ ~(DaemonStep \/ DaemonDie)
    BY <1>1, <2>2, CommandSteps DEF Next
  <2> QED
    BY <1>1, <2>1, <2>2
<1> QED
  BY <1>1, Inductive, PTL DEF Spec, LockedKeepsTheEndpoint
==============================================================================
