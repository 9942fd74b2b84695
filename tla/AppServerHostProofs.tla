-------------------------- MODULE AppServerHostProofs --------------------------
(***************************************************************************)
(* What holds of AppServerHost on any platforms, with any length of a      *)
(* second and any number of commands, checks, updates and starts: its      *)
(* types, that a printed pairing works and the token is kept, and that     *)
(* restart-if-updated restarts what is outdated and notices what is.       *)
(***************************************************************************)
EXTENDS AppServerHost, TLAPS

\* Which command is at which place.
OpInv ==
    /\ cmd.pc \in {"port", "token", "config", "service", "cleanup"} => cmd.op = "setup"
    /\ cmd.pc \in {"truncate", "write", "print"} => cmd.op \in {"setup", "rotate"}
    /\ At("restart") => cmd.op \in {"rotate", "restart"}
    /\ At("halt") => cmd.op \in {"setup", "stop", "uninstall"}
    /\ cmd.pc \in {"remove", "delete"} => cmd.op = "uninstall"

\* A command writes one token at most.  From then on, or if it keeps one, there
\* is a token; if it is not to rotate it writes one only where there is none.
TokenInv ==
    /\ tokens <= commands + 1
    /\ cmd.pc \in {"halt", "port", "token", "truncate", "write"} => tokens <= commands
    /\ cmd.pc \in {"config", "service", "cleanup", "print"} => disk.token > Empty
    /\ At("restart") /\ cmd.op = "rotate" => disk.token > Empty
    /\ At("done") /\ cmd.op \in {"setup", "rotate"} => disk.token > Empty /\ cmd.printed = disk.token
    /\ cmd.pc \in {"truncate", "write"} /\ ~cmd.rotate =>
          disk.token <= Empty /\ disk.legacyToken <= Empty

\* The service manager keeps only units that are installed (as TypeOK says), and
\* during a setup none of the legacy name once that is stopped.
UnitInv ==
    /\ wanted # "none" => wanted \in disk.units
    /\ cmd.op = "setup" /\ cmd.pc \notin {"halt", "failed"} => wanted # "legacy"
    /\ os = "Darwin" /\ At("remove") => wanted = "none"

\* A setup that nobody crosses has the server stopped until it starts it ...
StoppedInv ==
    cmd.op = "setup" /\ ~cmd.crossed =>
        /\ cmd.pc \in {"port", "token", "truncate", "write", "config", "service"} => wanted = "none"
        /\ cmd.pc \in {"token", "truncate", "write", "config", "service"} => server = Off

\* ... with the token that is to be printed, as a rotation does that restarts it.
FreshInv ==
    \/ cmd.op = "setup" /\ ~cmd.crossed /\ cmd.pc \in {"cleanup", "print", "done"}
    \/ cmd.op = "rotate" /\ cmd.pc \in {"print", "done"}
    => /\ wanted # "legacy"
       /\ server # Off => server.token = disk.token

\* An executable says it was changed no later than it was, and a server that
\* runs the one that is configured was started after its change.
ImageInv ==
    /\ exe.link <= exe.changed /\ exe.file <= exe.changed
    /\ server # Off /\ server.image = exe.image => exe.changed <= server.started

\* What a check has read the executable says, unless it was changed since.
CheckInv ==
    /\ check.pc \in {"file", "pid", "elapsed"} => check.changed <= exe.changed
    /\ Checking("file") /\ exe.changed < check.asked => check.changed = exe.link
    /\ check.pc \in {"pid", "elapsed"} /\ exe.changed < check.asked =>
          check.changed >= exe.link /\ check.changed >= exe.file
    /\ Checking("elapsed") => check.pid > 0

IInv ==
    /\ TypeOK /\ OpInv /\ TokenInv /\ UnitInv /\ StoppedInv /\ FreshInv
    /\ ImageInv /\ CheckInv

------------------------------------------------------------------------------
(* Types. *)

PCs == {"idle", "done", "failed", "halt", "port", "token", "truncate", "write", "config",
        "service", "cleanup", "restart", "print", "remove", "delete"}

LEMMA TokenTypes == Tokens \subseteq Int /\ Missing \in Tokens /\ Empty \in Tokens
BY BoundsAssumption DEF Tokens, Missing, Empty

LEMMA DiskTypes ==
  ASSUME disk \in Disk
  PROVE  /\ disk.token \in Tokens /\ disk.token \in Int
         /\ disk.legacyToken \in Tokens /\ disk.legacyToken \in Int
         /\ disk.units \in SUBSET Units /\ disk.config \in SUBSET Units /\ disk.helper \in BOOLEAN
BY TokenTypes DEF Disk

LEMMA GotoTypes ==
  ASSUME cmd \in Command, NEW pc \in PCs, Goto(pc)
  PROVE  /\ cmd' \in Command /\ cmd'.pc = pc /\ cmd'.op = cmd.op /\ cmd'.printed = cmd.printed
         /\ cmd'.rotate = cmd.rotate /\ cmd'.crossed = cmd.crossed /\ cmd'.delete = cmd.delete
BY DEF Goto, Command, PCs

LEMMA NowTypes ==
  ASSUME TypeOK
  PROVE  /\ now \in Nat /\ starts \in Nat /\ commands \in Nat /\ tokens \in Nat
         /\ exe.file \in 0..now /\ exe.link \in 0..now /\ exe.changed \in 0..now
         /\ exe.image \in 0..MaxUpdates /\ exe.image \in Nat
BY BoundsAssumption DEF TypeOK, Executable

LEMMA ProcessTypes ==
  ASSUME TypeOK, server # Off
  PROVE  /\ server \in Process /\ server.unit \in Units /\ server.pid \in 1..starts
         /\ server.started \in 0..now /\ server.image \in 0..exe.image /\ server.token \in Tokens
BY DEF TypeOK, Process

LEMMA CheckTypes ==
  ASSUME TypeOK
  PROVE  /\ check.asked \in 0..now /\ check.changed \in 0..now /\ check.pid \in 0..starts
BY DEF TypeOK, UpdateCheck

------------------------------------------------------------------------------
(* Steps of a command on the files. *)

Quiet == UNCHANGED <<os, now, exe, wanted, server, starts, commands, check, checks>>

LEMMA QuietKeeps ==
  ASSUME IInv, Quiet, cmd' \in Command, disk' \in Disk, tokens' \in 1..(MaxCommands + 1),
         OpInv', TokenInv', UnitInv', StoppedInv', FreshInv'
  PROVE  IInv'
<1>1. TypeOK'
  BY DEF IInv, TypeOK, UnitInv, Quiet, Executable, Process, UpdateCheck
<1>2. ImageInv'
  BY DEF IInv, ImageInv, Quiet
<1>3. CheckInv'
  BY DEF IInv, CheckInv, Quiet, Checking
<1> QED
  BY <1>1, <1>2, <1>3 DEF IInv

LEMMA PortChecked ==
  ASSUME IInv, CheckPort
  PROVE  IInv'
<1>0. /\ cmd \in Command /\ disk \in Disk /\ tokens \in 1..(MaxCommands + 1)
      /\ OpInv /\ TokenInv /\ UnitInv /\ StoppedInv /\ FreshInv
  BY DEF IInv, TypeOK
<1>1. /\ Quiet /\ UNCHANGED <<disk, tokens>> /\ cmd.pc = "port"
  BY DEF CheckPort, Quiet, host, At
<1>2. PICK pc \in {"token", "failed"} : Goto(pc) /\ (pc = "token" => server = Off)
  BY DEF CheckPort
<1>3. /\ cmd' \in Command /\ cmd'.pc = pc /\ cmd'.op = cmd.op /\ cmd'.crossed = cmd.crossed
  BY <1>0, <1>2, GotoTypes DEF PCs
<1>4. OpInv' /\ TokenInv'
  BY <1>0, <1>1, <1>2, <1>3 DEF OpInv, TokenInv, At, Quiet
<1>5. UnitInv' /\ StoppedInv' /\ FreshInv'
  BY <1>0, <1>1, <1>2, <1>3 DEF UnitInv, StoppedInv, FreshInv, At, Quiet
<1> QED
  BY <1>0, <1>1, <1>3, <1>4, <1>5, QuietKeeps

LEMMA TokenEnsured ==
  ASSUME IInv, EnsureToken
  PROVE  IInv'
<1>0. /\ cmd \in Command /\ disk \in Disk /\ tokens \in 1..(MaxCommands + 1)
      /\ OpInv /\ TokenInv /\ UnitInv /\ StoppedInv /\ FreshInv
      /\ disk.token \in Tokens /\ disk.token \in Int
      /\ disk.legacyToken \in Tokens /\ disk.legacyToken \in Int
  BY DiskTypes DEF IInv, TypeOK
<1> DEFINE kept == IF disk.token <= Empty /\ disk.legacyToken > Empty /\ ~cmd.rotate
                   THEN disk.legacyToken ELSE disk.token
<1>1. /\ Quiet /\ UNCHANGED tokens /\ cmd.pc = "token" /\ disk' = [disk EXCEPT !.token = kept]
  BY DEF EnsureToken, Quiet, OnDisk, At
<1>2. PICK pc \in {"truncate", "config"} :
         Goto(pc) /\ (pc = "truncate" <=> cmd.rotate \/ kept <= Empty)
  BY DEF EnsureToken
<1>3. /\ cmd' \in Command /\ cmd'.pc = pc /\ cmd'.op = cmd.op /\ cmd'.crossed = cmd.crossed
      /\ cmd'.rotate = cmd.rotate
  BY <1>0, <1>2, GotoTypes DEF PCs
<1>4. kept \in Tokens /\ kept \in Int /\ (kept <= Empty /\ ~cmd.rotate => disk.legacyToken <= Empty)
  BY <1>0 DEF Empty
<1> HIDE DEF kept
<1>5. /\ disk' \in Disk /\ disk'.token = kept /\ disk'.legacyToken = disk.legacyToken
      /\ disk'.units = disk.units
  BY <1>0, <1>1, <1>4 DEF Disk
<1>6. OpInv'
  BY <1>0, <1>1, <1>3 DEF OpInv, At
<1>7. TokenInv'
  BY <1>0, <1>1, <1>2, <1>3, <1>4, <1>5 DEF TokenInv, At, Quiet, Empty
<1>8. UnitInv' /\ StoppedInv' /\ FreshInv'
  BY <1>0, <1>1, <1>3, <1>5 DEF UnitInv, StoppedInv, FreshInv, At, Quiet
<1> QED
  BY <1>0, <1>1, <1>3, <1>5, <1>6, <1>7, <1>8, QuietKeeps

LEMMA TokenWritten ==
  ASSUME IInv, Truncate \/ WriteToken
  PROVE  IInv'
<1>0. /\ TypeOK /\ cmd \in Command /\ disk \in Disk /\ tokens \in 1..(MaxCommands + 1)
      /\ OpInv /\ TokenInv /\ UnitInv /\ StoppedInv /\ FreshInv
      /\ cmd.rotate \in BOOLEAN
  BY DEF IInv, TypeOK, Command
<1>1. PICK pc \in {"write", "config", "restart"}, token \in {Empty} \cup 1..(MaxCommands + 1) :
        /\ Goto(pc) /\ disk' = [disk EXCEPT !.token = token]
        /\ tokens' \in 1..(MaxCommands + 1) /\ tokens' <= commands + 1
        /\ pc = "write" => token = Empty /\ tokens' = tokens /\ cmd.pc = "truncate"
        /\ pc # "write" => token > Empty /\ cmd.pc = "write"
        /\ pc = "config" <=> pc # "write" /\ cmd.op = "setup"
  <2>1. CASE Truncate
    BY <1>0, <2>1 DEF Truncate, TokenInv, At, Empty
  <2>2. CASE WriteToken
    <3>1. tokens + 1 \in 1..(MaxCommands + 1) /\ tokens + 1 > Empty /\ tokens + 1 <= commands + 1
      BY <1>0, <2>2, NowTypes, BoundsAssumption DEF WriteToken, TokenInv, TypeOK, At, Empty
    <3> QED
      BY <2>2, <3>1 DEF WriteToken, At
  <2> QED
    BY <2>1, <2>2
<1>2. Quiet /\ cmd.pc \in {"truncate", "write"}
  BY DEF Truncate, WriteToken, Quiet, OnDisk, At
<1>3. /\ cmd' \in Command /\ cmd'.pc = pc /\ cmd'.op = cmd.op /\ cmd'.crossed = cmd.crossed
      /\ cmd'.rotate = cmd.rotate
  BY <1>0, <1>1, GotoTypes DEF PCs
<1>4. token \in Tokens /\ token \in Int
  BY BoundsAssumption DEF Tokens, Empty
<1>5. /\ disk' \in Disk /\ disk'.token = token /\ disk'.legacyToken = disk.legacyToken
      /\ disk'.units = disk.units
  BY <1>0, <1>1, <1>4 DEF Disk
<1>6. cmd.op \in {"setup", "rotate"}
  BY <1>0, <1>2 DEF OpInv
<1>7. OpInv'
  BY <1>1, <1>3, <1>6 DEF OpInv, At
<1>8. TokenInv'
  BY <1>0, <1>1, <1>2, <1>3, <1>4, <1>5, <1>6 DEF TokenInv, At, Quiet, Empty
<1>9. UnitInv'
  BY <1>0, <1>1, <1>2, <1>3, <1>5 DEF UnitInv, At, Quiet
<1>10. StoppedInv'
  BY <1>0, <1>1, <1>2, <1>3 DEF StoppedInv, Quiet
<1>11. FreshInv'
  BY <1>1, <1>3, <1>6 DEF FreshInv
<1> QED
  BY <1>1, <1>2, <1>3, <1>5, <1>7, <1>8, <1>9, <1>10, <1>11, QuietKeeps

LEMMA ConfigWritten ==
  ASSUME IInv, WriteConfig \/ CleanupLegacy
  PROVE  IInv'
<1>0. /\ cmd \in Command /\ disk \in Disk /\ tokens \in 1..(MaxCommands + 1)
      /\ OpInv /\ TokenInv /\ UnitInv /\ StoppedInv /\ FreshInv
  BY DEF IInv, TypeOK
<1>1. PICK pc \in {"service", "print"} :
        /\ Goto(pc)
        /\ pc = "service" => cmd.pc = "config"
        /\ pc = "print" => cmd.pc = "cleanup"
        /\ disk' \in Disk /\ disk'.token = disk.token
        /\ \/ disk'.units = disk.units
           \/ disk'.units = disk.units \ {"legacy"} /\ pc = "print"
  <2>0. disk.units \in SUBSET Units
    BY <1>0 DEF Disk
  <2>1. CASE WriteConfig
    <3>1. disk' = [disk EXCEPT !.config = @ \cup {"current"}, !.helper = TRUE] /\ Goto("service")
          /\ cmd.pc = "config"
      BY <2>1 DEF WriteConfig, At
    <3>2. disk' \in Disk /\ disk'.token = disk.token /\ disk'.units = disk.units
      BY <1>0, <3>1 DEF Disk, Units
    <3> QED
      BY <3>1, <3>2
  <2>2. CASE CleanupLegacy
    <3>1. disk' = [disk EXCEPT !.config = @ \ {"legacy"}, !.units = @ \ {"legacy"},
                               !.legacyToken = Missing] /\ Goto("print") /\ cmd.pc = "cleanup"
      BY <2>2 DEF CleanupLegacy, At
    <3>2. disk' \in Disk /\ disk'.token = disk.token /\ disk'.units = disk.units \ {"legacy"}
      BY <1>0, <3>1, TokenTypes DEF Disk
    <3> QED
      BY <3>1, <3>2
  <2> QED
    BY <2>1, <2>2
<1>2. Quiet /\ UNCHANGED tokens
  BY DEF WriteConfig, CleanupLegacy, Quiet, OnDisk
<1>3. /\ cmd' \in Command /\ cmd'.pc = pc /\ cmd'.op = cmd.op /\ cmd'.crossed = cmd.crossed
  BY <1>0, <1>1, GotoTypes DEF PCs
<1>4. OpInv'
  BY <1>0, <1>1, <1>3 DEF OpInv, At
<1>5. TokenInv'
  BY <1>0, <1>1, <1>2, <1>3 DEF TokenInv, At, Quiet
<1>6. UnitInv'
  BY <1>0, <1>1, <1>2, <1>3 DEF UnitInv, OpInv, At, Quiet
<1>7. StoppedInv'
  BY <1>0, <1>1, <1>2, <1>3 DEF StoppedInv, Quiet
<1>8. FreshInv'
  BY <1>0, <1>1, <1>2, <1>3 DEF FreshInv, OpInv, Quiet
<1> QED
  BY <1>0, <1>1, <1>2, <1>3, <1>4, <1>5, <1>6, <1>7, <1>8, QuietKeeps

LEMMA PairingPrinted ==
  ASSUME IInv, PrintPairing
  PROVE  IInv'
<1>0. /\ cmd \in Command /\ disk \in Disk /\ tokens \in 1..(MaxCommands + 1)
      /\ OpInv /\ TokenInv /\ UnitInv /\ StoppedInv /\ FreshInv
      /\ disk.token \in Tokens /\ cmd.printed \in Tokens
  BY DiskTypes DEF IInv, TypeOK, Command
<1>1. Quiet /\ UNCHANGED <<disk, tokens>> /\ cmd.pc = "print"
  BY DEF PrintPairing, Quiet, host, At
<1>2. PICK pc \in {"done", "failed"}, printed \in Tokens :
        /\ cmd' = [cmd EXCEPT !.pc = pc, !.printed = printed]
        /\ pc = "done" => printed = disk.token
  <2>1. CASE disk.token = Missing
    <3>1. cmd' = [cmd EXCEPT !.pc = "failed"]
      BY <2>1 DEF PrintPairing
    <3>2. cmd' = [cmd EXCEPT !.pc = "failed", !.printed = cmd.printed]
      BY <1>0, <3>1 DEF Command
    <3> QED
      BY <1>0, <3>2
  <2>2. CASE disk.token # Missing
    BY <1>0, <2>2 DEF PrintPairing
  <2> QED
    BY <2>1, <2>2
<1>3. /\ cmd' \in Command /\ cmd'.pc = pc /\ cmd'.op = cmd.op /\ cmd'.crossed = cmd.crossed
      /\ cmd'.printed = printed
  BY <1>0, <1>2 DEF Command
<1>4. OpInv' /\ TokenInv'
  BY <1>0, <1>1, <1>2, <1>3 DEF OpInv, TokenInv, At, Quiet
<1>5. UnitInv' /\ StoppedInv'
  BY <1>0, <1>1, <1>2, <1>3 DEF UnitInv, StoppedInv, At, Quiet
<1>6. FreshInv'
  BY <1>0, <1>1, <1>2, <1>3 DEF FreshInv, Quiet
<1> QED
  BY <1>0, <1>1, <1>3, <1>4, <1>5, <1>6, QuietKeeps

LEMMA FilesDeleted ==
  ASSUME IInv, DeleteFiles
  PROVE  IInv'
<1>0. /\ cmd \in Command /\ disk \in Disk /\ tokens \in 1..(MaxCommands + 1)
      /\ OpInv /\ TokenInv /\ UnitInv
  BY DEF IInv, TypeOK
<1>1. Quiet /\ UNCHANGED tokens /\ cmd.pc = "delete" /\ Goto("done")
  BY DEF DeleteFiles, Quiet, OnDisk, At
<1>2. disk' \in Disk /\ disk'.units = disk.units
  BY <1>0, TokenTypes DEF DeleteFiles, Disk
<1>3. /\ cmd' \in Command /\ cmd'.pc = "done" /\ cmd'.op = cmd.op /\ cmd.op = "uninstall"
  BY <1>0, <1>1, GotoTypes DEF PCs, OpInv
<1>4. OpInv' /\ TokenInv'
  BY <1>0, <1>1, <1>3 DEF OpInv, TokenInv, At, Quiet
<1>5. UnitInv' /\ StoppedInv' /\ FreshInv'
  BY <1>0, <1>1, <1>2, <1>3 DEF UnitInv, StoppedInv, FreshInv, At, Quiet
<1> QED
  BY <1>0, <1>1, <1>2, <1>3, <1>4, <1>5, QuietKeeps

LEMMA Aborted ==
  ASSUME IInv, Abort
  PROVE  IInv'
<1>0. /\ cmd \in Command /\ disk \in Disk /\ tokens \in 1..(MaxCommands + 1)
      /\ OpInv /\ TokenInv /\ UnitInv
  BY DEF IInv, TypeOK
<1>1. Quiet /\ UNCHANGED <<disk, tokens>> /\ Goto("failed")
  BY DEF Abort, Quiet, host
<1>2. cmd' \in Command /\ cmd'.pc = "failed" /\ cmd'.op = cmd.op
  BY <1>0, <1>1, GotoTypes DEF PCs
<1>3. OpInv' /\ TokenInv'
  BY <1>0, <1>1, <1>2 DEF OpInv, TokenInv, At, Quiet
<1>4. UnitInv' /\ StoppedInv' /\ FreshInv'
  BY <1>0, <1>1, <1>2 DEF UnitInv, StoppedInv, FreshInv, At, Quiet
<1> QED
  BY <1>0, <1>1, <1>2, <1>3, <1>4, QuietKeeps

\* A command of another name than the one that was last begins.
LEMMA Begun ==
  ASSUME IInv, NEW op \in {"setup", "rotate", "restart", "stop", "uninstall"},
         NEW pc \in {"halt", "truncate", "restart"}, NEW rotate \in BOOLEAN, NEW start \in BOOLEAN,
         NEW delete \in BOOLEAN, Begin(op, pc, rotate, start, delete),
         pc = "halt" => op \in {"setup", "stop", "uninstall"},
         pc = "truncate" => op = "rotate" /\ rotate,
         pc = "restart" => op = "restart"
  PROVE  IInv'
<1>0. TypeOK /\ OpInv /\ TokenInv /\ UnitInv /\ ImageInv /\ CheckInv
  BY DEF IInv
<1>1. /\ UNCHANGED <<now, host, wanted, server, starts, check, checks>>
      /\ commands < MaxCommands /\ commands' = commands + 1
      /\ cmd' = [NoCommand EXCEPT !.op = op, !.pc = pc, !.rotate = rotate, !.start = start,
                                  !.delete = delete]
  BY DEF Begin
<1>2. /\ cmd' \in Command /\ cmd'.pc = pc /\ cmd'.op = op /\ cmd'.rotate = rotate
  BY <1>1, TokenTypes DEF NoCommand, Command
<1>3. commands' \in 0..MaxCommands /\ commands \in Int /\ tokens \in Int
  BY <1>0, <1>1, NowTypes, BoundsAssumption DEF TypeOK
<1>4. TypeOK'
  BY <1>0, <1>1, <1>2, <1>3 DEF TypeOK, host, Executable, Process, UpdateCheck
<1>5. OpInv'
  BY <1>2 DEF OpInv, At
<1>6. TokenInv'
  BY <1>0, <1>1, <1>2, <1>3 DEF TokenInv, At, host
<1>7. UnitInv'
  BY <1>0, <1>1, <1>2 DEF UnitInv, At, host
<1>8. StoppedInv' /\ FreshInv'
  BY <1>2 DEF StoppedInv, FreshInv
<1>9. ImageInv' /\ CheckInv'
  BY <1>0, <1>1 DEF ImageInv, CheckInv, Checking, host
<1> QED
  BY <1>4, <1>5, <1>6, <1>7, <1>8, <1>9 DEF IInv

Begins ==
    \/ \E rotate, start \in BOOLEAN : BeginSetup(rotate, start)
    \/ BeginRotation \/ BeginRestart \/ BeginStop
    \/ \E delete \in BOOLEAN : BeginUninstall(delete)

LEMMA BeginsKeep ==
  ASSUME IInv, Begins
  PROVE  IInv'
<1>1. ASSUME NEW rotate \in BOOLEAN, NEW start \in BOOLEAN, BeginSetup(rotate, start) PROVE IInv'
  BY <1>1, Begun DEF BeginSetup
<1>2. CASE BeginRotation
  BY <1>2, Begun DEF BeginRotation
<1>3. CASE BeginRestart
  BY <1>3, Begun DEF BeginRestart
<1>4. CASE BeginStop
  BY <1>4, Begun DEF BeginStop
<1>5. ASSUME NEW delete \in BOOLEAN, BeginUninstall(delete) PROVE IInv'
  BY <1>5, Begun DEF BeginUninstall
<1> QED
  BY <1>1, <1>2, <1>3, <1>4, <1>5 DEF Begins

------------------------------------------------------------------------------
(* Steps on the service. *)

\* A server that is started runs the executable there is, with the token there is.
LEMMA Launched ==
  ASSUME TypeOK, NEW unit \in Units, Launch(unit), UNCHANGED <<now, exe>>
  PROVE  /\ server' \in Process' /\ server' # Off /\ server'.unit = unit
         /\ wanted' = unit /\ starts' \in starts..MaxStarts /\ starts' \in 0..MaxStarts
         /\ server'.image = exe.image /\ server'.started = now
         /\ unit = "current" => server'.token = disk.token
<1>1. starts' = starts + 1 /\ wanted' = unit
      /\ server' = [unit |-> unit, pid |-> starts + 1, started |-> now, image |-> exe.image,
                    token |-> IF unit = "legacy" THEN disk.legacyToken ELSE disk.token]
  BY DEF Launch
<1>2. starts' \in starts..MaxStarts /\ starts' \in 0..MaxStarts /\ starts + 1 \in 1..starts'
  BY <1>1, NowTypes, BoundsAssumption DEF Launch
<1>3. now \in 0..now' /\ exe.image \in 0..exe'.image
  BY NowTypes
<1>4. PICK token \in Tokens :
        /\ server' = [unit |-> unit, pid |-> starts + 1, started |-> now, image |-> exe.image,
                      token |-> token]
        /\ unit = "current" => token = disk.token
  BY <1>1, DiskTypes DEF TypeOK
<1>5. server' \in Process'
  BY <1>2, <1>3, <1>4 DEF Process
<1>6. server'.unit # "none"
  BY <1>4 DEF Units
<1>7. server' # Off
  BY <1>6 DEF Off
<1> QED
  BY <1>1, <1>2, <1>4, <1>5, <1>7

\* What the service manager may do with the server when nothing else happens.
ServiceGoes ==
    /\ starts' \in starts..MaxStarts /\ wanted' \in {"none"} \cup Units
    /\ \/ server' = server /\ wanted' \in {"none", wanted}
       \/ server' = Off /\ wanted' \in {"none", wanted}
       \/ server' \in Process' /\ server' # Off /\ wanted' = server'.unit
          /\ server'.image = exe.image /\ server'.started = now

LEMMA ServiceMade ==
  ASSUME TypeOK, \/ ServiceAlone \/ Halt
                 \/ \E unit \in Units : Launch(unit) /\ UNCHANGED <<now, exe>>
  PROVE  ServiceGoes
<1>0. starts \in starts..MaxStarts /\ wanted \in {"none"} \cup Units
  BY NowTypes, BoundsAssumption DEF TypeOK, Disk
<1>1. CASE ServiceAlone \/ Halt
  BY <1>0, <1>1 DEF ServiceAlone, Halt, ServiceGoes
<1>2. ASSUME NEW unit \in Units, Launch(unit), UNCHANGED <<now, exe>> PROVE ServiceGoes
  BY <1>2, Launched DEF ServiceGoes
<1> QED
  BY <1>1, <1>2

LEMMA ServiceKeeps ==
  ASSUME IInv, ServiceGoes, UNCHANGED <<os, now, exe>>,
         cmd' \in Command, disk' \in Disk, tokens' \in 1..(MaxCommands + 1),
         commands' \in 0..MaxCommands, checks' \in 0..MaxChecks,
         check' \in UpdateCheck, CheckInv', OpInv', TokenInv', UnitInv', StoppedInv', FreshInv'
  PROVE  IInv'
<1>0. TypeOK /\ ImageInv
  BY DEF IInv
<1>1. starts \in Int /\ starts' \in starts..MaxStarts /\ starts' \in 0..MaxStarts
  BY <1>0, NowTypes, BoundsAssumption DEF ServiceGoes
<1>2. 0..starts \subseteq 0..starts' /\ 1..starts \subseteq 1..starts'
  BY <1>1
<1>3. exe' \in Executable' /\ (server \in Process => server \in Process')
  BY <1>0, <1>2 DEF TypeOK, Executable, Process
<1>4. check' \in UpdateCheck'
  BY <1>2 DEF UpdateCheck
<1>5. server' = Off \/ (server' \in Process' /\ wanted' \in {"none", server'.unit})
  BY <1>0, <1>3 DEF TypeOK, ServiceGoes
<1>6. TypeOK'
  BY <1>0, <1>1, <1>3, <1>4, <1>5 DEF TypeOK, UnitInv, ServiceGoes
<1>7. ImageInv'
  <2>1. exe.changed \in 0..now /\ now \in Int
    BY <1>0, NowTypes
  <2> QED
    BY <1>0, <2>1 DEF ImageInv, ServiceGoes
<1> QED
  BY <1>6, <1>7 DEF IInv

LEMMA ServiceStopped ==
  ASSUME IInv, StopService
  PROVE  IInv'
<1>0. /\ TypeOK /\ cmd \in Command /\ disk \in Disk /\ OpInv /\ TokenInv /\ UnitInv /\ CheckInv
      /\ tokens \in 1..(MaxCommands + 1) /\ commands \in 0..MaxCommands /\ checks \in 0..MaxChecks
      /\ check \in UpdateCheck
  BY DEF IInv, TypeOK
<1>1. UNCHANGED <<os, now, exe, disk, tokens, commands, check, checks>> /\ cmd.pc = "halt"
  BY DEF StopService, host, At
<1>2. PICK pc \in {"port", "failed", "done", "remove"} :
        /\ Goto(pc) /\ (Halt \/ ServiceAlone)
        /\ pc = "port" => cmd.op = "setup" /\ (Halt \/ ~Present)
        /\ pc = "done" => cmd.op = "stop"
        /\ pc = "remove" => cmd.op = "uninstall" /\ Halt
  <2>1. CASE cmd.op = "setup"
    BY <2>1 DEF StopService
  <2>2. CASE cmd.op # "setup"
    <3>1. cmd.op \in {"stop", "uninstall"}
      BY <1>0, <1>1, <2>2 DEF OpInv, At
    <3> QED
      BY <2>2, <3>1 DEF StopService
  <2> QED
    BY <2>1, <2>2
<1>3. /\ cmd' \in Command /\ cmd'.pc = pc /\ cmd'.op = cmd.op /\ cmd'.crossed = cmd.crossed
  BY <1>0, <1>2, GotoTypes DEF PCs
<1>4. ServiceGoes
  BY <1>0, <1>2, ServiceMade
<1>5. wanted' \in {"none", wanted} /\ (pc \in {"port", "remove"} => wanted' = "none")
  <2>1. ~Present => disk.units = {}
    BY DEF Present
  <2>2. ~Present => wanted = "none"
    BY <1>0, <2>1 DEF UnitInv
  <2> QED
    BY <1>2, <2>2 DEF Halt, ServiceAlone
<1>6. OpInv'
  BY <1>2, <1>3 DEF OpInv, At
<1>7. TokenInv'
  BY <1>0, <1>1, <1>2, <1>3 DEF TokenInv, At
<1>8. UnitInv'
  BY <1>0, <1>1, <1>2, <1>3, <1>5 DEF UnitInv, At
<1>9. StoppedInv' /\ FreshInv'
  BY <1>2, <1>3, <1>5 DEF StoppedInv, FreshInv
<1>10. CheckInv'
  BY <1>0, <1>1 DEF CheckInv, Checking
<1> QED
  BY <1>0, <1>1, <1>3, <1>4, <1>6, <1>7, <1>8, <1>9, <1>10, ServiceKeeps

LEMMA ServiceInstalled ==
  ASSUME IInv, InstallService
  PROVE  IInv'
<1>0. /\ TypeOK /\ cmd \in Command /\ disk \in Disk /\ OpInv /\ TokenInv /\ UnitInv /\ CheckInv
      /\ StoppedInv
      /\ tokens \in 1..(MaxCommands + 1) /\ commands \in 0..MaxCommands /\ checks \in 0..MaxChecks
      /\ check \in UpdateCheck
  BY DEF IInv, TypeOK
<1>1. /\ UNCHANGED <<os, now, exe, tokens, commands, check, checks>> /\ cmd.pc = "service"
      /\ disk' = [disk EXCEPT !.units = @ \cup {"current"}] /\ Goto("cleanup")
      /\ Launch("current") \/ ServiceAlone
  BY DEF InstallService, At
<1>2. /\ cmd' \in Command /\ cmd'.pc = "cleanup" /\ cmd'.op = cmd.op /\ cmd'.crossed = cmd.crossed
      /\ cmd.op = "setup"
  BY <1>0, <1>1, GotoTypes DEF PCs, OpInv
<1>3. /\ disk' \in Disk /\ disk'.token = disk.token /\ disk'.units = disk.units \cup {"current"}
  BY <1>0, <1>1 DEF Disk, Units
<1>4. ServiceGoes
  BY <1>0, <1>1, ServiceMade DEF Units
<1>5. \/ wanted' = wanted /\ server' = server
      \/ wanted' = "current" /\ server'.token = disk.token
  BY <1>0, <1>1, Launched DEF ServiceAlone, Units
<1>6. OpInv' /\ TokenInv'
  BY <1>0, <1>1, <1>2, <1>3 DEF OpInv, TokenInv, At
<1>7. UnitInv'
  BY <1>0, <1>1, <1>2, <1>3, <1>5 DEF UnitInv, At
<1>8. StoppedInv'
  BY <1>2 DEF StoppedInv
<1>9. FreshInv'
  BY <1>0, <1>1, <1>2, <1>3, <1>5 DEF FreshInv, StoppedInv, UnitInv
<1>10. CheckInv'
  BY <1>0, <1>1 DEF CheckInv, Checking
<1> QED
  BY <1>0, <1>1, <1>2, <1>3, <1>4, <1>6, <1>7, <1>8, <1>9, <1>10, ServiceKeeps

LEMMA ServiceRestarted ==
  ASSUME IInv, RestartService
  PROVE  IInv'
<1>0. /\ TypeOK /\ cmd \in Command /\ disk \in Disk /\ OpInv /\ TokenInv /\ UnitInv /\ CheckInv
      /\ tokens \in 1..(MaxCommands + 1) /\ commands \in 0..MaxCommands /\ checks \in 0..MaxChecks
      /\ check \in UpdateCheck
  BY DEF IInv, TypeOK
<1>1. UNCHANGED <<os, now, exe, disk, tokens, commands, check, checks>> /\ cmd.pc = "restart"
  BY DEF RestartService, host, At
<1>2. PICK pc \in {"print", "done", "failed"} :
        /\ Goto(pc) /\ (pc = "print" => cmd.op = "rotate") /\ (pc = "done" => cmd.op # "rotate")
        /\ \/ Launch("current") /\ "current" \in disk.units
           \/ ServiceAlone /\ pc = "failed"
  BY DEF RestartService
<1>3. /\ cmd' \in Command /\ cmd'.pc = pc /\ cmd'.op = cmd.op /\ cmd'.crossed = cmd.crossed
      /\ cmd.op \in {"rotate", "restart"}
  BY <1>0, <1>1, <1>2, GotoTypes DEF PCs, OpInv, At
<1>4. ServiceGoes
  BY <1>0, <1>1, <1>2, ServiceMade DEF Units
<1>5. \/ wanted' = wanted /\ server' = server /\ pc = "failed"
      \/ wanted' = "current" /\ server'.token = disk.token /\ "current" \in disk.units
  BY <1>0, <1>1, <1>2, Launched DEF ServiceAlone, Units
<1>6. OpInv' /\ TokenInv'
  BY <1>0, <1>1, <1>2, <1>3 DEF OpInv, TokenInv, At
<1>7. UnitInv'
  BY <1>0, <1>1, <1>2, <1>3, <1>5 DEF UnitInv, At
<1>8. StoppedInv' /\ FreshInv'
  BY <1>0, <1>1, <1>2, <1>3, <1>5 DEF StoppedInv, FreshInv
<1>9. CheckInv'
  BY <1>0, <1>1 DEF CheckInv, Checking
<1> QED
  BY <1>0, <1>1, <1>3, <1>4, <1>6, <1>7, <1>8, <1>9, ServiceKeeps

LEMMA UnitsRemoved ==
  ASSUME IInv, RemoveUnits
  PROVE  IInv'
<1>0. /\ TypeOK /\ cmd \in Command /\ disk \in Disk /\ OpInv /\ TokenInv /\ UnitInv /\ CheckInv
      /\ tokens \in 1..(MaxCommands + 1) /\ commands \in 0..MaxCommands /\ checks \in 0..MaxChecks
      /\ check \in UpdateCheck /\ os \in {"Darwin", "Linux"} /\ wanted \in {"none"} \cup Units
  BY PlatformsAssumption DEF IInv, TypeOK, Disk
<1>1. /\ UNCHANGED <<os, now, exe, tokens, server, starts, commands, check, checks>>
      /\ cmd.pc = "remove" /\ Goto("delete") /\ disk' = [disk EXCEPT !.units = {}]
      /\ wanted' = IF os = "Linux" THEN "none" ELSE wanted
  BY DEF RemoveUnits, At
<1>2. /\ cmd' \in Command /\ cmd'.pc = "delete" /\ cmd'.op = cmd.op /\ cmd.op = "uninstall"
  BY <1>0, <1>1, GotoTypes DEF PCs, OpInv
<1>3. disk' \in Disk /\ disk'.units = {} /\ wanted' = "none"
  BY <1>0, <1>1 DEF Disk, UnitInv, At
<1>4. ServiceGoes
  BY <1>0, <1>1, <1>3, NowTypes, BoundsAssumption DEF ServiceGoes, TypeOK
<1>5. OpInv' /\ TokenInv'
  BY <1>0, <1>1, <1>2 DEF OpInv, TokenInv, At
<1>6. UnitInv' /\ StoppedInv' /\ FreshInv'
  BY <1>2, <1>3 DEF UnitInv, StoppedInv, FreshInv, At
<1>7. CheckInv'
  BY <1>0, <1>1 DEF CheckInv, Checking
<1> QED
  BY <1>0, <1>1, <1>2, <1>3, <1>4, <1>5, <1>6, <1>7, ServiceKeeps

LEMMA CommandSteps ==
  ASSUME IInv, CommandStep \/ Abort
  PROVE  IInv'
BY PortChecked, TokenEnsured, TokenWritten, ConfigWritten, PairingPrinted, FilesDeleted, Aborted,
   ServiceStopped, ServiceInstalled, ServiceRestarted, UnitsRemoved DEF CommandStep

------------------------------------------------------------------------------
(* Steps of the clock, of Codex, of the service manager and of the check. *)

LEMMA Ticked ==
  ASSUME IInv, Tick
  PROVE  IInv'
<1>0. TypeOK /\ OpInv /\ TokenInv /\ UnitInv /\ StoppedInv /\ FreshInv /\ ImageInv /\ CheckInv
  BY DEF IInv
<1>1. UNCHANGED <<os, exe, disk, tokens, wanted, server, starts, cmd, commands, check, checks>>
  BY DEF Tick, host
<1>2. now \in Nat /\ now' \in 0..MaxTime /\ 0..now \subseteq 0..now'
  BY <1>0, NowTypes, BoundsAssumption DEF Tick
<1>3. exe' \in Executable'
  BY <1>0, <1>1, <1>2 DEF TypeOK, Executable
<1>4. check' \in UpdateCheck'
  BY <1>0, <1>1, <1>2 DEF TypeOK, UpdateCheck
<1>5. server \in Process => server' \in Process'
  BY <1>1, <1>2 DEF Process
<1>6. TypeOK'
  BY <1>0, <1>1, <1>2, <1>3, <1>4, <1>5 DEF TypeOK
<1>7. OpInv' /\ TokenInv' /\ UnitInv'
  BY <1>0, <1>1 DEF OpInv, TokenInv, UnitInv, At
<1>8. StoppedInv' /\ FreshInv'
  BY <1>0, <1>1 DEF StoppedInv, FreshInv
<1>9. ImageInv' /\ CheckInv'
  BY <1>0, <1>1 DEF ImageInv, CheckInv, Checking
<1> QED
  BY <1>6, <1>7, <1>8, <1>9 DEF IInv

\* A new executable is another than any server runs, and was changed just now.
LEMMA Replaced ==
  ASSUME IInv, Replace
  PROVE  IInv'
<1>0. TypeOK /\ OpInv /\ TokenInv /\ UnitInv /\ StoppedInv /\ FreshInv /\ ImageInv /\ CheckInv
  BY DEF IInv
<1>1. UNCHANGED <<os, now, disk, tokens, wanted, server, starts, cmd, commands, check, checks>>
  BY DEF Replace
<1>2. /\ now \in Nat /\ exe.link \in 0..now /\ exe.changed \in 0..now /\ exe.image \in Nat
      /\ exe.image + 1 \in 0..MaxUpdates
  BY <1>0, NowTypes, BoundsAssumption DEF Replace
<1>3. PICK file \in 0..now, link \in 0..now :
        exe' = [file |-> file, link |-> link, changed |-> now, image |-> exe.image + 1]
  BY <1>2 DEF Replace
<1>4. exe' \in Executable' /\ exe'.changed = now /\ exe'.image = exe.image + 1
      /\ exe'.link <= now /\ exe'.file <= now
  BY <1>1, <1>2, <1>3 DEF Executable
<1>5. check' \in UpdateCheck' /\ check.asked \in 0..now /\ check.changed \in 0..now
  BY <1>0, <1>1, CheckTypes DEF TypeOK, UpdateCheck
<1>6. 0..exe.image \subseteq 0..exe'.image
  BY <1>2, <1>4
<1>7. server \in Process => server' \in Process'
  BY <1>1, <1>6 DEF Process
<1>8. TypeOK'
  BY <1>0, <1>1, <1>4, <1>5, <1>7 DEF TypeOK
<1>9. OpInv' /\ TokenInv' /\ UnitInv'
  BY <1>0, <1>1 DEF OpInv, TokenInv, UnitInv, At
<1>10. StoppedInv' /\ FreshInv'
  BY <1>0, <1>1 DEF StoppedInv, FreshInv
<1>11. ImageInv'
  <2>1. server # Off => server.image # exe.image + 1
    BY <1>0, <1>2, ProcessTypes
  <2> QED
    BY <1>1, <1>4, <2>1 DEF ImageInv
<1>12. CheckInv'
  BY <1>0, <1>1, <1>2, <1>4, <1>5 DEF CheckInv, Checking
<1> QED
  BY <1>8, <1>9, <1>10, <1>11, <1>12 DEF IInv

LEMMA Died ==
  ASSUME IInv, Die \/ Respawn
  PROVE  IInv'
<1>0. /\ TypeOK /\ cmd \in Command /\ disk \in Disk /\ OpInv /\ TokenInv /\ UnitInv /\ CheckInv
      /\ StoppedInv /\ FreshInv /\ wanted \in {"none"} \cup Units
      /\ tokens \in 1..(MaxCommands + 1) /\ commands \in 0..MaxCommands /\ checks \in 0..MaxChecks
      /\ check \in UpdateCheck
  BY DEF IInv, TypeOK, Disk
<1>1. UNCHANGED <<os, now, exe, disk, tokens, cmd, commands, check, checks>>
  BY DEF Die, Respawn, host
<1>2. /\ ServiceGoes /\ wanted' = wanted
      /\ \/ server' = Off
         \/ wanted \in Units /\ (wanted = "current" => server'.token = disk.token)
  <2>1. CASE Die
    BY <1>0, <2>1, NowTypes, BoundsAssumption DEF Die, ServiceGoes, TypeOK
  <2>2. CASE Respawn
    <3>1. wanted \in Units /\ Launch(wanted)
      BY <1>0, <2>2 DEF Respawn
    <3> QED
      BY <1>0, <1>1, <3>1, Launched, ServiceMade
  <2> QED
    BY <2>1, <2>2
<1>3. OpInv' /\ TokenInv' /\ UnitInv'
  BY <1>0, <1>1, <1>2 DEF OpInv, TokenInv, UnitInv, At
<1>4. StoppedInv'
  BY <1>0, <1>1, <1>2 DEF StoppedInv, Units
<1>5. FreshInv'
  BY <1>0, <1>1, <1>2 DEF FreshInv, Units
<1>6. CheckInv'
  BY <1>0, <1>1 DEF CheckInv, Checking
<1> QED
  BY <1>0, <1>1, <1>2, <1>3, <1>4, <1>5, <1>6, ServiceKeeps

LEMMA AloneKeeps ==
  ASSUME IInv, Alone, check' \in UpdateCheck, checks' \in 0..MaxChecks, CheckInv'
  PROVE  IInv'
<1>0. TypeOK /\ OpInv /\ TokenInv /\ UnitInv /\ StoppedInv /\ FreshInv /\ ImageInv
  BY DEF IInv
<1>1. UNCHANGED <<os, exe, disk, tokens, now, wanted, server, starts, cmd, commands>>
  BY DEF Alone, host
<1>2. TypeOK'
  BY <1>0, <1>1 DEF TypeOK, Executable, Process, UpdateCheck
<1>3. OpInv' /\ TokenInv' /\ UnitInv' /\ StoppedInv' /\ FreshInv' /\ ImageInv'
  BY <1>0, <1>1 DEF OpInv, TokenInv, UnitInv, StoppedInv, FreshInv, ImageInv, At
<1> QED
  BY <1>2, <1>3 DEF IInv

\* The places of a check at which it has not read anything yet, or nothing more.
Settled == {"idle", "config", "link", "restart", "current", "restarted", "unknown"}

LEMMA CheckSettled ==
  ASSUME IInv, Alone, checks' \in 0..MaxChecks, check' \in UpdateCheck, check'.pc \in Settled
  PROVE  IInv'
<1>1. CheckInv'
  BY DEF CheckInv, Checking, Settled
<1> QED
  BY <1>1, AloneKeeps

LEMMA CheckEnds ==
  ASSUME IInv, Alone, checks' \in 0..MaxChecks, NEW pc \in Settled, check' = CheckEnded(pc)
  PROVE  IInv'
<1>1. 0 \in 0..now /\ 0 \in 0..starts
  BY NowTypes DEF IInv
<1>2. check' = [pc |-> pc, asked |-> 0, changed |-> 0, pid |-> 0]
  BY DEF CheckEnded, NoCheck
<1>3. check' \in UpdateCheck /\ check'.pc = pc
  BY <1>1, <1>2 DEF UpdateCheck, Settled
<1> QED
  BY <1>3, CheckSettled

LEMMA CheckReads ==
  ASSUME IInv, BeginCheck \/ ReadConfig \/ ReadLink \/ ReadFile
  PROVE  IInv'
<1>0. /\ TypeOK /\ CheckInv /\ ImageInv /\ checks \in 0..MaxChecks /\ check \in UpdateCheck
      /\ now \in Nat /\ exe.link \in 0..now /\ exe.file \in 0..now /\ exe.changed \in 0..now
      /\ check.asked \in 0..now /\ check.changed \in 0..now /\ starts \in Nat
  BY NowTypes, CheckTypes DEF IInv, TypeOK
<1>1. Alone /\ exe' = exe
  BY DEF BeginCheck, ReadConfig, ReadLink, ReadFile, Alone, host
<1>2. CASE BeginCheck
  <2>1. checks' \in 0..MaxChecks
    BY <1>0, <1>2, BoundsAssumption DEF BeginCheck
  <2>2. check' = [pc |-> "config", asked |-> now, changed |-> 0, pid |-> 0]
    BY <1>2 DEF BeginCheck, NoCheck
  <2>3. now \in 0..now /\ 0 \in 0..now /\ 0 \in 0..starts
    BY <1>0
  <2>4. check' \in UpdateCheck /\ check'.pc \in Settled
    BY <2>2, <2>3 DEF UpdateCheck, Settled
  <2> QED
    BY <1>1, <2>1, <2>4, CheckSettled
<1>3. CASE ReadConfig
  <2>1. CASE disk.config = {}
    BY <1>0, <1>1, <1>3, <2>1, CheckEnds DEF ReadConfig, Settled
  <2>2. CASE disk.config # {}
    <3>1. check' = [check EXCEPT !.pc = "link"]
      BY <1>3, <2>2 DEF ReadConfig
    <3>2. check' \in UpdateCheck /\ check'.pc = "link"
      BY <1>0, <3>1 DEF UpdateCheck
    <3>3. CheckInv'
      BY <3>2 DEF CheckInv, Checking
    <3> QED
      BY <1>0, <1>1, <1>3, <3>2, <3>3, AloneKeeps DEF ReadConfig
  <2> QED
    BY <2>1, <2>2
<1>4. CASE ReadLink
  <2>1. check' = [check EXCEPT !.pc = "file", !.changed = exe.link]
    BY <1>4 DEF ReadLink
  <2>2. check' \in UpdateCheck /\ check'.pc = "file" /\ check'.changed = exe.link
    BY <1>0, <2>1 DEF UpdateCheck
  <2>3. CheckInv'
    BY <1>0, <1>1, <2>2 DEF CheckInv, ImageInv, Checking
  <2> QED
    BY <1>0, <1>1, <1>4, <2>2, <2>3, AloneKeeps DEF ReadLink
<1>5. CASE ReadFile
  <2> DEFINE changed == IF exe.file > check.changed THEN exe.file ELSE check.changed
  <2>0. check' = [check EXCEPT !.pc = "pid", !.changed = changed]
    BY <1>5 DEF ReadFile
  <2>1. /\ changed \in 0..now /\ changed \in {exe.file, check.changed}
        /\ changed >= exe.file /\ changed >= check.changed
    BY <1>0
  <2> HIDE DEF changed
  <2>2. check' \in UpdateCheck /\ check'.pc = "pid" /\ check'.changed = changed
        /\ check'.asked = check.asked
    BY <1>0, <2>0, <2>1 DEF UpdateCheck
  <2>3. CheckInv'
    <3>1. check.changed <= exe.changed /\ (exe.changed < check.asked => check.changed = exe.link)
      BY <1>0, <1>5 DEF ReadFile, CheckInv, Checking
    <3>2. changed <= exe.changed
      BY <1>0, <2>1, <3>1 DEF ImageInv
    <3> QED
      BY <1>0, <1>1, <2>1, <2>2, <3>1, <3>2 DEF CheckInv, Checking
  <2> QED
    BY <1>0, <1>1, <1>5, <2>2, <2>3, AloneKeeps DEF ReadFile
<1> QED
  BY <1>2, <1>3, <1>4, <1>5

LEMMA CheckDecides ==
  ASSUME IInv, ReadPID \/ ReadElapsed \/ ReadNothing
  PROVE  IInv'
<1>0. /\ TypeOK /\ CheckInv /\ checks \in 0..MaxChecks /\ check \in UpdateCheck
      /\ now \in Nat
  BY NowTypes DEF IInv, TypeOK
<1>1. Alone /\ exe' = exe /\ checks' = checks
  BY DEF ReadPID, ReadElapsed, ReadNothing, Alone, host
<1>2. CASE ReadPID
  <2>1. CASE server.unit = "current"
    <3>1. server # Off
      BY <2>1 DEF Off
    <3>2. server.pid \in 1..starts /\ starts \in Nat
      BY <1>0, <3>1, ProcessTypes, NowTypes
    <3>3. check' = [check EXCEPT !.pc = "elapsed", !.pid = server.pid] /\ check.pc = "pid"
      BY <1>2, <2>1 DEF ReadPID, Checking
    <3>4. PICK pid \in 1..starts : check' = [check EXCEPT !.pc = "elapsed", !.pid = pid]
      BY <3>2, <3>3
    <3>5. pid \in 0..starts
      BY <3>2
    <3>6. /\ check' \in UpdateCheck /\ check'.pc = "elapsed" /\ check'.pid = pid
          /\ check'.changed = check.changed /\ check'.asked = check.asked
      BY <1>0, <3>4, <3>5 DEF UpdateCheck
    <3>7. CheckInv'
      BY <1>0, <1>1, <3>2, <3>3, <3>6 DEF CheckInv, Checking
    <3> QED
      BY <1>0, <1>1, <3>6, <3>7, AloneKeeps
  <2>2. CASE server.unit # "current"
    BY <1>0, <1>1, <1>2, <2>2, CheckEnds DEF ReadPID, Settled
  <2> QED
    BY <2>1, <2>2
<1>3. CASE ReadElapsed
  <2>1. PICK pc \in Settled : check' = CheckEnded(pc)
    BY <1>3 DEF ReadElapsed, CheckEnded, Settled
  <2> QED
    BY <1>0, <1>1, <2>1, CheckEnds
<1>4. CASE ReadNothing
  BY <1>0, <1>1, <1>4, CheckEnds DEF ReadNothing, Settled
<1> QED
  BY <1>2, <1>3, <1>4

\* A restart that the check makes counts as crossing the command that runs.
LEMMA UpdatedRestarted ==
  ASSUME IInv, RestartUpdated
  PROVE  IInv'
<1>0. /\ TypeOK /\ cmd \in Command /\ disk \in Disk /\ OpInv /\ TokenInv /\ UnitInv /\ CheckInv
      /\ StoppedInv /\ FreshInv
      /\ tokens \in 1..(MaxCommands + 1) /\ commands \in 0..MaxCommands /\ checks \in 0..MaxChecks
      /\ check \in UpdateCheck
  BY DEF IInv, TypeOK
<1>1. UNCHANGED <<os, now, exe, disk, tokens, commands, checks>>
  BY DEF RestartUpdated, host
<1>2. CASE \/ os = "Linux" /\ "current" \in disk.units
           \/ os = "Darwin" /\ wanted = "current"
  <2>1. Launch("current") /\ check' = CheckEnded("restarted")
        /\ cmd' = [cmd EXCEPT !.crossed = ~Ended]
    BY <1>2 DEF RestartUpdated
  <2>2. (~Ended) \in BOOLEAN
    BY DEF Ended
  <2>3. cmd' \in Command
    BY <1>0, <2>1, <2>2 DEF Command
  <2>4. /\ cmd'.pc = cmd.pc /\ cmd'.op = cmd.op /\ cmd'.rotate = cmd.rotate
        /\ cmd'.printed = cmd.printed
    BY <1>0, <2>1 DEF Command
  <2>5. ~Ended => cmd'.crossed
    BY <1>0, <2>1, <2>2 DEF Command
  <2>6. check' \in UpdateCheck /\ check'.pc = "restarted"
    BY <1>0, <2>1, NowTypes DEF CheckEnded, NoCheck, UpdateCheck
  <2>7. ServiceGoes
    BY <1>0, <1>1, <2>1, ServiceMade DEF Units
  <2>8. wanted' = "current" /\ server'.token = disk.token
    BY <1>0, <1>1, <2>1, Launched DEF Units
  <2>9. "current" \in disk.units /\ ~(os = "Darwin" /\ At("remove"))
    BY <1>0, <1>2 DEF UnitInv
  <2>10. OpInv' /\ TokenInv'
    BY <1>0, <1>1, <2>4 DEF OpInv, TokenInv, At
  <2>11. UnitInv'
    BY <1>0, <1>1, <2>4, <2>8, <2>9 DEF UnitInv, At
  <2>12. StoppedInv'
    BY <2>4, <2>5 DEF StoppedInv, Ended
  <2>13. FreshInv'
    BY <1>1, <2>8 DEF FreshInv
  <2>14. CheckInv'
    BY <2>6 DEF CheckInv, Checking
  <2> QED
    BY <1>0, <1>1, <2>3, <2>6, <2>7, <2>10, <2>11, <2>12, <2>13, <2>14, ServiceKeeps
<1>3. CASE ~ \/ os = "Linux" /\ "current" \in disk.units
             \/ os = "Darwin" /\ wanted = "current"
  <2>1. check' = CheckEnded("unknown") /\ ServiceAlone /\ UNCHANGED cmd
    BY <1>3 DEF RestartUpdated
  <2>2. Alone
    BY <1>1, <2>1 DEF Alone, ServiceAlone, host
  <2> QED
    BY <1>0, <1>1, <2>1, <2>2, CheckEnds DEF Settled
<1> QED
  BY <1>2, <1>3

------------------------------------------------------------------------------
(* The invariant. *)

LEMMA IInit ==
  ASSUME Init
  PROVE  IInv
<1>1. /\ now = 0 /\ os \in Platforms /\ tokens = 1 /\ commands = 0 /\ checks = 0
      /\ exe = [file |-> 0, link |-> 0, changed |-> 0, image |-> 0]
      /\ cmd = NoCommand /\ check = NoCheck
      /\ starts = IF server = Off THEN 0 ELSE 1
  BY DEF Init
<1>2. /\ MaxTime \in Nat /\ MaxUpdates \in Nat /\ MaxCommands \in Nat /\ MaxChecks \in Nat
      /\ MaxStarts \in Nat \ {0}
  BY BoundsAssumption
<1>3. exe \in Executable
  BY <1>1, <1>2 DEF Executable
<1>4. starts \in 0..MaxStarts /\ 0 \in 0..starts
  BY <1>1, <1>2
<1>5. check \in UpdateCheck
  BY <1>1, <1>4 DEF UpdateCheck, NoCheck
<1>6. cmd \in Command
  BY <1>1, TokenTypes DEF Command, NoCommand
<1>7. {Missing, Empty, 1} \subseteq Tokens
  BY <1>2 DEF Tokens
<1>8. disk \in Disk
  <2>1. Bare \in Disk /\ Installed \in Disk
    BY <1>7 DEF Bare, Installed, Disk, Units
  <2>2. Legacy \in Disk
    BY <1>7 DEF Bare, Legacy, Disk, Units
  <2>3. [Legacy EXCEPT !.token = Empty] \in Disk /\ [Installed EXCEPT !.token = Empty] \in Disk
    BY <1>7, <2>1, <2>2 DEF Disk
  <2> QED
    BY <2>1, <2>2, <2>3 DEF Init
<1>9. /\ Legacy.units = {"legacy"} /\ Installed.units = {"current"}
      /\ [Installed EXCEPT !.token = Empty].units = {"current"}
  BY DEF Bare, Legacy, Installed
<1>10. \/ wanted = "none" /\ server = Off
       \/ wanted = "legacy" /\ server = Running("legacy") /\ disk = Legacy
       \/ /\ wanted = "current" /\ server = Running("current")
          /\ disk \in {Installed, [Installed EXCEPT !.token = Empty]}
  BY DEF Init
<1>11. \/ wanted = "none" /\ server = Off
       \/ wanted \in Units /\ wanted \in disk.units /\ server = Running(wanted)
  BY <1>9, <1>10 DEF Units
<1>12. ASSUME wanted \in Units, server = Running(wanted)
       PROVE  server \in Process /\ server.unit = wanted /\ server.started = 0 /\ server # Off
  <2>1. server = [unit |-> wanted, pid |-> 1, started |-> 0, image |-> 0, token |-> 1]
    BY <1>12 DEF Running, Off
  <2>2. server.unit # Off.unit
    BY <1>12, <2>1 DEF Off, Units
  <2>3. starts = 1
    BY <1>1, <2>2
  <2> QED
    BY <1>1, <1>7, <1>12, <2>1, <2>2, <2>3 DEF Process
<1>13. TypeOK
  <2>1. /\ wanted \in {"none"} \cup disk.units
        /\ server = Off \/ (server \in Process /\ wanted = server.unit)
    BY <1>11, <1>12
  <2> QED
    BY <1>1, <1>2, <1>3, <1>4, <1>5, <1>6, <1>8, <2>1 DEF TypeOK
<1>14. OpInv /\ TokenInv /\ StoppedInv /\ FreshInv
  BY <1>1 DEF OpInv, TokenInv, StoppedInv, FreshInv, NoCommand, At
<1>15. UnitInv
  BY <1>1, <1>11 DEF UnitInv, NoCommand, At
<1>16. ImageInv
  BY <1>1, <1>11, <1>12 DEF ImageInv
<1>17. CheckInv
  BY <1>1 DEF CheckInv, NoCheck, Checking
<1> QED
  BY <1>13, <1>14, <1>15, <1>16, <1>17 DEF IInv

LEMMA IStep == IInv /\ [Next]_vars => IInv'
<1> SUFFICES ASSUME IInv, [Next]_vars PROVE IInv'
  OBVIOUS
<1>1. CASE Next
  <2>1. CASE Begins
    BY <2>1, BeginsKeep
  <2>2. CASE CommandStep \/ Abort
    BY <2>2, CommandSteps
  <2>3. CASE CheckStep
    BY <2>3, CheckReads, CheckDecides, UpdatedRestarted DEF CheckStep
  <2> QED
    BY <1>1, <2>1, <2>2, <2>3, Ticked, Replaced, Died, CheckReads DEF Next, Begins
<1>2. CASE UNCHANGED vars
  <2>1. Alone /\ UNCHANGED <<check, checks, exe>>
    BY <1>2 DEF vars, Alone, host
  <2>2. check' \in UpdateCheck /\ checks' \in 0..MaxChecks /\ CheckInv'
    BY <2>1 DEF IInv, TypeOK, CheckInv, Checking
  <2> QED
    BY <2>1, <2>2, AloneKeeps
<1> QED
  BY <1>1, <1>2

LEMMA Inductive == Spec => []IInv
BY IInit, IStep, PTL DEF Spec

------------------------------------------------------------------------------
(* The theorems. *)

\* Every variable keeps its type: a server that the service manager watches is of
\* the unit it is to keep running, and no clock reading is ahead of the clock.
THEOREM HostTyped == Spec => []TypeOK
BY Inductive, PTL DEF IInv

\* The pairing printed by a setup or a rotation is one the running server accepts,
\* unless restart-if-updated crossed the command: the server is stopped before the
\* token changes and started after, or restarted (setup.sh:1334-1346, 1769-1775).
THEOREM PairingProved == Spec => []PairingWorks
<1>1. IInv => PairingWorks
  BY DEF IInv, TokenInv, FreshInv, PairingWorks, At
<1> QED
  BY <1>1, Inductive, PTL

LEMMA TokenStep ==
  ASSUME IInv, [Next]_vars, Usable # Usable'
  PROVE  Usable <= Empty \/ cmd.rotate \/ cmd.delete
<1>0. /\ disk \in Disk /\ TokenInv
      /\ disk.token \in Int /\ disk.legacyToken \in Int
  BY DiskTypes DEF IInv, TypeOK
<1>1. disk' # disk
  BY DEF Usable
<1>2. CASE EnsureToken
  <2>1. CASE disk.token <= Empty /\ disk.legacyToken > Empty /\ ~cmd.rotate
    <3>1. disk'.token = disk.legacyToken /\ disk'.legacyToken = disk.legacyToken
      BY <1>0, <1>2, <2>1 DEF EnsureToken, Disk
    <3> QED
      BY <1>0, <2>1, <3>1 DEF Usable, Empty
  <2>2. CASE ~(disk.token <= Empty /\ disk.legacyToken > Empty /\ ~cmd.rotate)
    <3>1. disk'.token = disk.token /\ disk'.legacyToken = disk.legacyToken
      BY <1>0, <1>2, <2>2 DEF EnsureToken, Disk
    <3> QED
      BY <3>1 DEF Usable
  <2> QED
    BY <2>1, <2>2
<1>3. CASE Truncate \/ WriteToken
  <2>1. cmd.pc \in {"truncate", "write"}
    BY <1>3 DEF Truncate, WriteToken, At
  <2> QED
    BY <1>0, <2>1 DEF TokenInv, Usable
<1>4. CASE WriteConfig
  <2>1. disk'.token = disk.token /\ disk'.legacyToken = disk.legacyToken
    BY <1>0, <1>4 DEF WriteConfig, Disk
  <2> QED
    BY <2>1 DEF Usable
<1>5. CASE InstallService \/ RemoveUnits
  <2>1. disk'.token = disk.token /\ disk'.legacyToken = disk.legacyToken
    BY <1>0, <1>5 DEF InstallService, RemoveUnits, Disk
  <2> QED
    BY <2>1 DEF Usable
<1>6. CASE CleanupLegacy
  <2>1. disk'.token = disk.token /\ disk.token > Empty
    BY <1>0, <1>6 DEF CleanupLegacy, TokenInv, Disk, At
  <2> QED
    BY <2>1 DEF Usable
<1>7. CASE DeleteFiles
  <2>1. ~cmd.delete => disk'.token = disk.token /\ disk'.legacyToken = disk.legacyToken
    BY <1>0, <1>7 DEF DeleteFiles, Disk
  <2> QED
    BY <2>1 DEF Usable
<1>8. CASE Begins \/ Tick \/ Replace \/ Die \/ Respawn \/ Abort \/ UNCHANGED vars
  BY <1>1, <1>8 DEF Begins, Begin, BeginSetup, BeginRotation, BeginRestart, BeginStop,
     BeginUninstall, Tick, Replace, Die, Respawn, Abort, vars, host
<1>9. CASE StopService \/ CheckPort \/ RestartService \/ PrintPairing
  BY <1>1, <1>9 DEF StopService, CheckPort, RestartService, PrintPairing, host
<1>10. CASE BeginCheck \/ CheckStep
  BY <1>1, <1>10 DEF BeginCheck, CheckStep, ReadConfig, ReadLink, ReadFile, ReadPID, ReadElapsed,
     ReadNothing, RestartUpdated, Alone, host
<1> QED
  BY <1>2, <1>3, <1>4, <1>5, <1>6, <1>7, <1>8, <1>9, <1>10 DEF Next, CommandStep, Begins

\* Only a rotation replaces the token that apps are paired with, and only an
\* uninstallation that is told to deletes it; setup takes a legacy one over before
\* it removes the legacy files, and an interrupted one leaves it (README.md:34-37).
THEOREM TokenKept == Spec => TokenIsKept
<1>1. IInv /\ [Next]_vars =>
        [Usable # Usable' => Usable <= Empty \/ cmd.rotate \/ cmd.delete]_vars
  BY TokenStep
<1> QED
  BY <1>1, Inductive, PTL DEF Spec, TokenIsKept

LEMMA WholeSeconds ==
  ASSUME NEW n \in Nat
  PROVE  /\ Second * (n \div Second) \in Int
         /\ Second * (n \div Second) <= n /\ Second * (n \div Second) > n - Second
<1>1. n \div Second \in Int
  BY SecondAssumption
<1>2. Second * (n \div Second) \in Int
  BY <1>1, SecondAssumption
<1>3. Second * (n \div Second) <= n
  BY SecondAssumption
<1>4. Second * (n \div Second) > n - Second
  BY SecondAssumption
<1> QED
  BY <1>2, <1>3, <1>4

\* What a check that decides has read, of the server it has read of.
LEMMA Decided ==
  ASSUME IInv, [Next]_vars, check.pc = "elapsed", check'.pc \in {"restart", "current"}
  PROVE  /\ server # Off /\ (check'.pc = "restart" <=> RestartRequired)
         /\ server.started \in 0..now /\ Elapsed \in Int
         /\ Elapsed <= now - server.started /\ Elapsed > now - server.started - Second
<1>0. TypeOK /\ CheckInv /\ now \in Nat
  BY NowTypes DEF IInv
<1>1. ReadElapsed
  <2>1. check' # check
    OBVIOUS
  <2>2. ~(Begins \/ Tick \/ Replace \/ Die \/ Respawn \/ Abort \/ UNCHANGED vars)
    BY <2>1 DEF Begins, Begin, BeginSetup, BeginRotation, BeginRestart, BeginStop,
       BeginUninstall, Tick, Replace, Die, Respawn, Abort, vars, host
  <2>3. ~CommandStep
    BY <2>1 DEF CommandStep, StopService, CheckPort, EnsureToken, Truncate, WriteToken,
       WriteConfig, InstallService, CleanupLegacy, RestartService, PrintPairing, RemoveUnits,
       DeleteFiles, OnDisk
  <2>4. ~(BeginCheck \/ ReadConfig \/ ReadLink \/ ReadFile \/ ReadPID \/ RestartUpdated)
    BY DEF BeginCheck, ReadConfig, ReadLink, ReadFile, ReadPID, RestartUpdated, Checking
  <2>5. ~ReadNothing
    BY DEF ReadNothing, CheckEnded, NoCheck
  <2> QED
    BY <2>2, <2>3, <2>4, <2>5 DEF Next, Begins, CheckStep
<1>2. server.pid = check.pid /\ (check'.pc = "restart" <=> RestartRequired)
  BY <1>1 DEF ReadElapsed, CheckEnded, NoCheck
<1>3. server # Off
  <2>1. check.pid > 0
    BY <1>0 DEF CheckInv, Checking
  <2>2. Off.pid = 0
    BY DEF Off
  <2> QED
    BY <1>2, <2>1, <2>2
<1>4. server.started \in 0..now
  BY <1>0, <1>3, ProcessTypes
<1>5. now - server.started \in Nat
  BY <1>0, <1>4
<1>6. /\ Elapsed \in Int /\ Elapsed <= now - server.started
      /\ Elapsed > now - server.started - Second
  BY <1>5, WholeSeconds DEF Elapsed
<1> QED
  BY <1>2, <1>3, <1>4, <1>6

LEMMA OutdatedStep ==
  ASSUME IInv, [Next]_vars, check.pc = "elapsed", check'.pc = "restart",
         now - check.asked <= Tolerance
  PROVE  server.image # exe.image
<1>0. /\ CheckInv /\ ImageInv /\ now \in Nat /\ exe.changed \in 0..now
      /\ check.asked \in 0..now /\ check.changed \in 0..now
  BY NowTypes, CheckTypes DEF IInv
<1>1. /\ server # Off /\ RestartRequired /\ server.started \in 0..now /\ Elapsed \in Int
      /\ Elapsed <= now - server.started
  BY Decided
<1>2. Tolerance \in Int
  BY SecondAssumption DEF Tolerance
<1>3. check.changed > server.started
  BY <1>0, <1>1, <1>2 DEF RestartRequired
<1>4. check.changed <= exe.changed
  BY <1>0 DEF CheckInv
<1> QED
  BY <1>0, <1>1, <1>3, <1>4 DEF ImageInv

\* restart-if-updated stops a server only if its executable is no longer the one
\* that is configured, if its four readings take no longer than mtimeTolerance
\* (update.go:43-47): whole seconds only make the server look younger.
THEOREM OutdatedOnly == Spec => OnlyOutdatedIsRestarted
<1>1. IInv /\ [Next]_vars =>
        [check.pc = "elapsed" /\ check'.pc = "restart" /\ now - check.asked <= Tolerance
           => server.image # exe.image]_vars
  BY OutdatedStep
<1> QED
  BY <1>1, Inductive, PTL DEF Spec, OnlyOutdatedIsRestarted

LEMMA NoticedStep ==
  ASSUME IInv, [Next]_vars, check.pc = "elapsed", check'.pc = "current",
         exe.changed \in {exe.file, exe.link}, exe.changed < check.asked,
         exe.changed >= server.started + Tolerance + Second
  PROVE  FALSE
<1>0. /\ CheckInv /\ now \in Nat /\ exe.changed \in 0..now
      /\ check.asked \in 0..now /\ check.changed \in 0..now
  BY NowTypes, CheckTypes DEF IInv
<1>1. /\ ~RestartRequired /\ server.started \in 0..now /\ Elapsed \in Int
      /\ Elapsed > now - server.started - Second
  BY Decided
<1>2. Tolerance \in Int /\ Second \in Int
  BY SecondAssumption DEF Tolerance
<1>3. check.changed >= exe.changed
  BY <1>0 DEF CheckInv
<1>4. check.changed <= check.asked - Elapsed + Tolerance
  BY <1>0, <1>1, <1>2 DEF RestartRequired
<1> QED
  BY <1>0, <1>1, <1>2, <1>3, <1>4

\* And it is not content with a server that started three seconds or more before
\* a change that the link or the file is dated with: mtimeTolerance and the part
\* of a second that ps cuts off (update.go:32-33, 101-105).
THEOREM UpdatesNoticed == Spec => UpdatesAreNoticed
<1>1. IInv /\ [Next]_vars =>
        [check.pc = "elapsed" /\ check'.pc = "current" =>
            ~ /\ exe.changed \in {exe.file, exe.link}
              /\ exe.changed < check.asked
              /\ exe.changed >= server.started + Tolerance + Second]_vars
  BY NoticedStep
<1> QED
  BY <1>1, Inductive, PTL DEF Spec, UpdatesAreNoticed
==============================================================================
