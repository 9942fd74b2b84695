-------------------------- MODULE AgentUpgradeProofs --------------------------
(***************************************************************************)
(* What holds of AgentUpgrade for any releases, whatever they announce and *)
(* report, any steps that may fail, and any number of setups: its types,   *)
(* that a setup that succeeds leaves the new agent, and no daemon of       *)
(* another one, and that Herdr support is lost in no update; and, of a     *)
(* setup whose copy of the old binary is not interrupted, that the binary  *)
(* is always whole and that a setup that fails leaves what it found.       *)
(***************************************************************************)
EXTENDS AgentUpgrade, TLAPS

\* The steps between the replacement of the binary and the end.
AfterInstall == {"verify", "enroll", "service", "start", "herdr", "confirm", "finish"}

\* Until it has confirmed, a setup has not confirmed; and it keeps its binary
\* from the installation on.
StepInv ==
    /\ setup.pc \in (Steps \ {"finish"}) \cup {"restarting"} => ~setup.confirmed
    /\ setup.pc \in AfterInstall \cup {"done"} => binary = setup.incoming
    /\ setup.pc \in Steps \cup {"trap", "restarting", "failed", "done"} =>
          setup.incoming \in Versions

\* A release that would lose support is not installed.
SupportInv ==
    setup.pc \in {"backup", "install"} => Announced(binary) \subseteq Announced(setup.incoming)

\* A setup that has not asked for a restart has found no other binary, and no
\* daemon of another one; nor is there one from the start of the service on.
LiveInv ==
    /\ At("backup") => setup.restart
    /\ setup.pc \in {"install"} \cup AfterInstall /\ ~setup.restart =>
          /\ binary \in {"none", setup.incoming}
          /\ live \in {"none", setup.incoming}
    /\ setup.pc \in {"herdr", "confirm", "finish", "done"} /\ ~setup.noStart =>
          live \in {"none", setup.incoming}

\* What holds whatever step fails.
IInv == TypeOK /\ StepInv /\ SupportInv /\ LiveInv

\* The copy of the old binary is there when it is needed: whenever the binary
\* may be another one than before.
KeptInv ==
    /\ setup.pc \in {"prepare", "backup", "install"} => binary = setup.before
    /\ At("prepare") => setup.backup = "none"
    /\ At("backup") => setup.before \notin {"none", setup.incoming}
    /\ setup.pc \in {"install"} \cup AfterInstall =>
          setup.backup = IF setup.before \in {"none", setup.incoming} THEN "none" ELSE setup.before
    /\ At("trap") /\ ~setup.confirmed =>
          \/ setup.backup = "none" /\ (setup.before = "none" \/ binary = setup.before)
          \/ setup.backup = setup.before
    /\ At("restarting") => binary = setup.before

\* What a setup is that begins: the binary it finds is one that can be kept.
WholeInv == binary # "partial" /\ setup.before # "partial"

WInv == IInv /\ WholeInv /\ KeptInv /\ FailureRestores

------------------------------------------------------------------------------
(* Types. *)

\* What is running after a restart.
LEMMA AfterRestart ==
  ASSUME TypeOK, Restarted, UNCHANGED <<binary, config, service>>
  PROVE  /\ live' \in Versions \cup {"none"} /\ socket' \in BOOLEAN
         /\ live' \in {"none", binary}
         /\ live' # "none" => socket' /\ service' /\ config'
         /\ ~service => live' = "none"
BY VersionsAssumption DEF TypeOK, Restarted

LEMMA FreshType == Fresh \in Setup
BY StepsAssumption DEF Fresh, Setup, Files

LEMMA TypedInit == Init => TypeOK
<1> SUFFICES ASSUME Init PROVE TypeOK
  OBVIOUS
<1>1. binary \in Files /\ live \in Versions \cup {"none"}
  BY DEF Init, Files
<1>2. config \in BOOLEAN /\ service \in BOOLEAN /\ socket \in BOOLEAN
  BY DEF Init
<1>3. live # "none" => socket /\ service /\ config
  BY DEF Init
<1> QED
  BY <1>1, <1>2, <1>3, FreshType DEF Init, TypeOK

LEMMA TypedStep == TypeOK /\ [Next]_vars => TypeOK'
<1> SUFFICES ASSUME TypeOK, [Next]_vars PROVE TypeOK'
  OBVIOUS
<1> USE DEF TypeOK, Setup
<1>1. ASSUME NEW incoming \in Versions, NEW noStart \in BOOLEAN, NEW herdr \in BOOLEAN,
             Begin(incoming, noStart, herdr)
      PROVE  TypeOK'
  <2>1. setup.run + 1 \in 0..MaxRuns
    BY <1>1, StepsAssumption DEF Begin
  <2>2. setup' \in Setup
    BY <1>1, <2>1, FreshType DEF Begin, Steps
  <2> QED
    BY <1>1, <2>2 DEF Begin, OnlySetup
<1>2. CASE Prepare
  <2>1. PICK restart \in BOOLEAN, backup \in {"partial", "none"}, pc \in {"backup", "install"} :
          setup' = [setup EXCEPT !.restart = restart, !.backup = backup, !.pc = pc]
    <3>1. RestartRequired \in BOOLEAN
      BY DEF RestartRequired
    <3> QED
      BY <1>2, <3>1 DEF Prepare
  <2>2. setup' \in Setup
    BY <2>1 DEF Steps, Files
  <2> QED
    BY <1>2, <2>2 DEF Prepare, OnlySetup
<1>3. CASE Refuse \/ Verify \/ Herdr \/ Finish \/ Fail \/ Kill
  BY <1>3 DEF Refuse, Verify, Herdr, Finish, Fail, Kill, Goto, OnlySetup, Steps
<1>4. CASE Backup
  BY <1>4 DEF Backup, OnlySetup, Steps
<1>5. CASE Install
  BY <1>5 DEF Install, Goto, At, Steps, Files
<1>6. CASE Enroll \/ DefineService
  BY <1>6 DEF Enroll, DefineService, Goto, Steps
<1>7. CASE StartService \/ RestoreRestart
  BY <1>7, AfterRestart DEF StartService, RestoreRestart, Goto, Steps
<1>8. CASE Confirm
  BY <1>8 DEF Confirm, OnlySetup, Steps
<1>9. CASE Restore
  BY <1>9 DEF Restore, Goto
<1>10. CASE Respawn \/ DaemonDie
  BY <1>10, VersionsAssumption DEF Respawn, DaemonDie
<1>11. CASE UNCHANGED vars
  BY <1>11 DEF vars
<1> QED
  BY <1>1, <1>2, <1>3, <1>4, <1>5, <1>6, <1>7, <1>8, <1>9, <1>10, <1>11 DEF Next, SetupStep

------------------------------------------------------------------------------
(* A setup that succeeds, and Herdr support. *)

\* The service manager and daemons: at most a daemon of the binary comes.
LEMMA DaemonKeeps ==
  ASSUME TypeOK, Respawn \/ DaemonDie
  PROVE  /\ UNCHANGED <<binary, setup>> /\ live' \in {"none", live, binary}
BY VersionsAssumption DEF Respawn, DaemonDie, TypeOK

LEMMA StepStep == TypeOK /\ StepInv /\ [Next]_vars => StepInv'
<1> SUFFICES ASSUME TypeOK, StepInv, [Next]_vars PROVE StepInv'
  OBVIOUS
<1> USE DEF TypeOK, Setup, StepInv, AfterInstall
<1>1. ASSUME NEW incoming \in Versions, NEW noStart \in BOOLEAN, NEW herdr \in BOOLEAN,
             Begin(incoming, noStart, herdr)
      PROVE  StepInv'
  BY <1>1 DEF Begin, Fresh
<1>2. CASE Prepare \/ Refuse \/ Backup
  <2>1. CASE Prepare
    BY <2>1 DEF Prepare, At, Goto, OnlySetup, Steps
  <2>2. CASE Refuse
    BY <2>2 DEF Refuse, At, Goto, OnlySetup, Steps
  <2>3. CASE Backup
    BY <2>3 DEF Backup, At, Goto, OnlySetup, Steps
  <2> QED
    BY <1>2, <2>1, <2>2, <2>3
<1>3. CASE Install
  BY <1>3 DEF Install, Goto, At, Steps
<1>4. CASE Verify \/ Enroll \/ DefineService \/ StartService \/ Herdr
  BY <1>4 DEF Verify, Enroll, DefineService, StartService, Herdr, Goto, At, OnlySetup, Steps
<1>5. CASE Confirm \/ Finish \/ Fail \/ Kill
  <2>1. CASE Confirm \/ Finish
    BY <2>1 DEF Confirm, Finish, At, Goto, OnlySetup, Steps
  <2>2. CASE Fail
    BY <2>2, StepsAssumption DEF Fail, At, Goto, OnlySetup, Steps
  <2>3. CASE Kill
    BY <2>3 DEF Kill, At, Goto, OnlySetup, Steps
  <2> QED
    BY <1>5, <2>1, <2>2, <2>3
<1>6. CASE Restore \/ RestoreRestart
  BY <1>6 DEF Restore, RestoreRestart, At, Goto, Steps
<1>7. CASE Respawn \/ DaemonDie
  BY <1>7, DaemonKeeps
<1>8. CASE UNCHANGED vars
  BY <1>8 DEF vars
<1> QED
  BY <1>1, <1>2, <1>3, <1>4, <1>5, <1>6, <1>7, <1>8 DEF Next, SetupStep

LEMMA SupportStep == TypeOK /\ SupportInv /\ [Next]_vars => SupportInv'
<1> SUFFICES ASSUME TypeOK, SupportInv, [Next]_vars PROVE SupportInv'
  OBVIOUS
<1> USE DEF TypeOK, Setup, SupportInv
<1>1. ASSUME NEW incoming \in Versions, NEW noStart \in BOOLEAN, NEW herdr \in BOOLEAN,
             Begin(incoming, noStart, herdr)
      PROVE  SupportInv'
  BY <1>1 DEF Begin, Fresh
<1>2. CASE Prepare
  <2>1. setup'.incoming = setup.incoming /\ binary' = binary
    BY <1>2 DEF Prepare, OnlySetup
  <2> QED
    BY <1>2, <2>1 DEF Prepare, Refused, Announced
<1>3. CASE Backup
  <2>1. setup'.incoming = setup.incoming /\ binary' = binary /\ At("backup")
    BY <1>3 DEF Backup, OnlySetup
  <2> QED
    BY <2>1 DEF Announced, At
<1>4. ASSUME setup'.pc \notin {"backup", "install"} PROVE SupportInv'
  BY <1>4
<1>5. CASE Refuse \/ Verify \/ Herdr \/ Kill \/ Install \/ Enroll \/ DefineService \/ StartService
           \/ Confirm \/ Finish \/ Fail \/ Restore \/ RestoreRestart
  BY <1>4, <1>5 DEF Refuse, Verify, Herdr, Kill, Install, Enroll, DefineService, StartService,
     Confirm, Finish, Fail, Restore, RestoreRestart, Goto
<1>6. CASE Respawn \/ DaemonDie
  BY <1>6, DaemonKeeps DEF Announced
<1>7. CASE UNCHANGED vars
  BY <1>7 DEF vars, Announced
<1> QED
  BY <1>1, <1>2, <1>3, <1>5, <1>6, <1>7 DEF Next, SetupStep

LEMMA LiveStep == TypeOK /\ StepInv /\ LiveInv /\ [Next]_vars => LiveInv'
<1> SUFFICES ASSUME TypeOK, StepInv, LiveInv, [Next]_vars PROVE LiveInv'
  OBVIOUS
<1> USE DEF TypeOK, Setup, StepInv, LiveInv, AfterInstall, At
<1>1. ASSUME NEW incoming \in Versions, NEW noStart \in BOOLEAN, NEW herdr \in BOOLEAN,
             Begin(incoming, noStart, herdr)
      PROVE  LiveInv'
  BY <1>1 DEF Begin, Fresh
<1>2. CASE Prepare
  <2>1. setup' = [setup EXCEPT !.restart = RestartRequired, !.backup = IF Changed THEN "partial" ELSE "none",
                               !.pc = IF Changed THEN "backup" ELSE "install"]
        /\ UNCHANGED <<binary, live>>
    BY <1>2 DEF Prepare, OnlySetup
  <2>2. Changed => RestartRequired
    BY DEF RestartRequired
  <2>3. ~RestartRequired => binary \in {"none", setup.incoming} /\ live \in {"none", setup.incoming}
    BY DEF RestartRequired, Changed
  <2> QED
    BY <2>1, <2>2, <2>3
<1>3. CASE Backup
  BY <1>3 DEF Backup, OnlySetup
<1>9. CASE Refuse \/ Kill \/ Fail
  <2>1. setup'.pc \in {"trap", "killed"}
    BY <1>9 DEF Refuse, Kill, Fail, Goto
  <2> QED
    BY <2>1
<1>4. CASE Install \/ Verify \/ Enroll \/ DefineService \/ Herdr \/ Confirm \/ Finish
  BY <1>4 DEF Install, Verify, Enroll, DefineService, Herdr, Confirm, Finish, Goto, OnlySetup
<1>5. CASE StartService
  <2>1. setup' = [setup EXCEPT !.pc = IF setup.herdr THEN "herdr" ELSE "confirm"]
        /\ UNCHANGED <<binary, config, service>> /\ binary = setup.incoming
    BY <1>5 DEF StartService, Goto
  <2>2. live' \in {"none", setup.incoming}
    BY <1>5, <2>1, AfterRestart DEF StartService
  <2> QED
    BY <2>1, <2>2
<1>6. CASE Restore \/ RestoreRestart
  BY <1>6 DEF Restore, RestoreRestart, Goto
<1>7. CASE Respawn \/ DaemonDie
  BY <1>7, DaemonKeeps
<1>8. CASE UNCHANGED vars
  BY <1>8 DEF vars
<1> QED
  BY <1>1, <1>2, <1>3, <1>4, <1>5, <1>6, <1>7, <1>8, <1>9 DEF Next, SetupStep

LEMMA IInit == Init => IInv
BY TypedInit DEF Init, Fresh, IInv, StepInv, SupportInv, LiveInv, AfterInstall, At, Steps

LEMMA IStep == IInv /\ [Next]_vars => IInv'
BY TypedStep, StepStep, SupportStep, LiveStep DEF IInv

LEMMA Inductive == Spec => []IInv
BY IInit, IStep, PTL DEF Spec

\* Every variable keeps its type, and a daemon that runs has its socket, its
\* service and a configuration.
THEOREM UpgradeTyped == Spec => []TypeOK
<1>1. IInv => TypeOK
  BY DEF IInv
<1> QED
  BY <1>1, Inductive, PTL

\* A setup that succeeds leaves the new agent and no daemon of another one, whatever
\* setups before it failed or started nothing (setup.sh:892-917, 1011-1018).
THEOREM SuccessCurrent == Spec => []SuccessIsCurrent
<1>1. IInv => SuccessIsCurrent
  BY DEF IInv, StepInv, LiveInv, SuccessIsCurrent, At
<1> QED
  BY <1>1, Inductive, PTL

\* No update loses Herdr support (setup.sh:868-885).
THEOREM SupportKept == Spec => HerdrSupportStays
<1>1. ASSUME IInv, [Next]_vars, binary' # binary, ~At("trap")
      PROVE  Announced(binary) \subseteq Announced(binary')
  <2>1. Install
    BY <1>1, DaemonKeeps DEF IInv, Next, SetupStep, Begin, Prepare, Refuse, Backup, Verify, Enroll,
       DefineService, StartService, Herdr, Confirm, Finish, Fail, Kill, Restore, RestoreRestart,
       OnlySetup, vars
  <2> QED
    BY <1>1, <2>1 DEF IInv, SupportInv, Install, At
<1>2. IInv /\ [Next]_vars => [binary' # binary /\ ~At("trap") =>
          Announced(binary) \subseteq Announced(binary')]_vars
  BY <1>1
<1> QED
  BY <1>2, Inductive, PTL DEF Spec, HerdrSupportStays

------------------------------------------------------------------------------
(* A setup that fails, when the copy of the old binary is never interrupted. *)

LEMMA WholeStep ==
  IInv /\ WholeInv /\ KeptInv /\ "backup" \notin FailingSteps /\ [Next]_vars => WholeInv'
<1> SUFFICES ASSUME TypeOK, StepInv, WholeInv, KeptInv, [Next]_vars,
                    "backup" \notin FailingSteps
             PROVE  WholeInv'
  BY DEF IInv
<1> USE DEF TypeOK, Setup, StepInv, WholeInv, KeptInv, At
<1>1. ASSUME NEW incoming \in Versions, NEW noStart \in BOOLEAN, NEW herdr \in BOOLEAN,
             Begin(incoming, noStart, herdr)
      PROVE  WholeInv'
  BY <1>1 DEF Begin, OnlySetup
<1>2. CASE Install
  BY <1>2, VersionsAssumption DEF Install, Goto, Steps
<1>3. CASE Restore
  BY <1>3 DEF Restore, Goto
<1>4. CASE Prepare \/ Refuse \/ Backup \/ Verify \/ Enroll \/ DefineService \/ StartService
           \/ Herdr \/ Confirm \/ Finish \/ Fail \/ Kill \/ RestoreRestart
  <2>1. binary' = binary
    BY <1>4 DEF Prepare, Refuse, Backup, Verify, Enroll, DefineService, StartService, Herdr,
       Confirm, Finish, Fail, Kill, RestoreRestart, OnlySetup
  <2>2. setup'.before = setup.before
    <3>1. CASE Prepare \/ Refuse \/ Backup \/ Verify \/ Enroll \/ DefineService
      BY <3>1 DEF Prepare, Refuse, Backup, Verify, Enroll, DefineService, Goto
    <3>2. CASE StartService \/ Herdr \/ Confirm \/ Finish
      BY <3>2 DEF StartService, Herdr, Confirm, Finish, Goto
    <3>3. CASE Fail \/ Kill \/ RestoreRestart
      BY <3>3 DEF Fail, Kill, RestoreRestart, Goto
    <3> QED
      BY <1>4, <3>1, <3>2, <3>3
  <2> QED
    BY <2>1, <2>2
<1>5. CASE Respawn \/ DaemonDie
  BY <1>5, DaemonKeeps
<1>6. CASE UNCHANGED vars
  BY <1>6 DEF vars
<1> QED
  BY <1>1, <1>2, <1>3, <1>4, <1>5, <1>6 DEF Next, SetupStep

LEMMA KeptStep ==
  IInv /\ WholeInv /\ KeptInv /\ "backup" \notin FailingSteps /\ [Next]_vars => KeptInv'
<1> SUFFICES ASSUME TypeOK, StepInv, WholeInv, KeptInv, [Next]_vars,
                    "backup" \notin FailingSteps
             PROVE  KeptInv'
  BY DEF IInv
<1> USE DEF TypeOK, Setup, KeptInv, AfterInstall, At
<1>1. ASSUME NEW incoming \in Versions, NEW noStart \in BOOLEAN, NEW herdr \in BOOLEAN,
             Begin(incoming, noStart, herdr)
      PROVE  KeptInv'
  BY <1>1 DEF Begin, OnlySetup, Fresh
<1>2. CASE Prepare
  BY <1>2 DEF Prepare, OnlySetup, Changed
<1>3. CASE Refuse \/ Kill
  BY <1>3 DEF Refuse, Kill, Goto, OnlySetup
<1>4. CASE Backup
  BY <1>4 DEF Backup, OnlySetup
<1>5. CASE Install
  BY <1>5 DEF Install, Goto
<1>6. CASE Verify \/ Enroll \/ DefineService \/ StartService \/ Herdr \/ Confirm \/ Finish
  <2>1. /\ setup'.backup = setup.backup /\ setup'.before = setup.before
        /\ setup'.incoming = setup.incoming /\ binary' = binary
        /\ setup.pc \in AfterInstall
    BY <1>6 DEF Verify, Enroll, DefineService, StartService, Herdr, Confirm, Finish, Goto, OnlySetup
  <2>2. setup'.pc \in AfterInstall \cup {"trap", "done"}
    BY <1>6 DEF Verify, Enroll, DefineService, StartService, Herdr, Confirm, Finish, Goto
  <2>3. setup.before \in {"none", setup.incoming} =>
           setup.before = "none" \/ binary = setup.before
    BY <2>1 DEF StepInv
  <2> QED
    BY <2>1, <2>2, <2>3
<1>7. CASE Fail
  <2>1. /\ setup'.backup = setup.backup /\ setup'.before = setup.before
        /\ setup'.incoming = setup.incoming /\ binary' = binary /\ setup'.pc = "trap"
        /\ setup.pc \in {"prepare", "install"} \cup AfterInstall
    BY <1>7, StepsAssumption DEF Fail, Goto, OnlySetup, Steps
  <2>2. CASE setup.pc \in {"prepare", "install"}
    BY <2>1, <2>2
  <2>3. CASE setup.pc \in AfterInstall
    BY <2>1, <2>3 DEF StepInv
  <2> QED
    BY <2>1, <2>2, <2>3
<1>8. CASE Restore \/ RestoreRestart
  BY <1>8 DEF Restore, RestoreRestart, Goto
<1>9. CASE Respawn \/ DaemonDie
  BY <1>9, DaemonKeeps
<1>10. CASE UNCHANGED vars
  BY <1>10 DEF vars
<1> QED
  BY <1>1, <1>2, <1>3, <1>4, <1>5, <1>6, <1>7, <1>8, <1>9, <1>10 DEF Next, SetupStep

LEMMA RestoredStep ==
  IInv /\ WholeInv /\ KeptInv /\ FailureRestores /\ [Next]_vars => FailureRestores'
<1> SUFFICES ASSUME TypeOK, WholeInv, KeptInv, FailureRestores, [Next]_vars
             PROVE  FailureRestores'
  BY DEF IInv
<1> USE DEF TypeOK, Setup, FailureRestores, At
<1>1. CASE setup'.pc # "failed"
  BY <1>1
<1>2. CASE Restore
  <2>1. CASE ~setup.confirmed /\ setup.backup # "none"
    BY <1>2, <2>1 DEF Restore, Goto, KeptInv
  <2>2. CASE setup.confirmed \/ setup.backup = "none"
    BY <1>2, <2>2 DEF Restore, Goto, KeptInv
  <2> QED
    BY <2>1, <2>2
<1>3. CASE RestoreRestart
  <2>1. UNCHANGED <<binary, config, service>> /\ binary = setup.before
        /\ setup'.before = setup.before
    BY <1>3 DEF RestoreRestart, KeptInv, Goto
  <2>2. live' \in {"none", binary}
    BY <1>3, <2>1, AfterRestart DEF RestoreRestart
  <2> QED
    BY <2>1, <2>2
<1>4. CASE Respawn \/ DaemonDie
  BY <1>4, DaemonKeeps
<1>5. CASE UNCHANGED vars
  BY <1>5 DEF vars
<1>6. CASE Confirm \/ Finish \/ Fail \/ Kill \/ Refuse \/ Prepare \/ Backup \/ Install \/ Verify
           \/ Enroll \/ DefineService \/ StartService \/ Herdr
  <2>1. setup'.pc # "failed"
    BY <1>6 DEF Confirm, Finish, Fail, Kill, Refuse, Prepare, Backup, Install, Verify, Enroll,
       DefineService, StartService, Herdr, Goto
  <2> QED
    BY <2>1
<1>7. ASSUME NEW incoming \in Versions, NEW noStart \in BOOLEAN, NEW herdr \in BOOLEAN,
             Begin(incoming, noStart, herdr)
      PROVE  FailureRestores'
  BY <1>7 DEF Begin, Fresh
<1> QED
  BY <1>2, <1>3, <1>4, <1>5, <1>6, <1>7 DEF Next, SetupStep

LEMMA WInit == Init => WInv
<1> SUFFICES ASSUME Init PROVE WInv
  OBVIOUS
<1>1. setup.pc = "off" /\ setup.before = "none" /\ binary # "partial"
  BY VersionsAssumption DEF Init, Fresh
<1> QED
  BY <1>1, IInit DEF WInv, WholeInv, KeptInv, FailureRestores, AfterInstall, At

LEMMA WInductive ==
  ASSUME "backup" \notin FailingSteps
  PROVE  Spec => []WInv
<1>1. WInv /\ [Next]_vars => WInv'
  BY IStep, WholeStep, KeptStep, RestoredStep DEF WInv
<1> QED
  BY <1>1, WInit, PTL DEF Spec

\* The agent path never holds a part of a binary, as long as the copy of the old
\* one is never interrupted (setup.sh:80-81, 842-845).
THEOREM BinaryWhole ==
  ASSUME "backup" \notin FailingSteps
  PROVE  Spec => []BinaryIsWhole
<1>1. WInv => BinaryIsWhole
  BY DEF WInv, WholeInv, BinaryIsWhole
<1> QED
  BY <1>1, WInductive, PTL

\* A setup that fails leaves the agent it found and no daemon of the one it
\* brought, with the same exception (setup.sh:75-101).
THEOREM FailureRestored ==
  ASSUME "backup" \notin FailingSteps
  PROVE  Spec => []FailureRestores
<1>1. WInv => FailureRestores
  BY DEF WInv
<1> QED
  BY <1>1, WInductive, PTL
==============================================================================
