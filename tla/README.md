# TLA+ models of the NovaScale host agent

This directory models the NovaScale Codex host: the notification agent
`novascale-agent` (`notifications/`), how `setup.sh` installs and upgrades it and
how it removes itself, and the wrapper that keeps the Codex App Server running
(`setup.sh`, the helper `bin/novascale-codex`, `novascale-agent app-server`).

Line references below are to `notifications/internal/agent/` where no directory
is given; `PROJECT.json` maps every definition to the lines it stands for.

## The system

| Component | State it keeps | Operations | What makes it correct |
|---|---|---|---|
| Event queue (`queue.go`) | SQLite tables `pending_events`, `queue_backend`; `lastSource` in memory | Enqueue, ConfigureBackend, Next, Complete, Retry | caps of 50 per session, 200 Herdr rows, 500 rows; a Herdr burst never costs a Codex event; rows never change backend |
| Delivery (`daemon.go`, `enrollment.go`) | configuration in memory, the upload under way | uploadLoop, refreshConfig, hook and test events | an event goes only to the backend it was captured for, and goes there in the end |
| Backend switch (`main.go`) | `config.json`, the enrollment lock | `switch-backend`, `--force` | events keep their backend through kills at each write; a running daemon follows |
| Enrollment (`enrollment.go`, `register.go`, `main.go`) | `config.json`, the key file, the setup token, the lock | `init`, `switch-backend`, `serve`, enrollment loop | active means accepted; one host, one key; registration settles |
| Herdr capture (`herdr_*.go`) | `herdr_adapter`, `herdr_bindings`, `herdr_panes`, Herdr rows of the queue | `herdr install/status/uninstall/test`, herdrLoop, discovery | consent; one hint per episode; no hint about the past |
| Agent upgrade (`setup.sh`) | the binary, its backup, the service, the live daemon | prepare, install, restart, rollback | a whole binary, a complete rollback, no stale daemon |
| Daemon life cycle, IPC (`daemon.go`, `ipc.go`) | the socket path, a listener, 64 slots, 3 loops and the channels between them | bind, accept, handle, wake, stop, drain, exit | what a hook is told is queued; no wake-up is lost; a successor keeps its address; a stop ends |
| Hooks file (`hookconfig/`) | `hooks.json`, its backup | install, uninstall, status | other owners' hooks survive |
| Agent uninstall (`uninstall.go`) | all files of the agent, its service, hooks and plugin | stop, unhook, clear, remove, purge | whatever fails, nothing runs an executable that is gone, and a rerun ends |
| App Server wrapper (`setup.sh`, `bin/novascale-codex`) | token, configuration, unit, helper, the server's process | setup, restart, stop, rotate-token, uninstall | the printed pairing works; the token is kept |
| App Server update (`appservercontrol/`) | none | update-status, restart-if-updated, restart | only an outdated server is restarted, and an outdated one is noticed |
| Hook input, event validation, metadata (`hook.go`, `protocol/`) | none | NormalizeHook, NormalizeHerdrHook, Valid, DisplayText, Normalized | every hint is valid, so that it is filed as Herdr's |
| Identity, keys, signing (`identity.go`, `signing/`) | the key file | pure functions | the key is the host's (`Enrollment`) |

How they interact: Codex runs `novascale-agent hook` for each lifecycle event,
which sends one IPC message to the daemon, and the daemon enqueues it.  Herdr
runs a plugin that sends a dirty signal, which makes the daemon read the Herdr
server and reconcile what it finds with the ledger and the queue in one
transaction.  The upload loop takes rows of the active backend, one at a time.
The enrollment loop shares the configuration with the upload loop (`configMu`)
and with the commands (the file and its lock).  The commands open the same
SQLite database: each of their transactions is atomic, their sequences are not.

The hard behaviours are the interleavings of daemon and commands between those
transactions and file writes, kills between any two of them, lost answers of
the backend, late and lost signals, clocks read before they are used, readings
taken one after the other of things that change meanwhile, and setups and
removals that fail half-way.  `PROJECT.json` lists them as hazards at their lines.

## The modules

| Module | Models | Checked by |
|---|---|---|
| `EventQueue` | the statements on the queue as operators on a function id -> row | through `QueueDelivery` |
| `Outbox` | what delivery promises, with no configuration in it: one outbox for each backend | refined in `QueueSwitching` |
| `QueueDelivery` | queue, delivery, backend switch, kills | `QueueSwitching`, `QueueCaps`, `QueueServingSpelling` |
| `Enrollment` | configuration file, key, token, lock, commands, enrollment loop | `Enrollment`, `EnrollMigration` |
| `HerdrCapture` | Herdr server, bindings, ledger, hints, observers | `HerdrObserver`, `HerdrStaleSnapshot` |
| `HostEvents` | hook input, Herdr's hooks, metadata and the validity of events, as operators | through `AgentDaemon` |
| `Positions` | choosing from a sequence by position, for texts and for hooks | through `AgentDaemon`, `AgentRemoval` |
| `AgentDaemon` | daemons on one socket path: listener, handlers, loops, signals, stop and kill | `AgentDaemon` |
| `AgentUpgrade` | setup of the agent, rollback, service manager | `AgentUpgrade`, `AgentUpgradeBackup` |
| `HooksFile` | installing and removing a command in Codex's hooks, as operators on groups of handlers | through `AgentRemoval` |
| `AgentRemoval` | uninstall, purge, reinstall, the daemon and other editors meanwhile | `AgentRemoval` |
| `AppServerHost` | token, configuration and service of the App Server, the helper, restart-if-updated | `AppServerHost` |
| `PositionsProofs`, `QueueDeliveryProofs`, `EnrollmentProofs`, `HerdrCaptureProofs`, `AgentDaemonProofs`, `AgentUpgradeProofs`, `AgentRemovalProofs`, `AppServerHostProofs` | lemmas and theorems | `tlapm` |

The `MC*` modules give the constants their values for TLC.  The operators named
"Mutant of ..." are variants of the definition that follows them, each with a
plausible bug; they are used by no specification, and replacing the definition
by its mutant makes the property it is listed with in `PROJECT.json` fail.

### EventQueue

A queue is a function from the event ids it holds to rows (backend, creation
time, rowid, attempts, next attempt, expiry).  `Enqueue` is the transaction of
`enqueueEvent`: insert-or-ignore, then the four deletions in their order, each
over what the ones before left.  `Due` and `IsNext` are the SELECT of `next`,
with its turn of sources.  The source and session of an event are constants of
its id: a body never changes them.

### QueueDelivery

One variable per table, file or copy: `pending`, `queueBackend`, `lastSource`,
`disk`, `mem`, `loaded` (what LoadConfig returned and is not yet applied), `cli`
(what a `switch-backend` is about to save), `up` (the upload worker).
`captured` and `settled` are history: for which backend an id was captured, and
by which backend it was accepted or refused for good.

* A refresh is `Load` then `Apply`; a switch is `SwitchBind` then `SwitchSave`;
  an upload is `Snapshot`, `Pick`, an exchange and its outcome (`Accepted`,
  `Dismissed`, `StripMetadata`, `Failed`), then `Complete` or `Retry`.  The error
  of those two is ignored by the code: `StatementFails` leaves the row due.  A
  switch that finds no database binds nothing.  Captures and kills come between
  any two of these.
* `Stored[e]` is what ConfigureBackend writes for an endpoint,
  `Compared[e]` what NextForBackend looks for.  They differ for a spelling that
  `url.URL` does not print back.
* An endpoint is pending or active here; the other registration states do not
  upload either.  `Enroll` is what the enrollment loop does to the file and the
  copy, under the lock; `Migrate` its write without the lock, allowed whenever the
  copy is pending, which is more than the code does.
* Hook events with a request id have a deterministic id and may be captured
  again; the others are fresh.  `HerdrReconcile` withdraws any Herdr rows
  and adds at most one hint; a reconciliation that queues several is several such
  steps.
* `ClockLag` lets a capture use a time that is older than the state it meets,
  because `d.now()` is read before the transaction starts.

`OutboxSpec` is the refinement: an event waits in the outbox of the backend its row
is bound to, or, while the row is untagged, of the endpoint on disk (`OwnerOf`); it
is offered while the worker sends it.  A switch, a refresh, an enrollment and the
migration are stutters.  So the detailed specification may never move a row between
backends, offer one to another, or take one out as delivered that its backend has
not settled.

### Enrollment

The daemon's loop is a program counter over its steps: `Read` and `Refresh` (the
two halves of refreshConfig), `Dispatch` by state, then the lock, the refresh
under the lock, the exchange, `SaveResult`, `Tidy`.  Each command takes the lock,
loads, makes a key if it has to, saves and tidies.  A command or daemon that
dies releases its lock, as the operating system does for `flock`.  `accepted` is
history: which host the backend accepted at which endpoint.

### HerdrCapture

The server has an incarnation and panes with a terminal, a sequence number and a
status; it starts again, opens, changes and closes panes by itself.  An observer
(the daemon or a command) goes through read, check, bind, insert and reconcile, and
everybody else may act in between.  `Bind` is the UPDATE of a known binding, `Insert`
the INSERT of an unknown one, which does not enable one that came in between;
`GiveUp` is a statement that fails, or the limit of 128 bindings.  An installation
ends with a status of its own, for which `Look` reads the switch before the server is
read; with several sockets an installation is that of one of them.  `Reconcile` is the one transaction: it
compares with the ledger (`Comparable`, `Initial`, `Advanced`), queues hints
(`NewHints`), withdraws hints (`Withdrawn`) and writes the ledger (`Rows`).
Signals may be lost, repeated and late; `observed` is history: up to which
sequence number a terminal was observed.  `DaemonTellsNews` asks that each hint the
daemon queues tells a change it had not seen; the violated run has the same property
with the commands that read as well (`HintsAreNews`).

### HostEvents

Operators from the bytes of a hook, of Herdr's environment and of Herdr's agent list
to events.  A text is a sequence of kinds of characters: of one byte or three, one
that JSON writes with six bytes, blank, of Unicode's class Cf, or control.
`DisplayText` is its four passes, each of which chooses positions of the text
(`Chosen`, in `Positions`).  `Normalized` is the loop that halves the fields until the
JSON fits 1200 bytes: `Halvings` is what the metadata is after each round, and
`Fitted` the first of them that fits.  The bytes of the fields are summed as the
number of pairs of a field and a byte of it.  An identifier is empty, good or bad.  `FiledUnder` is
the test in `enqueueEvent` that decides the source, and with it how long an event
lives and whether an observation may withdraw it.

### AgentDaemon

Each process has a program counter for `Run`, one for each of its loops, and the two
channels between its goroutines: `wake` of one and `herdrDirty` of `Buffer`.  A
connection is a record of where its handler is: in the backlog, reading, about to
answer, about to wake the uploader.  The path of the socket names the daemon that
bound it, a dead one, or nothing; `Clear` and `Bind` are the two halves of ListenIPC,
and closing a listener removes the path by its name, as Go's Unix listener does.
`AcceptFails` may happen while nobody has told the daemon to stop.  Transactions and
calls with the daemon's context fail after the stop (`Add`, `Answered`); those that
run when it comes may still succeed, which is one order of the two steps.  A loop's
`select` is one step for each branch.  What an upload posts, an enrollment exchanges
and an observation finds is the business of the other modules; here they take a
step and wake, or fail.  `owed` is history: the baselines that a handler accepted,
and that the loop has neither refused for want of room nor taken up.

### AgentUpgrade

The program counter of `configure_notification_agent` with its EXIT trap.  A
binary is named by its version; `partial` is a file of which only a part was
written.  A step in `FailingSteps` may end in the trap, any step may be killed
without one, and up to `MaxRuns` setups follow each other with any release, with
and without `--no-start` and `--notification-source herdr`.  The service manager
starts a daemon whenever there is none, and a daemon may die with or without
leaving its socket.  `Confirm` sets the flag after which the trap restores nothing,
`Finish` is what follows it.  The trap's own copy and rename (setup.sh:80-81) may
fail as well; that second failure leaves things as a kill in the trap does, and is
one here.

### HooksFile and AgentRemoval

`HooksFile` has the results of `hookconfig.Install` and `Uninstall` on a document:
per event a sequence of groups, each a sequence of commands, or a group that the
code cannot read.  What a loop of the code filters out of a list is the list of what is
left by its positions (`Chosen` again).  `SameOthers` compares two lists of groups by the
places at which others' commands are: a correspondence that keeps commands and order.  `AgentRemoval` reads the file in one step and writes it in
another, so that edits of others fall in between, each of them one step (an editor
that read the file before a removal and writes it after is not modelled), and goes through
`uninstallAgent` with a step for each file, transaction or program it touches.
`Abort` ends a setup or a removal anywhere, which stands for an error as well as
for a kill, and the removal may be begun again from any such state.  The daemon
is respawned while the service is enabled, or started by hand at any time;
`proc.unseen` is history: a daemon ran that the check of the socket did not see,
or was started by hand after it.  Setup is in it only as far as it makes what is
removed; its order is that of `AgentUpgrade`.

### AppServerHost

`exe` is the configured executable as the code sees it, the dates of its link and
of its file, and as it is: when it changed, and how often.  `server` is a process
with its start, the executable and the token it started with; `wanted` is what
the service manager keeps running.  `cmd` is one setup, rotation, restart, stop or
uninstallation at a time, `check` a restart-if-updated at any time, one reading a
step.  The clock has two ticks in a second, so that what `ps` cuts off is visible.
Init has the hosts a command may find: nothing, the wrapper, the wrapper of the
former name, and the last two with a token file that an interrupted command has
emptied.  `cmd.crossed` is history: restart-if-updated restarted the server during
the command.

## The runs

| Run | Instance | Shows |
|---|---|---|
| `QueueSwitching` | 2 endpoints, 1 legacy row, 1 repeatable request, 1 failed upload per row, time 0; fairness | `TypeOK`, `PostsOnlyWhereCaptured`; `OutboxSpec` (the refinement), `ActiveBackendGetsItsEvents`, `SwitchReachesTheQueue` |
| `QueueCaps` | 3 Codex turns, 2 hints and a test event in 2 sessions, caps 1/1/2, lives of 2 and 1, clock lag 1, times 0 and 1, symmetry | `CapsHold`, `CodexRowsAreNotLost` |
| `QueueServingSpelling` | 1 endpoint whose spelling is not its stored form | violates `ActiveBackendGetsItsEvents` |
| `Enrollment` | 2 commands, of which 1 may switch, 2 endpoints, all four states on disk; fairness | `TypeOK`, `ActiveWasAccepted`, `KeyMatchesHost`, `LockedKeepsTheEndpoint`; `RegistrationSettles`, `TokenGoes` |
| `EnrollMigration` | 2 endpoints, `needs_setup_token` on disk | violates `DaemonKeepsTheEndpoint` |
| `HerdrObserver` | 1 pane; either 2 terminals, 2 incarnations, 3 sequence numbers with the daemon and uninstalls, or 2 commands of any kind and the daemon; symmetry | `TypeOK`, `HintsMatchTheLedger`, `NothingWithoutConsent`; `DaemonTellsNews`, `HintsStayWhileCurrent` |
| `HerdrStaleSnapshot` | daemon, install and status | violates `HintsAreNews` |
| `AgentUpgrade` | 4 releases, 3 setups, failures everywhere but in the copy of the old binary | `TypeOK`, `BinaryIsWhole`, `FailureRestores`, `SuccessIsCurrent`, `HerdrSupportStays` |
| `AgentUpgradeBackup` | the same, with that copy | violates `FailureRestores` |
| `AgentRemoval` | 2 setups, 2 failures, removals without bound, 1 foreign command up to twice among the hooks of 1 event; fairness | `TypeOK`, `NothingRunsAMissingAgent`, `RemovalIsClean`, `OtherHooksStay`; `RemovalEnds` |
| `AgentDaemon` | 2 daemons, 1 hook, 1 visitor, 1 hint, 2 bindings, 1 slot, channels of 2, texts of up to 3 characters on limits of 6 bytes; four scopes; fairness | `TypeOK`, `AcceptedIsQueued`, `HintsAreFiledAsHerdr`, `NoLostWakeup`, `BaselinesAreKept`; `AddressIsKept`, `StopEnds` |
| `AppServerHost` | 2 platforms, 2 commands, 1 check, 1 update, 4 starts, 3.5 s of 2 ticks each; two scopes | `TypeOK`, `PairingWorks`, `TokenIsKept`, `OnlyOutdatedIsRestarted`, `UpdatesAreNoticed` |

Why the bounds are enough: the caps of the queue are small numbers of the same
shape (session < Herdr <= total), and every cap is exceeded by one in `QueueCaps`
in every order of ages; two endpoints are what a switch distinguishes; two
commands and the daemon are the most that can meet at a lock or a table, since a
third only repeats what the second does; two incarnations and terminals allow
one reuse of each, and three sequence numbers a baseline, a change and a late
observation; three setups allow a failed or `--no-start` one, one that repairs
it and one that follows.  A removal may fail twice, once before and once after
it was begun again, and two setups put in place again what it removes; one foreign
command twice is enough for a group before, after and around the agent's own.  3.5
seconds are half a second more than the latest change that may go unnoticed, the
tolerance and the second that `ps` cuts off.  `MaxTime`, `MaxRowid` and `MaxAttempts` stop the
captures and failures, never the uploads, and time goes on while a retry waits.

The product of everything `AgentDaemon` has is too large for TLC, so that `MCSpec`
chooses a scope at the start and keeps to it: "hooks" (one daemon, hooks, other
visitors, enrollment, upload), "signals" (one daemon that is not told to stop, every
kind of signal, a full channel and a full map), "hints" (one binding, its hints, their
upload) and "address" (two daemons that start, stop and die on one path).  A channel
of 2 is the smallest in which a baseline and a later signal of the same binding
meet; one slot is enough to find all of them taken.  `HerdrObserver` chooses between
two scopes in the same way, and so does `AppServerHost`: "together" has the readings
and the commands interleave within the first second (`MaxTimeBusy`; commands use the
clock for nothing but starts), "apart" has commands at any time that cross the
restart a check has decided on, while clock and executable stay as they are.  Texts of three characters reach the limits of the
configuration (a field of 6 bytes, a workspace of 6, a budget of 14) with every kind
of character at the cut, and one agent needs a halving; the assumption of
`MCAgentDaemon` checks `DisplayText` on all texts of up to five characters.  It also
shows what the code relies on without saying so: applied to its own result
`DisplayText` may still change it (an invisible character between two blanks leaves
both), so that `Normalized` twice is what makes a hint valid, and once is not enough.

`CHECK_DEADLOCK FALSE` is said where the system really stops: all commands may
have ended without a configuration, the agent may have been removed, and the last
setup or command may be over.

### What the violated runs show

* `QueueServingSpelling`: `ConfigureBackend` tags rows with `URL.String()`
  (queue.go:160), `NextForBackend` compares with the configured spelling
  (queue.go:180).  `HTTPS://host` enrolls but never uploads.
* `EnrollMigration`: the migration of `needs_setup_token` (enrollment.go:125)
  saves the daemon's copy of the configuration without the lock, over a
  `switch-backend` that has ended.
* `HerdrStaleSnapshot`: `herdr install` and `herdr status` may commit an older
  baseline after the daemon has committed a newer observation
  (herdr_setup.go:97-99, 171-179), and the next observation repeats a hint.
* `AgentUpgradeBackup`: the trap restores a backup of which only a part was
  written (setup.sh:891-892, 77-81).

Seen while modelling and kept as hazards: `Complete` and `Retry` act by event id
alone, so a request that was pushed out while it was uploaded and captured again
after a switch is completed unsent; on Linux a setup that a restart-if-updated
crosses may leave a server with the former token; the helper's `uninstall` may
leave hooks that run a deleted agent; a daemon whose `Accept` fails stays, without
its socket being served, until it is told to stop (daemon.go:81), so that
`Restart=on-failure` never helps.

### Fairness

`QueueDelivery!FairSpec`: the upload loop and the refresh go on (weak fairness:
each is one goroutine that nothing blocks for ever, the ticker of 5 s and the poll
run for the daemon's life, daemon.go:198), an exchange gets an answer or times out,
and the clock goes on.  Of `Complete` and `Retry`, whose statement may fail, one
succeeds in the end if they are tried again and again (strong fairness): a database
that refuses every write keeps its rows for ever.  Nothing is assumed of hooks, commands, a switch that has
begun, kills, enrollment or of what the backend answers: failures are bounded per row by `MaxAttempts`, which
stands for a backend that answers in the end, and the liveness properties ask that
the daemon serves the backend for good from some time on.

`Enrollment!FairSpec`: commands and the loop go on (weak), and a step that can
fail and be retried, reading the file, taking the lock, an exchange, a save,
succeeds in the end if it is tried for ever (strong).  This is what the
documentation's retry with backoff relies on.

`AgentRemoval!FairSpec`: a setup or removal that runs goes on, being one process;
a daemon that the service manager has told to stop ends; and a removal that failed
is run again, which is the user's part, as the messages of the code ask for.  Steps
fail only finitely often (`MaxFailures`).  `RemovalEnds` asks in addition that the
hooks file can be cleaned in the end and that nobody keeps a daemon running by hand.

`AgentDaemon!Fairness`: every goroutine of a process goes on (weak).  A `select` of a
loop that finds the context ended and something else ready takes either at random, so
the branch of the context is taken in the end if the loop comes by again and again
(strong fairness of `UploaderEnds`, `EnrollerEnds` and `ObserverEnds`).  An upload, an
exchange and the read of a Herdr server end, by their deadlines.  Nothing is assumed
of clients, signals, or an `Accept` that fails by itself.

No fairness is assumed for `HerdrCapture`, which is best effort, `AgentUpgrade` and
`AppServerHost`.

## The proofs

`tlapm` proves for every value of the constants allowed by the assumptions
(endpoints, backends, events, caps, lives and bounds of any size):

| Theorem | Statement |
|---|---|
| `Typed` | `Spec => []TypeOK` |
| `Bound` | `Spec => []BindingInvariant` |
| `RowsStay` | `Spec => []RowsStayWhereCaptured`: a row is only ever found under the backend it was captured for |
| `PostsStay` | `Spec => []PostsOnlyWhereCaptured` |
| `CapsKept` | `Spec => []CapsHold` |
| `QueueImplementsOutbox` | `Spec => OutboxSpec` |
| `CodexRowsLeave` | `Spec => [][CodexStepsKeepRows]_vars`: as `CodexRowsAreNotLost`, but for requests that are captured for two backends |
| `CodexRowsKept` | if `CapturedOnce`: `Spec => CodexRowsAreNotLost` |
| `DaemonTyped` | `AgentDaemon`: `Spec => []TypeOK` |
| `AcceptedStays` | `AgentDaemon`: `Spec => []AcceptedIsQueued` |
| `HintsFiled` | `AgentDaemon`: `Spec => []HintsAreFiledAsHerdr` |
| `WakeupsArrive` | `AgentDaemon`: `Spec => []NoLostWakeup` |
| `BaselinesStay` | `AgentDaemon`: `Spec => []BaselinesAreKept` |
| `AddressStays` | `AgentDaemon`: `Spec => AddressIsKept` |
| `EnrollmentTyped`, `ActiveAccepted`, `KeyMatches` | `Enrollment`: `Spec => []TypeOK`, `[]ActiveWasAccepted`, `[]KeyMatchesHost` |
| `EndpointKept` | `Enrollment`: `Spec => LockedKeepsTheEndpoint` |
| `CaptureTyped`, `ConsentNeeded`, `HintsMatch` | `HerdrCapture`: `Spec => []TypeOK`, `[]NothingWithoutConsent`, `[]HintsMatchTheLedger` |
| `NewsTold`, `CurrentStays` | `HerdrCapture`: `Spec => DaemonTellsNews`, `HintsStayWhileCurrent` |
| `UpgradeTyped`, `SuccessCurrent` | `AgentUpgrade`: `Spec => []TypeOK`, `[]SuccessIsCurrent` |
| `SupportKept` | `AgentUpgrade`: `Spec => HerdrSupportStays` |
| `BinaryWhole`, `FailureRestored` | `AgentUpgrade`, if `"backup" \notin FailingSteps`: `Spec => []BinaryIsWhole`, `[]FailureRestores` |
| `RemovalTyped`, `NothingMissing`, `RemovalClean` | `AgentRemoval`: `Spec => []TypeOK`, `[]NothingRunsAMissingAgent`, `[]RemovalIsClean` |
| `OthersKept` | `AgentRemoval`: `Spec => OtherHooksStay` |
| `HostTyped`, `PairingProved` | `AppServerHost`: `Spec => []TypeOK`, `[]PairingWorks` |
| `TokenKept`, `OutdatedOnly`, `UpdatesNoticed` | `AppServerHost`: `Spec => TokenIsKept`, `OnlyOutdatedIsRestarted`, `UpdatesAreNoticed` |

`RowsStayWhereCaptured` and `PostsOnlyWhereCaptured` are not inductive: a row may be untagged (an upgrade found it), and
then the next `ConfigureBackend` decides where it belongs.  `BindingInvariant` says
what makes that safe: while the queue has no backend, no daemon has a copy of a
configuration, every row was captured for the endpoint on disk and, if there is a
row, no switch is half-way and whatever is loaded is what is on disk; afterwards no
row is untagged.  Without rows a switch may have found no database.  The
worker's half is that a row is picked under the name it is stored with:
`CanonicalAssumption` says that what `URL.String()` prints is printed back the
same, so a spelling that equals some stored name is its own stored name.  `IInv` is
`TypeOK` and `BindingInvariant`; `InvInit` and `InvStep` show it inductive, with a
lemma per action or group of actions that disturbs the same parts.
The first part of `QueueDeliveryProofs` holds what the operators promise: each result is a queue,
trims only remove rows (`IsTrimOf`), an enqueue adds at most its own row, a
binding changes the untagged rows only, a postponement no backend.

The caps are counted by an order: `FirstElements` says that in a strict total order
on a finite set at most n elements have fewer than n before them, and exactly n, all
before the rest, if there is a rest.  `Newer` and `Ahead` are such orders on the rows
as long as no two have the same rowid, `Numbered`, which `CapInv` adds to `CapsHold`.
`EnqueueKeepsCaps` follows a row through the four trims of an enqueue; that the last
one takes a Codex row only when `TotalCap` Codex rows are left is the second half of
`FirstElements`.

The refinement maps each step to a step of `Outbox` or to a stutter.  Its
invariant adds one part, `DoneIsSettled`: what the worker is about to take out, its
backend has settled.  A row that is untagged counts as one of the endpoint on disk;
`BindingInvariant` says that it will be bound to that one and that the file cannot
change before, which makes a binding a stutter and a switch too.

The last part of the module says how Codex rows leave.  `UploadInv` relates an upload to the row
it was picked from: while the row is there, it is bound to the backend the event was
sent to, unless the event is a request, which may have been deleted and captured
again.  That exception is real: with several backends and repeated requests
`CodexRowsAreNotLost` is false for some values of the constants (the hazard at
`daemon.go:223`).  So `CodexRowsLeave` allows for it and needs no hypothesis, and
`CodexRowsKept` proves the property itself under `CapturedOnce`: there is one backend,
or no event is captured twice.  `QueueCaps` is an instance of that.

`AgentDaemonProofs` is about any number of processes, hooks, visitors, hints and
bindings, and slots, channels and texts of any size.  Its `IInv` is `TypeOK`,
`AcceptedIsQueued`, `HintsAreFiledAsHerdr` and six parts that make the properties
inductive:

- `PathInv`: the path names a daemon only while that daemon runs and listens there,
  so that a process which is only starting never unlinks an address of its own.
- `ReplyInv`: only hooks send events, and a handler that is about to answer has
  committed its row.  Without it an accepted answer could come from nothing.
- `LaterInv`: a row that was retried is nobody's news, so that its turn coming
  (`Ripen`) obliges nobody to wake an uploader.
- `RestInv`: what `NoLostWakeup` says of an uploader that waits, already said when
  it returns from its pass.  Between the pass and the wait, handlers commit rows
  and the enrollment loop registers; a property about the wait alone is not kept.
- `SendInv`: what is being uploaded has been in the queue, so that an answer which
  comes back to the row finds the source it was filed under.
- `BaselineInv`: what is owed is owed by a daemon that runs, so that no start can
  find an obligation it has no channel for.

A lemma per process says what a step of it leaves alone (`LoopKeeps`,
`ConnectionKeeps`); each part then has a lemma per group of actions that disturbs
it, and `IStep` puts them together.  `ChannelAppend`, `ChannelTail`, `MergeDirty`
and `DropDirty` say what the channel and the map keep.

`HintsFiled` is about texts of any length, and uses no induction over them, since no
operator of `HostEvents` recurses over a text.  `ChosenRanked`, in `PositionsProofs`,
says what is chosen from a sequence: the elements at those positions, numbered
without a gap and in their order.  From it: what went through `DisplayText` has no
invisible character and is within its limit (`Displayed`); a text without invisible
characters comes out `Clean`, with every blank between two characters that are none
(`DisplayedTwice`: twice is enough); and a clean text within its limit comes out as it
is (`DisplayedAsIs`).  Once is not enough, as the mutant `HintOfOnce` shows: stripping
an invisible character between two blanks leaves two blanks.  For the loop,
`HalvingsAre` gives the rounds, and `RoundKeeps` says that a round keeps texts clean and
within their limits and takes at least a byte of each field that is not empty.  So a
round comes that fits, and `FittedIs` takes the first one (`LeastNumber`).  Then
`NormalizedIs` says that the second normalisation returns tidy metadata which fits,
and `NormalizedAsIs` that such metadata is normalised to itself.  What this needs of
the limits is `BudgetAssumption`: the parts that are never shortened fit the budget by
themselves.  With less, the code's loop would not end; its own constants satisfy it.

`EnrollmentProofs` is about any number of commands.  `LockInv` says who holds the
lock, from the program counters, so that two of them are never between loading and
saving (`OneOwner`).  `CommandInv` and `DaemonInv` say what the owner relies on: what
a command is going to save names the host of the key and of the file and is not
active; what the daemon found under the lock is on disk until it lets go of it; and
before, at least the host is.  `AnswerInv` is `ActiveWasAccepted` one step earlier,
for an answer that is not saved yet: it stands because a command that could stage
another registration would need the lock.  A step of the daemon is summarised in
`DaemonGoes`, one of a command in `Stages` and `Moves`, and each part of the
invariant is proved of the summary.

`HerdrCaptureProofs` is about any panes, commands and statuses.  The ledger and the
hints are compared with snapshots, which may be old, so the invariant is about those:
`SnapshotInv` says that a snapshot has a terminal in one pane and that the server went
on from it; `ServerInv` that what was observed of a terminal the server has reached,
and that a terminal still to come was never observed, which is why a reused pane is
no news about its former terminal.  `NewsTold` and `CurrentStays` need that the
observations of the daemon follow each other, `AloneInv`: as long as no command has
observed, the daemon's snapshot is at least as new as the ledger and as all that was
observed (`Newest`).  It is false once a command commits an older one, which is what
`HerdrStaleSnapshot` shows.

`AgentUpgradeProofs` has two invariants.  `IInv` holds whatever fails: `LiveInv` says
why a setup that decided not to restart may leave the daemon alone (the binary and
the daemon are of the release it brings, or there are none), and that from the
service's start on no other daemon is there, so a `--no-start` setup before cannot
leave a stale one behind.  `WInv` adds what a rollback relies on, `KeptInv`: the
backup is the old binary whenever the binary may be another one.  It needs
`"backup" \notin FailingSteps`, and cannot do without: `AgentUpgradeBackup` is the
counterexample.

`AgentRemovalProofs` is about any commands of others, and any number of edits, setups
and failures.  The properties speak of a removal that has ended, or of one that took
the executable and failed; `Staged` says what each step before may rely on.  A service
that was stopped is not enabled behind the removal's back (`ServiceInv`); once the
hooks file was saved, or was found to need no change, no hook comes back, whatever
others write into it (`HooksInv`); Herdr never has a plugin linked whose manifest is
gone, so that a rerun, which looks for the manifest, still unlinks it (`LinkInv`); and
past the check of the socket nothing is captured unless a daemon was not seen
(`QuietInv`).  `RunInv` is `NothingRunsAMissingAgent` itself: while there is no
executable only a setup changes what could run it, and it puts the executable in
place first (`BinaryInv`).  `UninstallFrees` and `EditFrees` say what the operators on
the hooks file give: a file of the same kind, without the command, or with no hook of
it that was not there.  `OthersKept` needs more: `InstallSpares` and `RemoveCommandSpares` give the
correspondence `SameOthers` asks for between the places of others' handlers before and
after, which takes a handler to its rank among those that are left in its group, and
the group to its rank among the groups that are left.  Both rest on `ChosenRanked`
again.  `SavedInv` says that what a setup or removal saves was made of the file
it read.

`AppServerHostProofs` is about any clock and any number of commands, checks, updates
and starts.  `PairingWorks` speaks of a command that is done; `FreshInv` says the
same while it is not: the server runs with the token in the file.  `StoppedInv` is
why a setup gets there: unless a restart crosses it, nothing runs, and nothing is
respawned, from the check of the port to the start.  `UnitInv` keeps the service
manager from starting a unit that is gone, and `TokenInv` says which steps find a
usable token.  `ImageInv` and `CheckInv` say what the readings of a check mean when
they are used: they are no later than the executable's change, and no earlier unless
it changed after the check began.  `WholeSeconds` is the arithmetic of `ps`, for any
length of a second, and `Decided` puts the readings together.  The attempt to prove
`UnitInv` showed that an earlier model had systemd respawn a unit after
`daemon-reload` had made it forget it (bin/novascale-codex:262-267), and that its
bound on the clock kept restarts from crossing commands; both are corrected.

Assumptions: those named in the modules; TLC evaluates them in every run of these.
Only model-checked: the liveness properties, `ActiveBackendGetsItsEvents`,
`SwitchReachesTheQueue`, `RegistrationSettles`, `TokenGoes`, `RemovalEnds` and `StopEnds`,
which this prover cannot handle.  Every invariant and every action property of a
passing run is stated by a theorem.

## Not modelled

HTTP, signatures and SQLite are external: an exchange has an outcome, a
transaction is a step.  Left out are delays that change no state (the backoff of
enrollment), the text of messages and of notifications (`HerdrMetadata.Body`), socket
paths and names, the listing of bindings for the phone (`herdr_bindings.go`, which
changes nothing), option parsing, release downloads and the release scripts.  The
agent labels and thread ids of panes are in `HostEvents` and not in `HerdrCapture`.
Codex, Herdr, the service managers and other editors of the hooks file are modelled
from what the code expects of them.  The helper's `uninstall` is modelled for the
wrapper and not for the agent, which it also deletes: it goes through none of the
checks `AgentRemoval` is about.

## Plan

Done: the queue and its delivery, what changes its backend (enrollment), what fills
it (Herdr capture, hooks), the abstract specification of the delivery with the
refinement proved, the process that runs it all, what replaces and removes the
program, and the wrapper, with their safety properties proved.  Next, in this order:

1. The helper's `uninstall` joined with `AgentRemoval`.
2. Several panes in `HerdrCapture`, with the coverage by Codex of a pane.

There is one run for each question; a new question takes the place of one that
another run can answer as well.
