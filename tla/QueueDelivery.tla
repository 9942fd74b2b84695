---------------------------- MODULE QueueDelivery ----------------------------
(***************************************************************************)
(* Capture and delivery of notification events: the hook processes and     *)
(* the Herdr observer that fill the queue, the daemon's upload worker that *)
(* empties it, the two copies of the configuration (on disk and in the     *)
(* daemon) that say which backend is active, and the command that switches *)
(* the backend under a running daemon.  Every SQLite transaction is one    *)
(* step, and so is every HTTP exchange; the daemon may die between any two *)
(* of them.                                                                *)
(*                                                                         *)
(* Simplified here: what the enrollment exchange does on the network is    *)
(* one step (Enroll); which Herdr hints an observation withdraws or adds   *)
(* is left open (HerdrReconcile); the timer and the wake channel that end  *)
(* the upload worker's wait are not distinguished, since the 5 s timer     *)
(* alone lets Snapshot happen again and again.                             *)
(***************************************************************************)
EXTENDS EventQueue

CONSTANTS
    Legacy,        \* rows an agent without the backend column left behind
    Requests,      \* events whose id is a hash of the request: may be repeated
    Turns,         \* events with a fresh UUID
    Hints, Tests,  \* Herdr hints and "herdr test" events, with a fresh UUID
    Endpoints,     \* notification endpoints, as a configuration spells them
    Stored,        \* endpoint -> what ConfigureBackend writes: URL.String()
    Compared,      \* endpoint -> what NextForBackend compares with: the spelling
    MaxDelay,      \* longest retry delay (3600 s)
    ClockLag,      \* how stale d.now() may be when the transaction commits
    MaxTime,       \* bound: nothing is captured later
    MaxRowid,      \* bound: nothing is captured above this rowid
    MaxAttempts    \* bound: uploads that fail, per row

ASSUME IdAssumption ==
    /\ EventIds = Legacy \cup Requests \cup Turns \cup Hints \cup Tests
    /\ \A i \in Legacy \cup Requests \cup Turns : SourceOf[i] = "codex"
    /\ \A i \in Hints \cup Tests : SourceOf[i] = "herdr"
ASSUME EndpointAssumption ==
    /\ Stored \in [Endpoints -> Backends]
    /\ Compared \in [Endpoints -> Backends]
\* What ConfigureBackend writes reads back as itself, so a spelling that equals
\* some stored name is its own stored name.
ASSUME CanonicalAssumption ==
    \A e, f \in Endpoints : Compared[e] = Stored[f] => Compared[e] = Stored[e]
ASSUME NumberAssumption ==
    MaxDelay \in Nat /\ ClockLag \in Nat /\ MaxTime \in Nat
    /\ MaxRowid \in Nat /\ MaxAttempts \in Nat

VARIABLES
    now,           \* the clock
    pending,       \* table pending_events
    queueBackend,  \* table queue_backend
    lastSource,    \* Queue.lastSource of the daemon's queue
    disk,          \* the configuration file
    mem,           \* Daemon.Config, NoConfig while no daemon runs
    loaded,        \* what LoadConfig returned and is not applied yet
    cli,           \* what a running switch-backend is about to save
    up,            \* the upload worker
    captured,      \* history: <<backend, id>> queued for that backend
    settled        \* history: <<backend, id>> accepted or refused for good

vars == <<now, pending, queueBackend, lastSource, disk, mem, loaded, cli, up,
          captured, settled>>

\* For the queue, a registration is active or it is not: "pending" stands for
\* every other registration state.
States == {"pending", "active"}
Config == [endpoint: Endpoints, state: States]
NoConfig == [endpoint |-> "none", state |-> "none"]

NoId == "none"
Idle == [pc |-> "idle", endpoint |-> "none", id |-> NoId, attempts |-> 0, bare |-> FALSE]
Uploader == {Idle} \cup
    [pc: {"snapshot", "sending", "done", "failed"}, endpoint: Endpoints,
     id: EventIds \cup {NoId}, attempts: Nat, bare: BOOLEAN]

TypeOK ==
    /\ now \in Nat
    /\ IsQueue(pending)
    /\ queueBackend \in Backends \cup {NoBackend}
    /\ lastSource \in Sources \cup {"none"}
    /\ disk \in Config
    /\ mem \in Config \cup {NoConfig}
    /\ loaded \in Config \cup {NoConfig}
    /\ cli \in Config \cup {NoConfig}
    /\ up \in Uploader
    /\ up.pc \in {"sending", "done", "failed"} => up.id \in EventIds
    /\ captured \subseteq Backends \X EventIds
    /\ settled \subseteq Backends \X EventIds

Running == mem # NoConfig

\* An upgrade finds unbound rows and no configured backend; any other start
\* finds an empty queue.  Old rows were captured for the one endpoint there was.
Init ==
    /\ now = 0
    /\ \E old \in {ids \in SUBSET Legacy : IsFiniteSet(ids)}, rank \in [Legacy -> 1..MaxRowid] :
          /\ \A i, j \in old : rank[i] = rank[j] => i = j
          /\ pending = [i \in old |-> [NewRow(EmptyQueue, i, 0, NoBackend)
                                        EXCEPT !.rowid = rank[i]]]
          /\ disk \in Config
          /\ captured = {<<Stored[disk.endpoint], i>> : i \in old}
    /\ queueBackend = NoBackend
    /\ lastSource = "none"
    /\ mem = NoConfig /\ loaded = NoConfig /\ cli = NoConfig
    /\ up = Idle
    /\ settled = {}

------------------------------------------------------------------------------
(* Configuration: the daemon's start and refresh, and the switch command. *)

\* LoadConfig, in runServe and in refreshConfig, before any lock is taken.
Load ==
    /\ loaded = NoConfig
    /\ loaded' = disk
    /\ UNCHANGED <<now, pending, queueBackend, lastSource, disk, mem, cli, up, captured, settled>>

\* Mutant of Apply: the queue is configured at the first start only.
ApplyOnce ==
    /\ loaded # NoConfig
    /\ mem' = loaded
    /\ loaded' = NoConfig
    /\ IF queueBackend = NoBackend
       THEN /\ pending' = BindRows(pending, queueBackend, Stored[loaded.endpoint])
            /\ queueBackend' = Stored[loaded.endpoint]
       ELSE UNCHANGED <<pending, queueBackend>>
    /\ UNCHANGED <<now, lastSource, disk, cli, up, captured, settled>>

\* The rest of either: ConfigureBackend, and the configuration takes effect.
Apply ==
    /\ loaded # NoConfig
    /\ pending' = BindRows(pending, queueBackend, Stored[loaded.endpoint])
    /\ queueBackend' = Stored[loaded.endpoint]
    /\ mem' = loaded
    /\ loaded' = NoConfig
    /\ UNCHANGED <<now, lastSource, disk, cli, up, captured, settled>>

\* attemptEnrollment's answer is saved while it holds the enrollment lock: no
\* switch is under way and, refreshed under the lock, mem is what is on disk.
Enroll(state) ==
    /\ Running /\ loaded = NoConfig
    /\ cli = NoConfig /\ mem = disk
    /\ mem' = [mem EXCEPT !.state = state]
    /\ disk' = mem'
    /\ UNCHANGED <<now, pending, queueBackend, lastSource, loaded, cli, up, captured, settled>>

\* A registration an old agent left in "needs_setup_token" (one of those that
\* "pending" stands for) is migrated in a save that takes no lock, so a switch
\* of the backend may be undone; module Enrollment looks closer.
Migrate ==
    /\ Running /\ loaded = NoConfig
    /\ mem.state = "pending"
    /\ disk' = mem
    /\ UNCHANGED <<now, pending, queueBackend, lastSource, mem, loaded, cli, up, captured, settled>>

\* Mutant of SwitchBind: the queue moves to the new endpoint at once.
SwitchBindNew(endpoint) ==
    /\ cli = NoConfig
    /\ pending' = BindRows(pending, queueBackend, Stored[endpoint])
    /\ queueBackend' = Stored[endpoint]
    /\ cli' = [endpoint |-> endpoint, state |-> "pending"]
    /\ UNCHANGED <<now, lastSource, disk, mem, loaded, up, captured, settled>>

\* switch-backend first binds the old rows to the endpoint it leaves, if there is
\* a database yet ...
SwitchBind(endpoint) ==
    /\ cli = NoConfig
    /\ \/ /\ pending' = BindRows(pending, queueBackend, Stored[disk.endpoint])
          /\ queueBackend' = Stored[disk.endpoint]
       \/ /\ queueBackend = NoBackend /\ DOMAIN pending = {}
          /\ UNCHANGED <<pending, queueBackend>>
    /\ cli' = [endpoint |-> endpoint, state |-> "pending"]
    /\ UNCHANGED <<now, lastSource, disk, mem, loaded, up, captured, settled>>

\* ... then saves the new configuration, unless it is killed before.
SwitchSave ==
    /\ cli # NoConfig
    /\ disk' \in {cli, disk}
    /\ cli' = NoConfig
    /\ UNCHANGED <<now, pending, queueBackend, lastSource, mem, loaded, up, captured, settled>>

\* The daemon dies, or fails to start.
Crash ==
    /\ Running \/ loaded # NoConfig
    /\ mem' = NoConfig /\ loaded' = NoConfig
    /\ lastSource' = "none"
    /\ up' = Idle
    /\ UNCHANGED <<now, pending, queueBackend, disk, cli, captured, settled>>

------------------------------------------------------------------------------
(* Capture. *)

ClockReadings == {t \in 0..now : now <= t + ClockLag}

Fresh(id) == \A b \in Backends : <<b, id>> \notin captured

\* A transaction that commits an event read at time t, on top of queue q.
Capture(q, id, t) ==
    /\ now <= MaxTime /\ NextRowid(q) <= MaxRowid
    /\ t \in ClockReadings
    /\ pending' = Enqueue(q, id, t, queueBackend)
    /\ captured' = IF id \in DOMAIN q THEN captured
                   ELSE captured \cup {<<queueBackend, id>>}

\* A Codex hook's IPC message, queued and acknowledged by the daemon.
HookCapture(id, t) ==
    /\ Running
    /\ id \in Requests \cup Turns
    /\ id \in Turns => Fresh(id)
    /\ Capture(pending, id, t)
    /\ UNCHANGED <<now, queueBackend, lastSource, disk, mem, loaded, cli, up, settled>>

\* "herdr test" writes to the database itself.  It has asked a running daemon
\* for its capabilities before, so a backend has been configured.
TestCapture(id, t) ==
    /\ queueBackend # NoBackend
    /\ id \in Tests /\ Fresh(id)
    /\ Capture(pending, id, t)
    /\ UNCHANGED <<now, queueBackend, lastSource, disk, mem, loaded, cli, up, settled>>

\* ReconcileHerdr: an observation of a session withdraws the hints it makes
\* obsolete (of panes that went or changed, or of a server that restarted) and
\* may queue a new one, in one transaction.  One that queues several is several
\* of these steps: what it commits is what they end in.
HerdrReconcile(s, gone, hint, t) ==
    /\ gone \subseteq SessionRows(pending, s)
    /\ LET rest == Without(pending, gone)
       IN  \/ /\ gone # {}
              /\ pending' = rest /\ captured' = captured
           \/ /\ Running
              /\ hint \in Hints /\ SessionOf[hint] = s /\ Fresh(hint)
              /\ Capture(rest, hint, t)
    /\ UNCHANGED <<now, queueBackend, lastSource, disk, mem, loaded, cli, up, settled>>

\* SetHerdrCaptureEnabled(false) discards the queued hints.
HerdrOff ==
    /\ HerdrRows(pending) # {}
    /\ pending' = Without(pending, HerdrRows(pending))
    /\ UNCHANGED <<now, queueBackend, lastSource, disk, mem, loaded, cli, up, captured, settled>>

------------------------------------------------------------------------------
(* The upload worker: uploadDue, one pass of its loop. *)

Snapshot ==
    /\ up = Idle
    /\ Running /\ mem.state = "active"
    /\ up' = [Idle EXCEPT !.pc = "snapshot", !.endpoint = mem.endpoint]
    /\ UNCHANGED <<now, pending, queueBackend, lastSource, disk, mem, loaded, cli, captured, settled>>

\* Mutant of Pick: sql.ErrNoRows is not looked at.
PickNoRows ==
    /\ up.pc = "snapshot"
    /\ up' = [up EXCEPT !.pc = "sending"]
    /\ UNCHANGED <<now, pending, queueBackend, lastSource, disk, mem, loaded, cli, captured, settled>>

\* NextForBackend: expired rows go, then the next row due is chosen.
Pick ==
    /\ up.pc = "snapshot"
    /\ pending' = Without(pending, Expired(pending, now))
    /\ LET due == Due(pending, now, Compared[up.endpoint])
       IN  \/ due = {} /\ up' = Idle /\ lastSource' = lastSource
           \/ \E i \in due :
                 /\ IsNext(pending, due, lastSource, i)
                 /\ up' = [up EXCEPT !.pc = "sending", !.id = i,
                                     !.attempts = pending[i].attempts]
                 /\ lastSource' = SourceOf[i]
    /\ UNCHANGED <<now, queueBackend, disk, mem, loaded, cli, captured, settled>>

\* The backend an upload reaches, and the pair it settles there.
Exchange == <<Stored[up.endpoint], up.id>>

\* 2xx, or 409 from a backend that has the event already.
Accepted ==
    /\ up.pc = "sending"
    /\ settled' = settled \cup {Exchange}
    /\ up' = [up EXCEPT !.pc = "done"]
    /\ UNCHANGED <<now, pending, queueBackend, lastSource, disk, mem, loaded, cli, captured>>

\* 400, 404 or 422 for a Herdr event, 429 for a test: refused for good.
Dismissed ==
    /\ up.pc = "sending" /\ SourceOf[up.id] = "herdr"
    /\ settled' = settled \cup {Exchange}
    /\ up' = [up EXCEPT !.pc = "done"]
    /\ UNCHANGED <<now, pending, queueBackend, lastSource, disk, mem, loaded, cli, captured>>

\* 400 for a hint that carries display metadata: once more, without it.
StripMetadata ==
    /\ up.pc = "sending" /\ up.id \in Hints /\ ~up.bare
    /\ up' = [up EXCEPT !.bare = TRUE]
    /\ UNCHANGED <<now, pending, queueBackend, lastSource, disk, mem, loaded, cli, captured, settled>>

\* Any other answer, or none: the backend may have accepted the event.
Failed ==
    /\ up.pc = "sending" /\ up.attempts < MaxAttempts
    /\ settled' \in {settled, settled \cup {Exchange}}
    /\ up' = [up EXCEPT !.pc = "failed"]
    /\ UNCHANGED <<now, pending, queueBackend, lastSource, disk, mem, loaded, cli, captured>>

\* Mutant of Complete: a delivered row is left in the table.
CompleteKeeps ==
    /\ up.pc = "done"
    /\ up' = Idle
    /\ UNCHANGED <<now, pending, queueBackend, lastSource, disk, mem, loaded, cli, captured, settled>>

\* Complete: the row of that id goes, whatever has become of it since.
Complete ==
    /\ up.pc = "done"
    /\ pending' = Without(pending, {up.id})
    /\ up' = Idle
    /\ UNCHANGED <<now, queueBackend, lastSource, disk, mem, loaded, cli, captured, settled>>

Delay(attempts) == IF 2^attempts \in 1..MaxDelay THEN 2^attempts ELSE MaxDelay

\* Retry: the row of that id waits, and so does the worker.
Retry ==
    /\ up.pc = "failed"
    /\ pending' = Postpone(pending, up.id, up.attempts + 1, now + Delay(up.attempts + 1))
    /\ up' = Idle
    /\ UNCHANGED <<now, queueBackend, lastSource, disk, mem, loaded, cli, captured, settled>>

\* The error of Complete or Retry, which uploadDue ignores: the row is left as it
\* is, due at once.
StatementFails ==
    /\ up.pc \in {"done", "failed"}
    /\ up' = Idle
    /\ UNCHANGED <<now, pending, queueBackend, lastSource, disk, mem, loaded, cli, captured, settled>>

------------------------------------------------------------------------------
\* Time passes up to the bound, and beyond it while a row waits for a retry.
Tick ==
    /\ now < MaxTime \/ \E i \in DOMAIN pending : pending[i].next > now
    /\ now' = now + 1
    /\ UNCHANGED <<pending, queueBackend, lastSource, disk, mem, loaded, cli, up, captured, settled>>

ConfigStep ==
    \/ Load \/ Apply \/ Migrate \/ SwitchSave
    \/ \E state \in States : Enroll(state)
    \/ \E endpoint \in Endpoints : SwitchBind(endpoint)

CaptureStep ==
    \/ \E id \in EventIds, t \in ClockReadings : HookCapture(id, t) \/ TestCapture(id, t)
    \/ \E s \in {SessionOf[i] : i \in Hints} : \E gone \in SUBSET SessionRows(pending, s) :
          \E hint \in Hints, t \in ClockReadings : HerdrReconcile(s, gone, hint, t)
    \/ HerdrOff

UploadStep ==
    \/ Snapshot \/ Pick \/ Accepted \/ Dismissed \/ StripMetadata \/ Failed
    \/ Complete \/ Retry \/ StatementFails

Next == ConfigStep \/ CaptureStep \/ UploadStep \/ Crash \/ Tick

Spec == Init /\ [][Next]_vars

\* The worker is scheduled, its HTTP requests have a timeout and its timer
\* fires; the service manager restarts the daemon, whose loop refreshes the
\* configuration; the clock runs.  Complete and Retry may fail, so
\* that one of them succeeds needs strong fairness: not all writes fail for ever.
Fairness ==
    /\ WF_vars(Snapshot) /\ WF_vars(Pick) /\ SF_vars(Complete \/ Retry)
    /\ WF_vars(Accepted \/ Dismissed \/ Failed)
    /\ WF_vars(Load) /\ WF_vars(Apply)
    /\ WF_vars(Tick)

FairSpec == Spec /\ Fairness

------------------------------------------------------------------------------
(* Properties. *)

\* A row is bound to a backend it was captured for: neither the adoption of
\* unbound rows by an upgrade (queue.go:164) nor a switch of the backend,
\* in whatever order command, refresh and crash happen, moves an event.
RowsStayWhereCaptured ==
    \A i \in DOMAIN pending :
        pending[i].backend # NoBackend => <<pending[i].backend, i>> \in captured

\* An event is sent to no other backend than one it was captured for, although
\* the worker sends with the configuration it read before it chose the event
\* (daemon.go:214-222) and the backend may have been switched since.
PostsOnlyWhereCaptured ==
    up.pc = "sending" => Exchange \in captured

\* Why both hold: only before the first configuration are rows unbound or
\* would a step bind them, and then there is one endpoint they can belong to;
\* without rows a switch may have come before.
StoredNames == {Stored[e] : e \in Endpoints}
BindingInvariant ==
    /\ RowsStayWhereCaptured
    /\ PostsOnlyWhereCaptured
    /\ captured \subseteq StoredNames \X EventIds
    /\ queueBackend \in StoredNames \cup {NoBackend}
    /\ queueBackend # NoBackend =>
          \A i \in DOMAIN pending : pending[i].backend # NoBackend
    /\ queueBackend = NoBackend =>
          /\ mem = NoConfig
          /\ DOMAIN pending # {} =>
                cli = NoConfig /\ (loaded # NoConfig => loaded = disk)
          /\ \A i \in DOMAIN pending : <<Stored[disk.endpoint], i>> \in captured

\* The outbox a row is in: an unbound one is in that of the endpoint which the
\* first configuration will bind it to.
OwnerOf(i) == IF pending[i].backend = NoBackend THEN Stored[disk.endpoint]
                                                ELSE pending[i].backend
Held == {<<OwnerOf(i), i>> : i \in DOMAIN pending}
Offered == IF up.pc \in {"sending", "done", "failed"} THEN {Exchange} ELSE {}

O == INSTANCE Outbox WITH held <- Held, offered <- Offered

\* Capture and delivery implement the outboxes: no configuration, refresh,
\* switch, upgrade or crash moves an event from one backend's to another's, and
\* an upload takes out what its backend has settled and nothing else
\* (queue.go:155-173 and 180-214, daemon.go:212-274, enrollment.go:45-65).
OutboxSpec == O!Spec

\* The caps hold after every transaction (queue.go:140-145); the rows an upgrade
\* finds are counted once there is another.
CapsHold ==
    /\ \A s \in {SessionOf[i] : i \in HerdrRows(pending)} :
          Cardinality(SessionRows(pending, s)) <= SessionCap
    /\ Cardinality(HerdrRows(pending)) <= HerdrCap
    /\ Cardinality(DOMAIN pending) <= TotalCap \/ DOMAIN pending \subseteq Legacy

\* A Codex row leaves the queue only when its own backend has settled it, when
\* it has expired, or when as many Codex rows as the queue holds remain: no
\* Herdr activity, failed upload, switch or crash loses a Codex event.
CodexRowsAreNotLost ==
    [][\A i \in CodexRows(pending) \ DOMAIN pending' :
          \/ <<pending[i].backend, i>> \in settled
          \/ pending[i].expires <= now
          \/ Cardinality(CodexRows(pending')) = TotalCap]_vars

\* While the backend an event belongs to stays active, the event does not stay
\* in the queue: it is delivered, whatever fails in between.
Serving(b) == Running /\ mem.state = "active" /\ Stored[mem.endpoint] = b
ActiveBackendGetsItsEvents ==
    \A b \in Backends, i \in EventIds :
        <>[]Serving(b) => []<>~(i \in DOMAIN pending /\ pending[i].backend = b)

\* When the configuration on disk settles on an endpoint, new events come to
\* belong to it without a restart of the daemon (enrollment.go:45-65).
SwitchReachesTheQueue ==
    \A e \in Endpoints :
        <>[](Running /\ disk.endpoint = e) => <>[](queueBackend = Stored[e])
==============================================================================
