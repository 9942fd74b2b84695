------------------------------ MODULE AgentDaemon ------------------------------
(***************************************************************************)
(* The life of the daemon process: it binds its socket, accepts            *)
(* connections and handles each in a goroutine of its own, beside three    *)
(* loops that upload, enroll and observe Herdr and that wake one another;  *)
(* it is told to stop and drains, is killed, or fails to accept.  Several  *)
(* processes may use one socket path and one database: a service, one that *)
(* is started by hand, and one that has not ended when the next starts.    *)
(*                                                                         *)
(* Simplified here: which row is uploaded next and where are QueueDelivery, *)
(* how enrollment goes is Enrollment, what an observation makes of a       *)
(* server is HerdrCapture; a request that a visitor makes and that changes *)
(* nothing (for information, or one that is refused) is one kind of        *)
(* message.                                                                *)
(***************************************************************************)
EXTENDS HostEvents

CONSTANTS
    Daemons,     \* processes that run "serve"
    Hooks,       \* hook processes, one event each
    Visitors,    \* other processes that connect, again and again
    Hints,       \* ids of the hints that observations queue
    Keys,        \* bindings of Herdr servers
    Slots,       \* connections handled at once (64)
    Buffer,      \* signals in the channel, and keys in the loop's map (128)
    HookInputs,  \* what Codex may write to a hook
    Triggers,    \* what Herdr may call a plugin hook with: <<trigger, input>>
    Agents       \* agents Herdr may list, with what they would show

ASSUME DaemonAssumption == {"none", "stale"} \cap Daemons = {}
ASSUME ClientAssumption == Hooks \cap (Visitors \cup Hints) = {}
ASSUME AgentAssumption == Agents \subseteq Agent
ASSUME SlotAssumption == Slots \in Nat \ {0} /\ Buffer \in Nat \ {0}

VARIABLES
    path,    \* whose socket the path names: nobody's, a dead daemon's, a daemon's
    daemon,  \* the daemons
    conn,    \* the connections, from the daemon's side
    told,    \* what a hook process knows of its event
    rows,    \* table pending_events
    owed     \* history: <<daemon, key>>, baseline asked for, accepted and not done

vars == <<path, daemon, conn, told, rows, owed>>

Clients == Hooks \cup Visitors
NoKeys == [k \in {} |-> FALSE]

Signal == [key: Keys, baseline: BOOLEAN]
Channel == BoundedSeq(Signal, Buffer)
Dirty == UNION {[ks -> BOOLEAN] : ks \in SUBSET Keys}

Daemon ==
    [main: {"off", "clear", "bind", "serve", "drain"},
     cancelled: BOOLEAN,   \* the context of signal.NotifyContext
     listening: BOOLEAN,
     active: BOOLEAN,      \* the registration, in the daemon's configuration
     wake: BOOLEAN,        \* the channel of one that ends the uploader's wait
     uploader: {"off", "pass", "send", "return", "wait", "ended"},
     why: {"none", "empty", "inactive", "failed"},   \* what ended its last pass
     id: Hooks \cup Hints \cup {"none"},
     enroller: {"off", "run", "wake", "ended"},
     observer: {"off", "run", "wake", "ended"},
     channel: Channel,     \* herdrDirty
     dirty: Dirty]         \* herdrLoop's map: whether a binding waits for a baseline

Off == [main |-> "off", cancelled |-> FALSE, listening |-> FALSE, active |-> FALSE,
        wake |-> FALSE, uploader |-> "off", why |-> "none", id |-> "none",
        enroller |-> "off", observer |-> "off", channel |-> <<>>, dirty |-> NoKeys]

Message ==
    [kind: {"none", "event", "other", "silent"}] \cup
    [kind: {"signal"}, key: Keys, baseline: BOOLEAN]
NoConnection == [pc |-> "none", daemon |-> "none", message |-> [kind |-> "none"]]

Row == [state: {"none", "due", "later", "gone"}, by: Daemons \cup {"none"},
        source: {"none", "codex", "herdr"}]
NoRow == [state |-> "none", by |-> "none", source |-> "none"]

Connection ==
    [pc: {"none", "backlog", "read", "reply", "wake"}, daemon: Daemons \cup {"none"},
     message: Message]

\* Who is connected, is connected to a daemon that runs.
Connected ==
    \A c \in Clients : conn[c].pc # "none" =>
        /\ conn[c].daemon \in Daemons
        /\ daemon[conn[c].daemon].main \in {"serve", "drain"}

TypeOK ==
    /\ path \in {"none", "stale"} \cup Daemons
    /\ daemon \in [Daemons -> Daemon]
    /\ conn \in [Clients -> Connection] /\ Connected
    /\ told \in [Hooks -> {"nothing", "waiting", "accepted", "failed"}]
    /\ rows \in [Hooks \cup Hints -> Row]
    /\ owed \subseteq Daemons \X Keys

Init ==
    /\ path \in {"none", "stale"}
    /\ daemon = [d \in Daemons |-> Off]
    /\ conn = [c \in Clients |-> NoConnection]
    /\ told = [h \in Hooks |-> "nothing"]
    /\ rows = [i \in Hooks \cup Hints |-> NoRow]
    /\ owed = {}

------------------------------------------------------------------------------
(* The process: runServe, Run and ListenIPC. *)

At(d, pc) == daemon[d].main = pc
Up(d) == daemon[d].main \in {"serve", "drain"}

\* Connections in the given states end without an answer.
Drop(d, pcs) ==
    LET dropped == {c \in Clients : conn[c].daemon = d /\ conn[c].pc \in pcs}
    IN  /\ conn' = [c \in Clients |-> IF c \in dropped THEN NoConnection ELSE conn[c]]
        /\ told' = [h \in Hooks |-> IF h \in dropped /\ told[h] = "waiting" THEN "failed" ELSE told[h]]

Start(d) ==
    /\ At(d, "off")
    /\ \E active \in BOOLEAN : daemon' = [daemon EXCEPT ![d] = [Off EXCEPT !.main = "clear", !.active = active]]
    /\ UNCHANGED <<path, conn, told, rows, owed>>

\* ListenIPC removes a socket that is there, whosever it is ...
Clear(d) ==
    /\ At(d, "clear")
    /\ path' = "none"
    /\ daemon' = [daemon EXCEPT ![d].main = "bind"]
    /\ UNCHANGED <<conn, told, rows, owed>>

\* ... and binds its own, unless another did meanwhile.  The loops start.
Bind(d) ==
    /\ At(d, "bind")
    /\ \/ /\ path = "none"
          /\ path' = d
          /\ daemon' = [daemon EXCEPT ![d] = [@ EXCEPT !.main = "serve", !.listening = TRUE,
                                !.uploader = "pass", !.enroller = "run", !.observer = "run"]]
       \/ /\ path # "none"
          /\ daemon' = [daemon EXCEPT ![d] = Off]
          /\ path' = path
    /\ UNCHANGED <<conn, told, rows, owed>>

\* SIGTERM or an interrupt.
Stop(d) ==
    /\ ~At(d, "off") /\ ~daemon[d].cancelled
    /\ daemon' = [daemon EXCEPT ![d].cancelled = TRUE]
    /\ UNCHANGED <<path, conn, told, rows, owed>>

\* Mutant of CloseListener: nobody closes the listener before Run returns.
CloseListenerLater(d) ==
    /\ Up(d) /\ daemon[d].listening /\ daemon[d].cancelled
    /\ At(d, "drain")
    /\ path' = "none"
    /\ daemon' = [daemon EXCEPT ![d].listening = FALSE]
    /\ Drop(d, {"backlog"})
    /\ UNCHANGED <<rows, owed>>

\* The goroutine that waits for the context.  A Unix listener removes the path
\* it was bound to when it is closed, whatever the path names by then.
CloseListener(d) ==
    /\ Up(d) /\ daemon[d].listening /\ daemon[d].cancelled
    /\ path' = "none"
    /\ daemon' = [daemon EXCEPT ![d].listening = FALSE]
    /\ Drop(d, {"backlog"})
    /\ UNCHANGED <<rows, owed>>

\* Accept fails when the listener is closed, or for want of descriptors; Run
\* waits for the loops, which in the second case nobody has told to end.
AcceptFails(d) ==
    /\ At(d, "serve")
    /\ daemon' = [daemon EXCEPT ![d].main = "drain"]
    /\ UNCHANGED <<path, conn, told, rows, owed>>

Ended(d) ==
    /\ daemon[d].uploader = "ended" /\ daemon[d].enroller = "ended" /\ daemon[d].observer = "ended"

\* Mutant of Exit: the deferred Close removes the path once more.
ExitUnlinks(d) ==
    /\ At(d, "drain") /\ Ended(d)
    /\ path' = "none"
    /\ daemon' = [daemon EXCEPT ![d] = Off]
    /\ Drop(d, {"backlog", "read", "reply", "wake"})
    /\ owed' = {o \in owed : o[1] # d}
    /\ UNCHANGED rows

\* Run returns and the process ends, with the handlers that are left.
Exit(d) ==
    /\ At(d, "drain") /\ Ended(d)
    /\ path' = IF daemon[d].listening THEN "none" ELSE path
    /\ daemon' = [daemon EXCEPT ![d] = Off]
    /\ Drop(d, {"backlog", "read", "reply", "wake"})
    /\ owed' = {o \in owed : o[1] # d}
    /\ UNCHANGED rows

Kill(d) ==
    /\ ~At(d, "off")
    /\ path' = IF path = d THEN "stale" ELSE path
    /\ daemon' = [daemon EXCEPT ![d] = Off]
    /\ Drop(d, {"backlog", "read", "reply", "wake"})
    /\ owed' = {o \in owed : o[1] # d}
    /\ UNCHANGED rows

------------------------------------------------------------------------------
(* Connections: the clients, and handleConnection. *)

\* What a hook sends, as far as the daemon tells events apart.
HookMessages ==
    {[kind |-> IF ValidHookEvent(e) THEN "event" ELSE "other"] :
        e \in {NormalizeHook(i) : i \in HookInputs} \ {NoEvent}}

Signals == {NormalizeHerdrHook(t[1], t[2]) : t \in Triggers} \ {NoSignal}
VisitorMessages ==
    [kind: {"other", "silent"}]
    \cup {[kind |-> "signal", key |-> k, baseline |-> s.baseline] :
             k \in Keys, s \in {s \in Signals : ValidSignal(s)}}

Connect(c, message) ==
    /\ conn[c].pc = "none"
    /\ IF c \in Hooks THEN told[c] = "nothing" /\ message \in HookMessages
                      ELSE message \in VisitorMessages
    /\ \/ /\ path \in Daemons
          /\ conn' = [conn EXCEPT ![c] = [pc |-> "backlog", daemon |-> path, message |-> message]]
          /\ told' = [h \in Hooks |-> IF h = c THEN "waiting" ELSE told[h]]
       \/ /\ path \notin Daemons /\ c \in Hooks
          /\ told' = [told EXCEPT ![c] = "failed"]
          /\ conn' = conn
    /\ UNCHANGED <<path, daemon, rows, owed>>

\* Half a second is over.
GiveUp(h) ==
    /\ told[h] = "waiting"
    /\ told' = [told EXCEPT ![h] = "failed"]
    /\ UNCHANGED <<path, daemon, conn, rows, owed>>

Handled(d) == {c \in Clients : conn[c].daemon = d /\ conn[c].pc \in {"read", "reply", "wake"}}

\* A hook is told, if it still waits.
Tell(c, answer) ==
    told' = [h \in Hooks |-> IF h = c /\ told[h] = "waiting" THEN answer ELSE told[h]]
CloseUnheard(c) ==
    /\ conn' = [conn EXCEPT ![c] = NoConnection]
    /\ Tell(c, "failed")

Accept(d, c) ==
    /\ At(d, "serve") /\ daemon[d].listening
    /\ conn[c].pc = "backlog" /\ conn[c].daemon = d
    /\ \/ /\ Cardinality(Handled(d)) < Slots
          /\ conn' = [conn EXCEPT ![c].pc = "read"]
          /\ told' = told
       \/ /\ Cardinality(Handled(d)) = Slots
          /\ CloseUnheard(c)
    /\ UNCHANGED <<path, daemon, rows, owed>>

\* What is answered without any change, and what never comes: a second at most.
Refuse(c) ==
    /\ conn[c].pc = "read" /\ conn[c].message.kind \in {"other", "silent"}
    /\ CloseUnheard(c)
    /\ UNCHANGED <<path, daemon, rows, owed>>

\* Mutant of TakeDirty: the channel takes one signal more.
TakeDirtyOver(c) ==
    /\ conn[c].pc = "read" /\ conn[c].message.kind = "signal"
    /\ LET d == conn[c].daemon
           signal == [key |-> conn[c].message.key, baseline |-> conn[c].message.baseline]
       IN  \/ /\ Len(daemon[d].channel) <= Buffer
              /\ daemon' = [daemon EXCEPT ![d].channel = Append(@, signal)]
              /\ owed' = IF signal.baseline THEN owed \cup {<<d, signal.key>>} ELSE owed
           \/ /\ Len(daemon[d].channel) > Buffer
              /\ UNCHANGED <<daemon, owed>>
    /\ CloseUnheard(c)
    /\ UNCHANGED <<path, rows>>

\* A signal is taken, or refused when the channel is full.
TakeDirty(c) ==
    /\ conn[c].pc = "read" /\ conn[c].message.kind = "signal"
    /\ LET d == conn[c].daemon
           signal == [key |-> conn[c].message.key, baseline |-> conn[c].message.baseline]
       IN  \/ /\ Len(daemon[d].channel) < Buffer
              /\ daemon' = [daemon EXCEPT ![d].channel = Append(@, signal)]
              /\ owed' = IF signal.baseline THEN owed \cup {<<d, signal.key>>} ELSE owed
           \/ /\ Len(daemon[d].channel) = Buffer
              /\ UNCHANGED <<daemon, owed>>
    /\ CloseUnheard(c)
    /\ UNCHANGED <<path, rows>>

\* A transaction of daemon d that adds a row, which a context that has ended forbids.
Add(d, id, source) ==
    /\ ~daemon[d].cancelled
    /\ rows' = [rows EXCEPT ![id] = [state |-> "due", by |-> d, source |-> source]]

\* Mutant of Commit: the error of Enqueue is not looked at.
CommitAnyway(c) ==
    /\ conn[c].pc = "read" /\ conn[c].message.kind = "event"
    /\ Add(conn[c].daemon, c, "codex") \/ rows' = rows
    /\ conn' = [conn EXCEPT ![c].pc = "reply"]
    /\ UNCHANGED <<path, daemon, told, owed>>

\* Queue.Enqueue, which fails as well when the database is busy for too long.
Commit(c) ==
    /\ conn[c].pc = "read" /\ conn[c].message.kind = "event"
    /\ \/ /\ Add(conn[c].daemon, c, "codex")
          /\ conn' = [conn EXCEPT ![c].pc = "reply"]
          /\ told' = told
       \/ /\ CloseUnheard(c)
          /\ rows' = rows
    /\ UNCHANGED <<path, daemon, owed>>

Reply(c) ==
    /\ conn[c].pc = "reply"
    /\ conn' = [conn EXCEPT ![c].pc = "wake"]
    /\ Tell(c, "accepted")
    /\ UNCHANGED <<path, daemon, rows, owed>>

\* Mutant of Wake: the channel has no room, so that only a loop that waits is woken.
WakeUnbuffered(c) ==
    /\ conn[c].pc = "wake"
    /\ LET d == conn[c].daemon
       IN  daemon' = [daemon EXCEPT ![d].wake = @ \/ daemon[d].uploader = "wait"]
    /\ conn' = [conn EXCEPT ![c] = NoConnection]
    /\ UNCHANGED <<path, told, rows, owed>>

Wake(c) ==
    /\ conn[c].pc = "wake"
    /\ daemon' = [daemon EXCEPT ![conn[c].daemon].wake = TRUE]
    /\ conn' = [conn EXCEPT ![c] = NoConnection]
    /\ UNCHANGED <<path, told, rows, owed>>

------------------------------------------------------------------------------
(* uploadLoop and uploadDue. *)

Uploading(d, pc) == Up(d) /\ daemon[d].uploader = pc
Due == {i \in DOMAIN rows : rows[i].state = "due"}
Return(d, why) == daemon' = [daemon EXCEPT ![d].uploader = "return", ![d].why = why, ![d].id = "none"]

\* The context, the configuration, and NextForBackend, which may fail.
Pass(d) ==
    /\ Uploading(d, "pass")
    /\ \/ Return(d, IF daemon[d].active \/ daemon[d].cancelled THEN "failed" ELSE "inactive")
       \/ /\ ~daemon[d].cancelled /\ daemon[d].active
          /\ \/ Due = {} /\ Return(d, "empty")
             \/ \E i \in Due : daemon' = [daemon EXCEPT ![d].uploader = "send", ![d].id = i]
    /\ UNCHANGED <<path, conn, told, rows, owed>>

\* The answer, with Complete or Retry, which do nothing once the context has ended.
Answered(d) ==
    /\ Uploading(d, "send")
    /\ LET i == daemon[d].id
           after(state) == IF daemon[d].cancelled \/ rows[i].state = "gone" THEN rows
                           ELSE [rows EXCEPT ![i].state = state, ![i].by = "none"]
       IN  \/ rows' = after("gone") /\ daemon' = [daemon EXCEPT ![d].uploader = "pass", ![d].id = "none"]
           \/ rows' = after("later") /\ Return(d, "failed")
    /\ UNCHANGED <<path, conn, told, owed>>

Sleep(d) ==
    /\ Uploading(d, "return")
    /\ daemon' = [daemon EXCEPT ![d].uploader = "wait"]
    /\ UNCHANGED <<path, conn, told, rows, owed>>

\* The ticker of 5 s, or the channel.
WakeUp(d) ==
    /\ Uploading(d, "wait")
    /\ \E wake \in {daemon[d].wake, FALSE} :
          daemon' = [daemon EXCEPT ![d].uploader = "pass", ![d].wake = wake]
    /\ UNCHANGED <<path, conn, told, rows, owed>>

UploaderEnds(d) ==
    /\ Uploading(d, "wait") /\ daemon[d].cancelled
    /\ daemon' = [daemon EXCEPT ![d].uploader = "ended"]
    /\ UNCHANGED <<path, conn, told, rows, owed>>

\* The delay of a row that was retried is over.
Ripen(i) ==
    /\ rows[i].state = "later"
    /\ rows' = [rows EXCEPT ![i].state = "due"]
    /\ UNCHANGED <<path, daemon, conn, told, owed>>

------------------------------------------------------------------------------
(* enrollmentLoop. *)

Enrolling(d, pc) == Up(d) /\ daemon[d].enroller = pc

Enrolled(d) ==
    /\ Enrolling(d, "run") /\ ~daemon[d].active /\ ~daemon[d].cancelled
    /\ daemon' = [daemon EXCEPT ![d].active = TRUE, ![d].enroller = "wake"]
    /\ UNCHANGED <<path, conn, told, rows, owed>>

EnrolledWakes(d) ==
    /\ Enrolling(d, "wake")
    /\ daemon' = [daemon EXCEPT ![d].wake = TRUE, ![d].enroller = "run"]
    /\ UNCHANGED <<path, conn, told, rows, owed>>

\* refreshConfig finds what init or switch-backend has written.
Unregistered(d) ==
    /\ Enrolling(d, "run") /\ daemon[d].active
    /\ daemon' = [daemon EXCEPT ![d].active = FALSE]
    /\ UNCHANGED <<path, conn, told, rows, owed>>

EnrollerEnds(d) ==
    /\ Enrolling(d, "run") /\ daemon[d].cancelled
    /\ daemon' = [daemon EXCEPT ![d].enroller = "ended"]
    /\ UNCHANGED <<path, conn, told, rows, owed>>

------------------------------------------------------------------------------
(* herdrLoop. *)

Observing(d, pc) == Up(d) /\ daemon[d].observer = pc
IsBaseline(dirty, k) == k \in DOMAIN dirty /\ dirty[k]

\* Mutant of Merge: the later signal of a binding replaces the earlier one.
MergeLast(dirty, s) ==
    [k \in DOMAIN dirty \cup {s.key} |-> IF k = s.key THEN s.baseline ELSE dirty[k]]

Merge(dirty, s) ==
    [k \in DOMAIN dirty \cup {s.key} |->
        IF k = s.key THEN s.baseline \/ IsBaseline(dirty, k) ELSE dirty[k]]

\* A full map takes no signal, not even of a key it has.
TakeSignal(d) ==
    /\ Observing(d, "run") /\ daemon[d].channel # <<>>
    /\ LET s == Head(daemon[d].channel)
           dirty == daemon[d].dirty
           room == Cardinality(DOMAIN dirty) < Buffer
       IN  /\ daemon' = [daemon EXCEPT ![d].channel = Tail(@),
                                       ![d].dirty = IF room THEN Merge(@, s) ELSE @]
           /\ owed' = IF room \/ ~s.baseline \/ IsBaseline(dirty, s.key) THEN owed
                      ELSE owed \ {<<d, s.key>>}
    /\ UNCHANGED <<path, conn, told, rows>>

\* The sources under which hints are filed, of all agents that there are hints of.
HintSources ==
    {FiledUnder(HintOf(a, n)) :
        a \in {a \in Agents : a.status \in {"blocked", "idle", "done"}},
        n \in SessionNames \ {"invalid"}}

\* reconcileHerdr, which may fail to read the server and then changes nothing.
Observe(d, k) ==
    /\ Observing(d, "run") /\ k \in DOMAIN daemon[d].dirty
    /\ LET baseline == daemon[d].dirty[k]
           After(pc) == [daemon EXCEPT ![d].dirty = [other \in DOMAIN @ \ {k} |-> @[other]],
                                       ![d].observer = pc]
       IN  /\ \/ daemon' = After("run") /\ rows' = rows
              \/ /\ ~daemon[d].cancelled
                 /\ daemon' = After("wake")
                 /\ \/ rows' = rows
                    \/ /\ ~baseline
                       /\ \E h \in {h \in Hints : rows[h] = NoRow}, source \in HintSources :
                             Add(d, h, source)
           /\ owed' = IF baseline THEN owed \ {<<d, k>>} ELSE owed
    /\ UNCHANGED <<path, conn, told>>

\* What the loop does when it starts, and every 2 s: baselines, which hint at nothing.
Discover(d) ==
    /\ Observing(d, "run") /\ ~daemon[d].cancelled
    /\ daemon' = [daemon EXCEPT ![d].observer = "wake"]
    /\ UNCHANGED <<path, conn, told, rows, owed>>

ObserverWakes(d) ==
    /\ Observing(d, "wake")
    /\ daemon' = [daemon EXCEPT ![d].wake = TRUE, ![d].observer = "run"]
    /\ UNCHANGED <<path, conn, told, rows, owed>>

ObserverEnds(d) ==
    /\ Observing(d, "run") /\ daemon[d].cancelled
    /\ daemon' = [daemon EXCEPT ![d].observer = "ended"]
    /\ UNCHANGED <<path, conn, told, rows, owed>>

------------------------------------------------------------------------------
ProcessStep(d) ==
    \/ Start(d) \/ Clear(d) \/ Bind(d) \/ Stop(d) \/ CloseListener(d) \/ AcceptFails(d)
    \/ Exit(d) \/ Kill(d)
ConnectionStep(c) ==
    \/ \E message \in HookMessages \cup VisitorMessages : Connect(c, message)
    \/ \E d \in Daemons : Accept(d, c)
    \/ Refuse(c) \/ TakeDirty(c) \/ Commit(c) \/ Reply(c) \/ Wake(c)
UploadStep(d) == Pass(d) \/ Answered(d) \/ Sleep(d) \/ WakeUp(d) \/ UploaderEnds(d)
EnrollStep(d) == Enrolled(d) \/ EnrolledWakes(d) \/ Unregistered(d) \/ EnrollerEnds(d)
ObserveStep(d) ==
    \/ TakeSignal(d) \/ Discover(d) \/ ObserverWakes(d) \/ ObserverEnds(d)
    \/ \E k \in Keys : Observe(d, k)

Next ==
    \/ \E d \in Daemons : ProcessStep(d) \/ UploadStep(d) \/ EnrollStep(d) \/ ObserveStep(d)
    \/ \E c \in Clients : ConnectionStep(c)
    \/ \E h \in Hooks : GiveUp(h)
    \/ \E i \in Hooks \cup Hints : Ripen(i)

Spec == Init /\ [][Next]_vars

\* Each goroutine of a process runs on.  A loop's select takes the branch of the
\* context in the end, whatever else is ready: Go chooses at random.
Fairness ==
    \A d \in Daemons :
        /\ WF_vars(Clear(d) \/ Bind(d) \/ CloseListener(d) \/ Exit(d)
                   \/ (AcceptFails(d) /\ ~daemon[d].listening))
        /\ WF_vars(UploadStep(d))
        /\ WF_vars(EnrolledWakes(d) \/ ObserverWakes(d))
        /\ SF_vars(UploaderEnds(d) \/ EnrollerEnds(d) \/ ObserverEnds(d))

FairSpec == Spec /\ Fairness

------------------------------------------------------------------------------
(* Properties. *)

\* A hook whose event the daemon accepted has it in the queue, or has had it
\* there, through kills and exits of the daemon with handlers at work
\* (daemon.go:170-174).
AcceptedIsQueued ==
    \A h \in Hooks : told[h] = "accepted" => rows[h].state # "none"

\* Every hint is filed as Herdr's, whatever text Herdr lists its agent with:
\* filed as Codex's it would live for seven days and never be withdrawn
\* (herdr_state.go:139-141, queue.go:127).
HintsAreFiledAsHerdr ==
    \A h \in Hints : rows[h].state # "none" => rows[h].source = "herdr"

\* The committer of row i has its wake-up still before it.
AboutToWake(d, i) ==
    IF i \in Hooks THEN conn[i].pc \in {"reply", "wake"} /\ conn[i].daemon = d
                   ELSE daemon[d].observer = "wake"

\* After a pass that found no row, each due row its daemon queued since will be
\* announced; after one that found no registration, there is none, or it will be.
Announced(d) ==
    /\ daemon[d].why = "empty" =>
          \A i \in Due : rows[i].by = d => AboutToWake(d, i)
    /\ daemon[d].why = "inactive" => ~daemon[d].active \/ daemon[d].enroller = "wake"

\* The uploader does not sleep through a wake-up: while it waits with nothing in
\* the channel, what it should know of since its last pass is still to be announced
\* (daemon.go:174-178, 203-208, enrollment.go:193-200).
NoLostWakeup ==
    \A d \in Daemons : Uploading(d, "wait") /\ ~daemon[d].wake => Announced(d)

\* A baseline that was accepted, and not refused for want of room, waits in the
\* channel or in the map, and no later signal of the binding takes its place
\* (herdr_state.go:245-248).
BaselinesAreKept ==
    \A o \in owed : \/ [key |-> o[2], baseline |-> TRUE] \in ToSet(daemon[o[1]].channel)
                     \/ IsBaseline(daemon[o[1]].dirty, o[2])

\* A daemon that listens keeps its address, unless another one starts or listens
\* too: one that is draining or exiting leaves it to its successor
\* (daemon.go:54, 69-72, ipc.go:84-97).
AddressIsKept ==
    [][\A d \in Daemons :
          path = d /\ daemon[d].listening /\ daemon'[d].listening =>
              \/ path' = d
              \/ \E e \in Daemons \ {d} : At(e, "clear") \/ daemon[e].listening]_vars

\* A daemon that is told to stop ends, even one that has failed to accept and
\* waits for its loops (daemon.go:67-90).
StopEnds == \A d \in Daemons : daemon[d].cancelled ~> At(d, "off")
==============================================================================
