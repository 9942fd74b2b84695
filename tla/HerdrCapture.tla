----------------------------- MODULE HerdrCapture -----------------------------
(***************************************************************************)
(* Capture of hints from a Herdr server: the daemon observes the panes of  *)
(* the server when a plugin hook signals a change, when it discovers the   *)
(* socket and when it starts; the commands "herdr install" and "herdr      *)
(* status" observe them too; "herdr uninstall" withdraws the consent to    *)
(* capture.  An observation reads a snapshot from the server and commits   *)
(* it later, in a transaction that compares it with the ledger of the      *)
(* panes observed before and queues hints for what has happened since.     *)
(*                                                                         *)
(* Simplified here: there is one socket, since the rows of two bindings    *)
(* have nothing in common; the channel and the map of signals that wait    *)
(* for the daemon are one place, which keeps the fact that there is one    *)
(* and whether one asked for a baseline; the caps of the queue are those   *)
(* of EventQueue; panes whose agent has no name, which never hint, are     *)
(* left out.                                                               *)
(***************************************************************************)
EXTENDS Integers, FiniteSets

CONSTANTS
    Panes, Statuses,
    Commands,         \* runs of the commands, one each
    Operations,       \* what they may be: "install", "status", "uninstall"
    MaxIncarnation,   \* bound: starts of the server
    MaxTerminal,      \* bound: terminals it opens
    MaxSequence       \* bound: changes of the status of one

ASSUME StatusAssumption == Statuses \subseteq {"working", "blocked", "idle", "done", "unknown"}
ASSUME CommandAssumption == "daemon" \notin Commands
ASSUME BoundAssumption == MaxIncarnation \in Nat /\ MaxTerminal \in Nat /\ MaxSequence \in Nat \ {0}

VARIABLES
    server,     \* the Herdr server: the external system that is observed
    terminals,  \* terminals it has opened so far
    adapter,    \* table herdr_adapter: the consent to capture
    binding,    \* table herdr_bindings, the row of the socket
    ledger,     \* table herdr_panes, the rows of the binding
    hints,      \* the Herdr rows of pending_events
    dirty,      \* signals the daemon has accepted and not acted on
    obs,        \* observers: the daemon's Herdr loop, and the commands
    observed    \* history: highest sequence committed, for every terminal

vars == <<server, terminals, adapter, binding, ledger, hints, dirty, obs, observed>>

Observers == {"daemon"} \cup Commands
NoPanes == [p \in {} |-> <<>>]
NoServer == [incarnation |-> 0, evidence |-> FALSE, panes |-> NoPanes]

Pane == [terminal: 1..MaxTerminal, sequence: 1..MaxSequence, status: Statuses,
         completion: 0..MaxSequence]   \* 0: no completion_seq
Server == [incarnation: 0..MaxIncarnation, evidence: BOOLEAN,
           panes: UNION {[ps -> Pane] : ps \in SUBSET Panes}]
LedgerRow == [terminal: 1..MaxTerminal, sequence: 1..MaxSequence, status: Statuses]
Hint == [incarnation: 1..MaxIncarnation, pane: Panes, terminal: 1..MaxTerminal,
         sequence: 1..MaxSequence, type: {"attention_required", "progress_updated"}]

Off == [pc |-> "off", op |-> "none", baseline |-> FALSE, capture |-> FALSE,
        needsBinding |-> FALSE, snapshot |-> NoServer]
Observer == [pc: {"off", "idle", "read", "check", "bind", "insert", "reconcile", "look", "done"},
             op: {"none", "install", "status"}, baseline: BOOLEAN, capture: BOOLEAN,
             needsBinding: BOOLEAN, snapshot: Server]

TypeOK ==
    /\ server \in Server /\ terminals \in 0..MaxTerminal
    /\ adapter \in BOOLEAN
    /\ binding \in [known: BOOLEAN, enabled: BOOLEAN, incarnation: 0..MaxIncarnation]
    /\ DOMAIN ledger \subseteq Panes /\ ledger \in [DOMAIN ledger -> LedgerRow]
    /\ hints \subseteq Hint
    /\ dirty \in {"none", "signal", "baseline"}
    /\ obs \in [Observers -> Observer]
    /\ observed \in [1..MaxTerminal -> 0..MaxSequence]

Init ==
    /\ server = NoServer /\ terminals = 0
    /\ adapter \in BOOLEAN
    /\ binding \in {[known |-> FALSE, enabled |-> FALSE, incarnation |-> 0],
                    [known |-> TRUE, enabled |-> adapter, incarnation |-> 0]}
    /\ ledger = NoPanes /\ hints = {} /\ dirty = "none"
    /\ obs = [o \in Observers |-> Off]
    /\ observed = [t \in 1..MaxTerminal |-> 0]

------------------------------------------------------------------------------
(* The Herdr server, and the hook its plugin runs in the agent. *)

OnlyServer == UNCHANGED <<adapter, binding, ledger, hints, dirty, obs, observed>>

ServerStart ==
    /\ server.incarnation < MaxIncarnation
    /\ \E evidence \in BOOLEAN :   \* since 0.9.2 it reports completions
          server' = [incarnation |-> server.incarnation + 1, evidence |-> evidence,
                     panes |-> NoPanes]
    /\ UNCHANGED terminals /\ OnlyServer

PaneOpen(p, status) ==
    /\ server.incarnation > 0 /\ terminals < MaxTerminal
    /\ terminals' = terminals + 1
    /\ server' = [server EXCEPT !.panes =
           [q \in DOMAIN server.panes \cup {p} |->
               IF q = p THEN [terminal |-> terminals', sequence |-> 1, status |-> status,
                              completion |-> 0]
               ELSE server.panes[q]]]
    /\ OnlyServer

PaneClose(p) ==
    /\ p \in DOMAIN server.panes
    /\ server' = [server EXCEPT !.panes = [q \in DOMAIN server.panes \ {p} |-> server.panes[q]]]
    /\ UNCHANGED terminals /\ OnlyServer

\* A status that leaves "working" for "idle" or "done" is a completion.
PaneChange(p, status) ==
    /\ p \in DOMAIN server.panes
    /\ LET pane == server.panes[p]
       IN  /\ status # pane.status /\ pane.sequence < MaxSequence
           /\ server' = [server EXCEPT !.panes[p] =
                  [pane EXCEPT !.status = status, !.sequence = @ + 1,
                   !.completion = IF pane.status = "working" /\ status \in {"idle", "done"}
                                     /\ server.evidence
                                  THEN pane.sequence + 1 ELSE @]]
    /\ UNCHANGED terminals /\ OnlyServer

\* A signal: of a change that may be long past, or again of the same; accepted
\* by the daemon, which is when it counts.  One too many is dropped.
Signal(baseline) ==
    /\ server.incarnation > 0 /\ obs["daemon"].pc # "off"
    /\ dirty' = IF baseline \/ dirty = "baseline" THEN "baseline" ELSE "signal"
    /\ UNCHANGED <<server, terminals, adapter, binding, ledger, hints, obs, observed>>

------------------------------------------------------------------------------
(* What starts an observation. *)

Become(o, state) == obs' = [obs EXCEPT ![o] = state]
Reading(baseline, needsBinding) ==
    [Off EXCEPT !.pc = "read", !.baseline = baseline, !.needsBinding = needsBinding]
Rest(o) == IF o = "daemon" THEN [Off EXCEPT !.pc = "idle"]
                           ELSE [Off EXCEPT !.pc = "done", !.op = obs[o].op]
OnlyObservers == UNCHANGED <<server, terminals, adapter, binding, ledger, hints, observed>>

\* herdrLoop begins with a baseline of every enabled binding.
DaemonStart ==
    /\ obs["daemon"].pc = "off"
    /\ Become("daemon", IF adapter /\ binding.enabled THEN Reading(TRUE, FALSE) ELSE Rest("daemon"))
    /\ UNCHANGED dirty /\ OnlyObservers

DaemonDie ==
    /\ obs["daemon"].pc # "off"
    /\ Become("daemon", Off)
    /\ dirty' = "none"
    /\ OnlyObservers

\* discoverHerdr looks at the sockets that are not bound yet.
Discover ==
    /\ obs["daemon"].pc = "idle"
    /\ adapter /\ (~binding.enabled \/ binding.incarnation = 0)
    /\ Become("daemon", Reading(TRUE, ~binding.enabled))
    /\ UNCHANGED dirty /\ OnlyObservers

\* The signal is taken whether an observation comes of it or not.
TakeSignal ==
    /\ obs["daemon"].pc = "idle" /\ dirty # "none"
    /\ dirty' = "none"
    /\ Become("daemon", IF adapter THEN Reading(dirty = "baseline", ~binding.enabled)
                                   ELSE Rest("daemon"))
    /\ OnlyObservers

\* "herdr install" gives the consent and goes on to a baseline.
Install(c) ==
    /\ "install" \in Operations /\ obs[c].pc = "off"
    /\ adapter' = TRUE
    /\ Become(c, [Reading(TRUE, TRUE) EXCEPT !.op = "install"])
    /\ UNCHANGED <<server, terminals, binding, ledger, hints, dirty, observed>>

\* "herdr status" looks at the consent before it reads the server.
Status(c) ==
    /\ "status" \in Operations /\ obs[c].pc = "off"
    /\ Become(c, [Reading(TRUE, TRUE) EXCEPT !.op = "status", !.capture = adapter])
    /\ UNCHANGED dirty /\ OnlyObservers

\* "herdr uninstall" withdraws it, with everything captured.
Uninstall(c) ==
    /\ "uninstall" \in Operations /\ obs[c].pc = "off"
    /\ adapter' = FALSE
    /\ binding' = [binding EXCEPT !.enabled = FALSE]
    /\ ledger' = NoPanes /\ hints' = {}
    /\ Become(c, Rest(c))
    /\ UNCHANGED <<server, terminals, dirty, observed>>

CommandDie(c) ==
    /\ obs[c].pc \notin {"off", "done"}
    /\ Become(c, Rest(c))
    /\ UNCHANGED dirty /\ OnlyObservers

------------------------------------------------------------------------------
(* An observation. *)

\* ReadHerdrAgents: the state of one incarnation of the server ...
Read(o) ==
    /\ obs[o].pc = "read" /\ server.incarnation > 0
    /\ Become(o, [obs[o] EXCEPT !.snapshot = server,
                                !.pc = IF @ = "read" /\ obs[o].op = "status" THEN "check"
                                       ELSE IF obs[o].needsBinding THEN "bind" ELSE "reconcile"])
    /\ UNCHANGED dirty /\ OnlyObservers

\* install ends by looking at the status, of the socket it was given ...
AfterInstall(o) ==
    IF obs[o].op = "install" THEN [Off EXCEPT !.pc = "look", !.op = "install"] ELSE Rest(o)

\* ... and that begins with the consent.
Look(o) ==
    /\ obs[o].pc = "look"
    /\ Become(o, [Reading(TRUE, TRUE) EXCEPT !.op = "status", !.capture = adapter])
    /\ UNCHANGED dirty /\ OnlyObservers

\* ... or none: the observation is given up, and nothing repeats it.
ReadFails(o) ==
    /\ obs[o].pc = "read"
    /\ Become(o, AfterInstall(o))
    /\ UNCHANGED dirty /\ OnlyObservers

\* status observes only for a binding that was not enabled when it looked.
Check(o) ==
    /\ obs[o].pc = "check"
    /\ Become(o, IF obs[o].capture /\ ~binding.enabled THEN [obs[o] EXCEPT !.pc = "bind"]
                                                       ELSE Rest(o))
    /\ UNCHANGED dirty /\ OnlyObservers

\* Mutant of Bind: the consent is not looked at again.
BindAnyway(o) ==
    /\ obs[o].pc = "bind"
    /\ \/ /\ binding.known
          /\ binding' = [binding EXCEPT !.enabled = TRUE]
          /\ Become(o, [obs[o] EXCEPT !.pc = "reconcile"])
       \/ /\ ~binding.known
          /\ UNCHANGED binding
          /\ Become(o, [obs[o] EXCEPT !.pc = "insert"])
    /\ UNCHANGED <<server, terminals, adapter, ledger, hints, dirty, observed>>

\* BindHerdr: the binding is enabled, if there is one (none is ever deleted) ...
Bind(o) ==
    /\ obs[o].pc = "bind"
    /\ \/ /\ binding.known /\ adapter
          /\ binding' = [binding EXCEPT !.enabled = TRUE]
          /\ Become(o, [obs[o] EXCEPT !.pc = "reconcile"])
       \/ /\ binding.known /\ ~adapter
          /\ UNCHANGED binding
          /\ Become(o, Rest(o))
       \/ /\ ~binding.known
          /\ UNCHANGED binding
          /\ Become(o, [obs[o] EXCEPT !.pc = "insert"])
    /\ UNCHANGED <<server, terminals, adapter, ledger, hints, dirty, observed>>

\* ... or made, enabled; one that has been made meanwhile stays as it is.
Insert(o) ==
    /\ obs[o].pc = "insert"
    /\ binding' = IF adapter /\ ~binding.known
                  THEN [binding EXCEPT !.known = TRUE, !.enabled = TRUE] ELSE binding
    /\ Become(o, IF binding'.known THEN [obs[o] EXCEPT !.pc = "reconcile"] ELSE Rest(o))
    /\ UNCHANGED <<server, terminals, adapter, ledger, hints, dirty, observed>>

\* A statement fails, or there are 128 bindings already: the observation is
\* given up.
GiveUp(o) ==
    /\ obs[o].pc \in {"bind", "insert", "reconcile"}
    /\ Become(o, Rest(o))
    /\ UNCHANGED dirty /\ OnlyObservers

\* The rows a snapshot is compared with: none of another incarnation.
Comparable(snapshot) == IF snapshot.incarnation = binding.incarnation THEN ledger ELSE NoPanes

\* Mutant of Initial: a pane observed again unchanged starts over.
InitialOrSame(rows, p, pane) ==
    \/ p \notin DOMAIN rows
    \/ rows[p].terminal # pane.terminal
    \/ pane.sequence <= rows[p].sequence

\* A pane nobody knows, another terminal, or one that starts over.
Initial(rows, p, pane) ==
    \/ p \notin DOMAIN rows
    \/ rows[p].terminal # pane.terminal
    \/ pane.sequence < rows[p].sequence

\* Mutant of Advanced: the same sequence counts.
AdvancedOrSame(row, pane) == pane.sequence >= row.sequence

\* Something has happened in the pane since.
Advanced(row, pane) == pane.sequence > row.sequence

Completed(row, pane, evidence) ==
    IF evidence THEN pane.completion = pane.sequence ELSE row.status = "working"

\* Mutant of Types: an event is queued whether it has a type or not.
TypesUnset(row, pane, evidence) ==
    IF Advanced(row, pane) /\ pane.status = "blocked" /\ row.status # "blocked"
    THEN {"attention_required"}
    ELSE IF Advanced(row, pane) /\ pane.status \in {"idle", "done"} /\ Completed(row, pane, evidence)
         THEN {"progress_updated"} ELSE {"none"}

\* The types of hint a pane gives, compared with its row.
Types(row, pane, evidence) ==
    {type \in {"attention_required", "progress_updated"} :
        /\ Advanced(row, pane)
        /\ IF type = "attention_required"
           THEN pane.status = "blocked" /\ row.status # "blocked"
           ELSE pane.status \in {"idle", "done"} /\ Completed(row, pane, evidence)}

NewHints(snapshot, baseline) ==
    LET rows  == Comparable(snapshot)
        panes == snapshot.panes
        known == {p \in DOMAIN panes : ~Initial(rows, p, panes[p])}
    IN  IF baseline \/ snapshot.incarnation # binding.incarnation THEN {}
        ELSE UNION {{[incarnation |-> snapshot.incarnation, pane |-> p,
                      terminal |-> panes[p].terminal, sequence |-> panes[p].sequence,
                      type |-> type] : type \in Types(rows[p], panes[p], snapshot.evidence)} :
                    p \in known}

\* Mutant of Withdrawn: hints of a pane that has gone stay.
WithdrawnOnReuse(snapshot) ==
    LET rows == Comparable(snapshot)
    IN  {h \in hints :
            \/ snapshot.incarnation # binding.incarnation /\ binding.incarnation # 0
            \/ /\ h.pane \in DOMAIN rows /\ h.pane \in DOMAIN snapshot.panes
               /\ Initial(rows, h.pane, snapshot.panes[h.pane])}

\* Queued hints an observation discards: all, of a server that was replaced; of
\* a pane that has gone, or has another terminal, or starts over.
Withdrawn(snapshot) ==
    LET rows == Comparable(snapshot)
    IN  {h \in hints :
            \/ snapshot.incarnation # binding.incarnation /\ binding.incarnation # 0
            \/ /\ h.pane \in DOMAIN rows
               /\ \/ h.pane \notin DOMAIN snapshot.panes
                  \/ Initial(rows, h.pane, snapshot.panes[h.pane])}

Rows(snapshot) ==
    [p \in DOMAIN snapshot.panes |->
        [terminal |-> snapshot.panes[p].terminal, sequence |-> snapshot.panes[p].sequence,
         status |-> snapshot.panes[p].status]]

Highest(snapshot, t) ==
    LET ps == {p \in DOMAIN snapshot.panes : snapshot.panes[p].terminal = t}
    IN  IF \E p \in ps : snapshot.panes[p].sequence > observed[t]
        THEN snapshot.panes[CHOOSE p \in ps : TRUE].sequence
        ELSE observed[t]

\* ReconcileHerdr, one transaction.
Reconcile(o) ==
    /\ obs[o].pc = "reconcile"
    /\ LET snapshot == obs[o].snapshot
       IN  IF adapter /\ binding.enabled
           THEN /\ hints' = (hints \ Withdrawn(snapshot))
                               \cup NewHints(snapshot, obs[o].baseline)
                /\ ledger' = Rows(snapshot)
                /\ binding' = [binding EXCEPT !.incarnation = snapshot.incarnation]
                /\ observed' = [t \in 1..MaxTerminal |-> Highest(snapshot, t)]
           ELSE UNCHANGED <<hints, ledger, binding, observed>>
    /\ Become(o, AfterInstall(o))
    /\ UNCHANGED <<server, terminals, adapter, dirty>>

\* The upload worker completes a hint.
Deliver(h) ==
    /\ h \in hints
    /\ hints' = hints \ {h}
    /\ UNCHANGED <<server, terminals, adapter, binding, ledger, dirty, obs, observed>>

------------------------------------------------------------------------------
ServerStep ==
    \/ ServerStart
    \/ \E p \in Panes, status \in Statuses : PaneOpen(p, status) \/ PaneChange(p, status)
    \/ \E p \in Panes : PaneClose(p)
    \/ \E baseline \in BOOLEAN : Signal(baseline)

ObserverStep ==
    \E o \in Observers :
        \/ Read(o) \/ ReadFails(o) \/ Check(o) \/ Bind(o) \/ Insert(o) \/ Reconcile(o)
        \/ GiveUp(o) \/ Look(o)

CommandStep == \E c \in Commands : Install(c) \/ Status(c) \/ Uninstall(c) \/ CommandDie(c)

Next ==
    \/ ServerStep \/ ObserverStep \/ CommandStep
    \/ DaemonStart \/ DaemonDie \/ Discover \/ TakeSignal
    \/ \E h \in hints : Deliver(h)

Spec == Init /\ [][Next]_vars

------------------------------------------------------------------------------
(* Properties. *)

\* Once the consent is withdrawn nothing is captured, or left of what was: no
\* observation that was under way, of whatever process, brings it back
\* (herdr_state.go:24, 39-41 and 81-86, herdr_capture.go:33-43).
NothingWithoutConsent ==
    ~adapter => ~binding.enabled /\ ledger = NoPanes /\ hints = {}

\* A queued hint is of the server and the terminal the ledger knows: a pane
\* number that is used again inherits no hint (herdr_state.go:92-96, 128-132
\* and 155-188).
HintsMatchTheLedger ==
    \A h \in hints :
        /\ h.incarnation = binding.incarnation
        /\ h.pane \in DOMAIN ledger
        /\ ledger[h.pane].terminal = h.terminal
        /\ h.sequence <= ledger[h.pane].sequence

\* A hint is news: what it tells had not been observed before, so no episode is
\* told twice and nothing that a baseline took in is told later.
AreNews == \A h \in hints' \ hints : h.sequence > observed[h.terminal]
HintsAreNews == [][AreNews]_vars

\* So it is as long as no command has observed: the daemon's observations follow
\* each other, whatever signals, restarts and withdrawals of the consent come
\* between them (herdr_state.go:100-127, herdr_capture.go:33-43).
DaemonAlone == \A c \in Commands : obs[c].op = "none"
DaemonTellsNews == [][DaemonAlone' => AreNews]_vars

\* An observation of the daemon discards no hint whose terminal the server still
\* runs, as long as no command commits an older snapshot.
HintsStayWhileCurrent ==
    [][obs' # obs /\ adapter' /\ DaemonAlone' =>
          \A h \in hints \ hints' :
              \/ server.incarnation # h.incarnation
              \/ h.pane \notin DOMAIN server.panes
              \/ server.panes[h.pane].terminal # h.terminal]_vars
==============================================================================
