-------------------------- MODULE HerdrCaptureProofs --------------------------
(***************************************************************************)
(* What holds of HerdrCapture for any panes, statuses and commands, and    *)
(* any number of starts of the server: its types, that hints match the     *)
(* ledger, that nothing is captured without consent and that the daemon    *)
(* tells news only and discards no hint that is current.                   *)
(***************************************************************************)
EXTENDS HerdrCapture, TLAPS

\* An observer that has read a snapshot.
Observing(o) == obs[o].pc \in {"check", "bind", "insert", "reconcile"}

\* A terminal is in one pane, and has been opened.
Distinct(s) == \A p, q \in DOMAIN s.panes : s.panes[p].terminal = s.panes[q].terminal => p = q
Opened(s) == \A p \in DOMAIN s.panes : s.panes[p].terminal <= terminals

\* The server goes on from what was read.
Before(s) ==
    /\ s.incarnation \in 1..server.incarnation
    /\ \A p \in DOMAIN s.panes, q \in DOMAIN server.panes :
          s.panes[p].terminal = server.panes[q].terminal =>
              s.panes[p].sequence <= server.panes[q].sequence

SnapshotInv ==
    \A o \in Observers : Observing(o) =>
        Distinct(obs[o].snapshot) /\ Opened(obs[o].snapshot) /\ Before(obs[o].snapshot)

\* What was observed was there: a terminal to come has not been observed.
ServerInv ==
    /\ Distinct(server) /\ Opened(server)
    /\ \A p \in DOMAIN server.panes :
          observed[server.panes[p].terminal] <= server.panes[p].sequence
    /\ \A t \in 1..MaxTerminal : t > terminals => observed[t] = 0
    /\ binding.incarnation <= server.incarnation
    /\ \A p \in DOMAIN ledger : /\ ledger[p].terminal <= terminals
                                /\ ledger[p].sequence <= observed[ledger[p].terminal]

\* A command that has not observed is not about to.
OpInv == \A c \in Commands : obs[c].op = "none" => obs[c].pc \in {"off", "done"}

\* A terminal of the ledger that the server still runs in its pane is in the snapshot.
Holds(s) ==
    \A p \in DOMAIN ledger :
        /\ server.incarnation = binding.incarnation
        /\ p \in DOMAIN server.panes /\ server.panes[p].terminal = ledger[p].terminal
        => p \in DOMAIN s.panes /\ s.panes[p].terminal = ledger[p].terminal

\* No observation overtakes another: a snapshot is as new as all that is known.
Newest(s) ==
    /\ binding.incarnation <= s.incarnation
    /\ \A p \in DOMAIN s.panes : observed[s.panes[p].terminal] <= s.panes[p].sequence
    /\ Holds(s)

AloneInv ==
    DaemonAlone =>
        /\ \A p \in DOMAIN ledger : ledger[p].sequence = observed[ledger[p].terminal]
        /\ Observing("daemon") => Newest(obs["daemon"].snapshot)

IInv ==
    /\ TypeOK /\ SnapshotInv /\ ServerInv /\ OpInv /\ AloneInv
    /\ HintsMatchTheLedger /\ NothingWithoutConsent

------------------------------------------------------------------------------
(* Types. *)

LEMMA ServerTypes ==
  ASSUME NEW s \in Server
  PROVE  /\ s.incarnation \in 0..MaxIncarnation /\ s.incarnation \in Int /\ s.evidence \in BOOLEAN
         /\ DOMAIN s.panes \subseteq Panes /\ s.panes \in [DOMAIN s.panes -> Pane]
<1>1. PICK ps \in SUBSET Panes : s.panes \in [ps -> Pane]
  BY DEF Server
<1>2. s.incarnation \in 0..MaxIncarnation /\ s.evidence \in BOOLEAN
  BY DEF Server
<1>3. s.incarnation \in Int
  BY <1>2, BoundAssumption
<1> QED
  BY <1>1, <1>2, <1>3

LEMMA PaneTypes ==
  ASSUME NEW pane \in Pane
  PROVE  /\ pane.terminal \in 1..MaxTerminal /\ pane.terminal \in Int
         /\ pane.sequence \in 1..MaxSequence /\ pane.sequence \in Int
         /\ pane.status \in Statuses /\ pane.completion \in 0..MaxSequence
BY BoundAssumption DEF Pane

LEMMA RowTypes ==
  ASSUME NEW row \in LedgerRow
  PROVE  /\ row.terminal \in 1..MaxTerminal /\ row.terminal \in Int
         /\ row.sequence \in 1..MaxSequence /\ row.sequence \in Int
BY BoundAssumption DEF LedgerRow

LEMMA ServerMade ==
  ASSUME NEW incarnation \in 0..MaxIncarnation, NEW evidence \in BOOLEAN,
         NEW ps \in SUBSET Panes, NEW panes \in [ps -> Pane]
  PROVE  [incarnation |-> incarnation, evidence |-> evidence, panes |-> panes] \in Server
<1>1. panes \in UNION {[qs -> Pane] : qs \in SUBSET Panes}
  OBVIOUS
<1> QED
  BY <1>1 DEF Server

LEMMA NoPanesTypes ==
  /\ DOMAIN NoPanes = {} /\ {} \in SUBSET Panes
  /\ NoPanes \in [{} -> Pane] /\ NoPanes \in [{} -> LedgerRow]
BY DEF NoPanes

LEMMA PanesChanged ==
  ASSUME server \in Server, NEW ps \in SUBSET Panes, NEW panes \in [ps -> Pane],
         server' = [server EXCEPT !.panes = panes]
  PROVE  /\ server' \in Server /\ server'.panes = panes /\ DOMAIN server'.panes = ps
         /\ server'.incarnation = server.incarnation
<1>1. server.incarnation \in 0..MaxIncarnation /\ server.evidence \in BOOLEAN
  BY ServerTypes
<1>2. server' = [incarnation |-> server.incarnation, evidence |-> server.evidence, panes |-> panes]
  BY DEF Server
<1>3. [incarnation |-> server.incarnation, evidence |-> server.evidence, panes |-> panes] \in Server
  BY <1>1, ServerMade
<1> QED
  BY <1>2, <1>3

LEMMA NoServerTypes ==
  NoServer \in Server /\ DOMAIN NoServer.panes = {} /\ NoServer.incarnation = 0
<1>1. 0 \in 0..MaxIncarnation
  BY BoundAssumption
<1>2. NoServer \in Server
  BY <1>1, NoPanesTypes, ServerMade, Zenon DEF NoServer
<1> QED
  BY <1>2, NoPanesTypes DEF NoServer

------------------------------------------------------------------------------
(* Steps of the server. *)

\* What a step of the server may do: a pane it then has was there in the same
\* incarnation, with the same terminal, or has a new one.
ServerGoes ==
    /\ server' \in Server /\ server.incarnation <= server'.incarnation
    /\ terminals' \in terminals..MaxTerminal
    /\ Distinct(server')
    /\ \A p \in DOMAIN server'.panes : server'.panes[p].terminal <= terminals'
    /\ \A p \in DOMAIN server'.panes :
          \/ server'.panes[p].terminal > terminals
          \/ /\ server'.incarnation = server.incarnation /\ p \in DOMAIN server.panes
             /\ server.panes[p].terminal = server'.panes[p].terminal
             /\ server.panes[p].sequence <= server'.panes[p].sequence
    /\ OnlyServer

LEMMA ServerStarts ==
  ASSUME TypeOK, ServerStart
  PROVE  ServerGoes
<1>1. server.incarnation \in 0..MaxIncarnation /\ terminals \in 0..MaxTerminal
  BY ServerTypes DEF TypeOK
<1>2. PICK evidence \in BOOLEAN :
        server' = [incarnation |-> server.incarnation + 1, evidence |-> evidence, panes |-> NoPanes]
  BY DEF ServerStart
<1>3. server.incarnation + 1 \in 0..MaxIncarnation
  BY <1>1, BoundAssumption DEF ServerStart
<1>4. server' \in Server /\ DOMAIN server'.panes = {}
  BY <1>2, <1>3, NoPanesTypes, ServerMade
<1>5. server.incarnation <= server'.incarnation /\ terminals' \in terminals..MaxTerminal
  BY <1>1, <1>2, BoundAssumption DEF ServerStart
<1> QED
  BY <1>4, <1>5 DEF ServerGoes, Distinct, ServerStart

LEMMA PaneOpens ==
  ASSUME TypeOK, ServerInv, NEW p \in Panes, NEW status \in Statuses, PaneOpen(p, status)
  PROVE  ServerGoes
<1> DEFINE pane == [terminal |-> terminals', sequence |-> 1, status |-> status, completion |-> 0]
           D == DOMAIN server.panes
           panes == [q \in D \cup {p} |-> IF q = p THEN pane ELSE server.panes[q]]
<1>1. /\ server \in Server /\ terminals \in 0..MaxTerminal /\ terminals < MaxTerminal
      /\ terminals' = terminals + 1 /\ server' = [server EXCEPT !.panes = panes] /\ OnlyServer
  BY DEF TypeOK, PaneOpen
<1>2. /\ D \subseteq Panes /\ server.panes \in [D -> Pane] /\ server.incarnation \in Int
      /\ \A q \in D : server.panes[q].terminal \in Int /\ server.panes[q].sequence \in Int
      /\ \A q \in D : server.panes[q].terminal <= terminals
      /\ Distinct(server)
  BY <1>1, ServerTypes, PaneTypes DEF ServerInv, Opened
<1>3. pane \in Pane /\ pane.terminal = terminals + 1
  BY <1>1, BoundAssumption DEF Pane
<1> HIDE DEF pane
<1>4. panes \in [D \cup {p} -> Pane] /\ D \cup {p} \in SUBSET Panes
  BY <1>2, <1>3
<1>5. /\ panes[p] = pane
      /\ \A q \in D \ {p} : panes[q] = server.panes[q]
  OBVIOUS
<1> HIDE DEF panes
<1>6. /\ server' \in Server /\ server'.panes = panes /\ DOMAIN server'.panes = D \cup {p}
      /\ server'.incarnation = server.incarnation
  BY <1>1, <1>4, PanesChanged
<1>7. terminals' \in terminals..MaxTerminal /\ terminals' > terminals
  BY <1>1, BoundAssumption
<1>8. \A q \in D \cup {p} :
         \/ panes[q].terminal = terminals + 1 /\ q = p
         \/ q \in D /\ q # p /\ panes[q] = server.panes[q]
  BY <1>3, <1>5
<1> HIDE DEF D
<1>9. Distinct(server')
  BY <1>1, <1>2, <1>6, <1>8 DEF Distinct, D
<1>10. \A q \in D \cup {p} : panes[q].terminal <= terminals'
  BY <1>1, <1>2, <1>8
<1>11. \A q \in D \cup {p} :
         \/ panes[q].terminal > terminals
         \/ /\ q \in D /\ server.panes[q].terminal = panes[q].terminal
            /\ server.panes[q].sequence <= panes[q].sequence
  BY <1>1, <1>2, <1>8
<1> QED
  BY <1>1, <1>2, <1>6, <1>7, <1>9, <1>10, <1>11 DEF ServerGoes, D

\* Closing a pane, and changing one, leave what the others are.
LEMMA PanesGo ==
  ASSUME TypeOK, ServerInv, NEW ps \in SUBSET DOMAIN server.panes, NEW panes \in [ps -> Pane],
         server' = [server EXCEPT !.panes = panes], UNCHANGED terminals, OnlyServer,
         \A q \in ps : /\ panes[q].terminal = server.panes[q].terminal
                       /\ server.panes[q].sequence <= panes[q].sequence
  PROVE  ServerGoes
<1>1. /\ server \in Server /\ terminals \in 0..MaxTerminal
      /\ DOMAIN server.panes \subseteq Panes /\ server.panes \in [DOMAIN server.panes -> Pane]
      /\ server.incarnation \in Int
  BY ServerTypes DEF TypeOK
<1>2. /\ \A q \in DOMAIN server.panes : server.panes[q].terminal <= terminals
      /\ Distinct(server)
  BY DEF ServerInv, Opened
<1>3. /\ server' \in Server /\ server'.panes = panes /\ DOMAIN server'.panes = ps
      /\ server'.incarnation = server.incarnation
  BY <1>1, PanesChanged
<1>4. Distinct(server')
  BY <1>2, <1>3 DEF Distinct
<1>5. \A q \in ps : panes[q].terminal <= terminals
  BY <1>2
<1>6. terminals' \in terminals..MaxTerminal
  BY <1>1, BoundAssumption
<1> QED
  BY <1>1, <1>3, <1>4, <1>5, <1>6 DEF ServerGoes

LEMMA PaneCloses ==
  ASSUME TypeOK, ServerInv, NEW p \in Panes, PaneClose(p)
  PROVE  ServerGoes
<1> DEFINE ps == DOMAIN server.panes \ {p}
           panes == [q \in ps |-> server.panes[q]]
<1>1. server' = [server EXCEPT !.panes = panes] /\ UNCHANGED terminals /\ OnlyServer
  BY DEF PaneClose
<1>2. server.panes \in [DOMAIN server.panes -> Pane]
  BY ServerTypes DEF TypeOK
<1>3. panes \in [ps -> Pane] /\ \A q \in ps : panes[q] = server.panes[q] /\ server.panes[q] \in Pane
  BY <1>2
<1> HIDE DEF panes
<1>4. \A q \in ps : /\ panes[q].terminal = server.panes[q].terminal
                    /\ server.panes[q].sequence <= panes[q].sequence
  BY <1>3, PaneTypes
<1> QED
  BY <1>1, <1>3, <1>4, PanesGo

LEMMA PaneChanges ==
  ASSUME TypeOK, ServerInv, NEW p \in Panes, NEW status \in Statuses, PaneChange(p, status)
  PROVE  ServerGoes
<1> DEFINE D == DOMAIN server.panes
           old == server.panes[p]
           pane == [old EXCEPT !.status = status, !.sequence = @ + 1,
                       !.completion = IF old.status = "working" /\ status \in {"idle", "done"}
                                         /\ server.evidence
                                      THEN old.sequence + 1 ELSE @]
           panes == [server.panes EXCEPT ![p] = pane]
<1>1. /\ p \in D /\ old.sequence < MaxSequence /\ server' = [server EXCEPT !.panes = panes]
      /\ UNCHANGED terminals /\ OnlyServer
  BY DEF PaneChange
<1>2. server.panes \in [D -> Pane] /\ old \in Pane
  BY <1>1, ServerTypes DEF TypeOK
<1> HIDE DEF D, old
<1>3. /\ old.sequence + 1 \in 1..MaxSequence /\ old.sequence + 1 \in 0..MaxSequence
      /\ old.completion \in 0..MaxSequence /\ old.sequence \in Int
  BY <1>1, <1>2, PaneTypes, BoundAssumption
<1>4. PICK completion \in 0..MaxSequence :
         pane = [old EXCEPT !.status = status, !.sequence = old.sequence + 1, !.completion = completion]
  BY <1>2, <1>3 DEF Pane
<1> HIDE DEF pane
<1>5. pane \in Pane /\ pane.terminal = old.terminal /\ pane.sequence = old.sequence + 1
  BY <1>2, <1>3, <1>4 DEF Pane
<1>6. panes \in [D -> Pane] /\ \A q \in D : panes[q] = IF q = p THEN pane ELSE server.panes[q]
  BY <1>1, <1>2, <1>5
<1> HIDE DEF panes
<1>7. \A q \in D : /\ panes[q].terminal = server.panes[q].terminal
                   /\ server.panes[q].sequence <= panes[q].sequence
  <2>1. ASSUME NEW q \in D
        PROVE  /\ panes[q].terminal = server.panes[q].terminal
               /\ server.panes[q].sequence <= panes[q].sequence
    <3>1. CASE q = p
      BY <1>3, <1>5, <1>6, <3>1 DEF old
    <3>2. CASE q # p
      BY <1>2, <1>6, <3>2, PaneTypes
    <3> QED
      BY <3>1, <3>2
  <2> QED
    BY <2>1
<1> QED
  BY <1>1, <1>6, <1>7, PanesGo DEF D

\* What is observed, and what is known, stays true of the server as it goes on.
LEMMA ServerGone ==
  ASSUME IInv, ServerGoes
  PROVE  IInv'
<1>0. TypeOK /\ SnapshotInv /\ ServerInv /\ OpInv /\ AloneInv
  BY DEF IInv
<1>1. /\ UNCHANGED <<adapter, binding, ledger, hints, dirty, obs, observed>>
      /\ server' \in Server /\ server.incarnation <= server'.incarnation
      /\ server.incarnation \in Int /\ server'.incarnation \in Int
      /\ terminals <= terminals' /\ terminals \in Int /\ terminals' \in Int
      /\ terminals' \in 0..MaxTerminal
  BY <1>0, ServerTypes, BoundAssumption DEF ServerGoes, OnlyServer, TypeOK
<1>2. TypeOK'
  BY <1>0, <1>1 DEF TypeOK
<1>3. /\ \A p \in DOMAIN server.panes : server.panes[p] \in Pane
      /\ \A p \in DOMAIN server'.panes : server'.panes[p] \in Pane
  BY <1>0, <1>1, ServerTypes DEF TypeOK
<1>4. \A p \in DOMAIN server'.panes :
          \/ server'.panes[p].terminal > terminals
          \/ /\ server'.incarnation = server.incarnation /\ p \in DOMAIN server.panes
             /\ server.panes[p].terminal = server'.panes[p].terminal
             /\ server.panes[p].sequence <= server'.panes[p].sequence
  BY DEF ServerGoes
<1>5. SnapshotInv'
  <2> SUFFICES ASSUME NEW o \in Observers, Observing(o)'
               PROVE  (Distinct(obs[o].snapshot) /\ Opened(obs[o].snapshot) /\ Before(obs[o].snapshot))'
    BY DEF SnapshotInv
  <2> DEFINE s == obs[o].snapshot
  <2>1. Distinct(s) /\ Opened(s) /\ Before(s) /\ obs' = obs
    BY <1>0, <1>1 DEF SnapshotInv, Observing
  <2>2. s \in Server
    BY <1>0 DEF TypeOK, Observer
  <2> HIDE DEF s
  <2>3. \A p \in DOMAIN s.panes : s.panes[p] \in Pane
    BY <2>2, ServerTypes
  <2>4. s.incarnation \in 1..server'.incarnation
    BY <1>1, <2>1 DEF Before
  <2>5. \A p \in DOMAIN s.panes : s.panes[p].terminal <= terminals /\ s.panes[p].terminal <= terminals'
    BY <1>1, <2>1, <2>3, PaneTypes DEF Opened
  <2>6. ASSUME NEW p \in DOMAIN s.panes, NEW q \in DOMAIN server'.panes,
               s.panes[p].terminal = server'.panes[q].terminal
        PROVE  s.panes[p].sequence <= server'.panes[q].sequence
    <3>1. /\ q \in DOMAIN server.panes /\ server.panes[q].terminal = server'.panes[q].terminal
          /\ server.panes[q].sequence <= server'.panes[q].sequence
      BY <1>1, <1>3, <1>4, <2>3, <2>5, <2>6, PaneTypes
    <3>2. s.panes[p].sequence <= server.panes[q].sequence
      BY <2>1, <2>6, <3>1 DEF Before
    <3> QED
      BY <1>3, <2>3, <3>1, <3>2, PaneTypes
  <2>7. obs'[o].snapshot = s
    BY <2>1 DEF s
  <2> QED
    BY <2>1, <2>4, <2>5, <2>6, <2>7 DEF Distinct, Opened, Before
<1>6. ServerInv'
  <2>1. Distinct(server') /\ \A p \in DOMAIN server'.panes : server'.panes[p].terminal <= terminals'
    BY DEF ServerGoes
  <2>2. ASSUME NEW p \in DOMAIN server'.panes
        PROVE  observed[server'.panes[p].terminal] <= server'.panes[p].sequence
    <3> DEFINE t == server'.panes[p].terminal
    <3>1. t \in 1..MaxTerminal /\ t \in Int /\ server'.panes[p].sequence \in Int
          /\ server'.panes[p].sequence > 0
      BY <1>3, PaneTypes
    <3>2. observed[t] \in Int
      BY <1>0, <3>1, BoundAssumption DEF TypeOK
    <3>3. CASE t > terminals
      <4>1. observed[t] = 0
        BY <1>0, <3>1, <3>3 DEF ServerInv
      <4> QED
        BY <3>1, <4>1
    <3>4. CASE ~(t > terminals)
      <4>1. /\ p \in DOMAIN server.panes /\ server.panes[p].terminal = t
            /\ server.panes[p].sequence <= server'.panes[p].sequence
        BY <1>4, <3>4
      <4>2. observed[t] <= server.panes[p].sequence
        BY <1>0, <4>1 DEF ServerInv
      <4>3. server.panes[p].sequence \in Int
        BY <1>3, <4>1, PaneTypes
      <4> QED
        BY <3>1, <3>2, <4>1, <4>2, <4>3
    <3> QED
      BY <3>3, <3>4
  <2>3. \A t \in 1..MaxTerminal : t > terminals' => observed[t] = 0
    BY <1>0, <1>1, BoundAssumption DEF ServerInv
  <2>4. binding.incarnation \in Int /\ binding.incarnation <= server'.incarnation
    BY <1>0, <1>1, BoundAssumption DEF ServerInv, TypeOK
  <2>5. \A p \in DOMAIN ledger : /\ ledger[p].terminal <= terminals'
                                 /\ ledger[p].sequence <= observed[ledger[p].terminal]
    <3>1. \A p \in DOMAIN ledger : ledger[p].terminal \in Int /\ ledger[p].terminal <= terminals
      BY <1>0, RowTypes DEF ServerInv, TypeOK
    <3> QED
      BY <1>0, <1>1, <3>1 DEF ServerInv
  <2> QED
    BY <1>1, <2>1, <2>2, <2>3, <2>4, <2>5 DEF ServerInv, Opened
<1>7. AloneInv'
  <2>1. ASSUME NEW s, Newest(s) PROVE Newest(s)'
    <3>1. Holds(s)'
      <4> SUFFICES ASSUME NEW p \in DOMAIN ledger, server'.incarnation = binding.incarnation,
                          p \in DOMAIN server'.panes,
                          server'.panes[p].terminal = ledger[p].terminal
                   PROVE  p \in DOMAIN s.panes /\ s.panes[p].terminal = ledger[p].terminal
        BY <1>1 DEF Holds
      <4>1. ledger[p].terminal <= terminals /\ ledger[p].terminal \in Int
        BY <1>0, RowTypes DEF ServerInv, TypeOK
      <4>2. /\ server.incarnation = binding.incarnation /\ p \in DOMAIN server.panes
            /\ server.panes[p].terminal = ledger[p].terminal
        BY <1>1, <1>4, <4>1
      <4> QED
        BY <2>1, <4>2 DEF Newest, Holds
    <3> QED
      BY <1>1, <2>1, <3>1 DEF Newest
  <2>2. DaemonAlone' = DaemonAlone /\ Observing("daemon")' = Observing("daemon")
    BY <1>1 DEF DaemonAlone, Observing
  <2>3. DaemonAlone /\ Observing("daemon") => Newest(obs["daemon"].snapshot)'
    BY <1>0, <1>1, <2>1 DEF AloneInv
  <2> QED
    BY <1>0, <1>1, <2>2, <2>3 DEF AloneInv
<1>8. OpInv' /\ HintsMatchTheLedger' /\ NothingWithoutConsent'
  BY <1>1 DEF IInv, OpInv, HintsMatchTheLedger, NothingWithoutConsent
<1> QED
  BY <1>2, <1>5, <1>6, <1>7, <1>8 DEF IInv

------------------------------------------------------------------------------
(* Steps of an observer that commit nothing. *)

LEMMA OffTypes == Off \in Observer /\ Off.pc = "off" /\ Off.op = "none"
BY NoServerTypes DEF Off, Observer

LEMMA ReadingType ==
  ASSUME NEW baseline \in BOOLEAN, NEW needsBinding \in BOOLEAN
  PROVE  Reading(baseline, needsBinding) \in Observer /\ Reading(baseline, needsBinding).pc = "read"
<1>1. Off \in Observer
  BY OffTypes
<1> QED
  BY <1>1 DEF Reading, Observer

\* What install and status begin with.
LEMMA InstallTypes ==
  /\ [Reading(TRUE, TRUE) EXCEPT !.op = "install"] \in Observer
  /\ [Reading(TRUE, TRUE) EXCEPT !.op = "install"].pc = "read"
  /\ [Reading(TRUE, TRUE) EXCEPT !.op = "install"].op = "install"
<1>1. Reading(TRUE, TRUE) \in Observer /\ Reading(TRUE, TRUE).pc = "read"
  BY ReadingType
<1> QED
  BY <1>1 DEF Observer

StatusState(capture) == [Reading(TRUE, TRUE) EXCEPT !.op = "status", !.capture = capture]

LEMMA StatusTypes ==
  ASSUME NEW capture \in BOOLEAN
  PROVE  /\ StatusState(capture) \in Observer /\ StatusState(capture).pc = "read"
         /\ StatusState(capture).op = "status"
<1>1. Reading(TRUE, TRUE) \in Observer /\ Reading(TRUE, TRUE).pc = "read"
  BY ReadingType
<1> QED
  BY <1>1 DEF StatusState, Observer

LEMMA RestTypes ==
  ASSUME TypeOK, NEW o \in Observers
  PROVE  /\ Rest(o) \in Observer /\ Rest(o).pc \in {"idle", "done"}
         /\ o \in Commands => Rest(o).op = obs[o].op /\ Rest(o).pc = "done"
<1>1. obs[o].op \in {"none", "install", "status"} /\ Off \in Observer
  BY OffTypes DEF TypeOK, Observer
<1> QED
  BY <1>1, CommandAssumption DEF Rest, Observer

LEMMA AfterInstallTypes ==
  ASSUME TypeOK, NEW o \in Observers
  PROVE  /\ AfterInstall(o) \in Observer /\ AfterInstall(o).pc \in {"look", "idle", "done"}
         /\ o \in Commands /\ obs[o].op # "none" => AfterInstall(o).op # "none"
<1>1. CASE obs[o].op = "install"
  <2>1. AfterInstall(o) = [Off EXCEPT !.pc = "look", !.op = "install"]
    BY <1>1 DEF AfterInstall
  <2> QED
    BY <2>1, OffTypes DEF Observer
<1>2. CASE obs[o].op # "install"
  BY <1>2, RestTypes DEF AfterInstall
<1> QED
  BY <1>1, <1>2

\* A command that goes on has a name for what it does.
LEMMA NamedWhenGoing ==
  ASSUME OpInv, NEW o \in Observers, obs[o].pc \notin {"off", "done"}
  PROVE  o \in Commands => obs[o].op # "none"
BY DEF OpInv

Binding == [known: BOOLEAN, enabled: BOOLEAN, incarnation: 0..MaxIncarnation]

\* A step after which o has the state: it knows nothing new, or it has just read.
Lightly(o, state) ==
    /\ Become(o, state) /\ state \in Observer
    /\ \/ state.pc \notin {"check", "bind", "insert", "reconcile"}
       \/ Observing(o) /\ state.snapshot = obs[o].snapshot
       \/ server.incarnation > 0 /\ state.snapshot = server
    /\ o \in Commands => state.op # "none"
    /\ UNCHANGED <<server, terminals, ledger, hints, observed>>
    /\ adapter' \in BOOLEAN /\ dirty' \in {"none", "signal", "baseline"}
    /\ binding' \in Binding /\ binding'.incarnation = binding.incarnation
    /\ adapter' \/ UNCHANGED <<adapter, binding>>

LEMMA Light ==
  ASSUME IInv, NEW o \in Observers, NEW state, Lightly(o, state)
  PROVE  IInv'
<1>0. TypeOK /\ SnapshotInv /\ ServerInv /\ OpInv /\ AloneInv /\ HintsMatchTheLedger
      /\ NothingWithoutConsent
  BY DEF IInv
<1>1. /\ obs' \in [Observers -> Observer] /\ obs'[o] = state
      /\ \A q \in Observers \ {o} : obs'[q] = obs[q]
      /\ UNCHANGED <<server, terminals, ledger, hints, observed>>
      /\ adapter' \in BOOLEAN /\ dirty' \in {"none", "signal", "baseline"}
      /\ binding' \in Binding /\ binding'.incarnation = binding.incarnation
  BY <1>0 DEF Lightly, Become, TypeOK
<1>2. TypeOK'
  BY <1>0, <1>1 DEF TypeOK, Binding
<1>3. server.incarnation > 0 =>
         Distinct(server) /\ Opened(server) /\ Before(server) /\ Newest(server)
  <2>1. /\ server.incarnation \in Int
        /\ \A p \in DOMAIN server.panes : server.panes[p].sequence \in Int
    BY <1>0, ServerTypes, PaneTypes DEF TypeOK
  <2>2. Distinct(server) /\ Opened(server)
    BY <1>0 DEF ServerInv
  <2>3. server.incarnation > 0 => Before(server)
    BY <2>1, <2>2 DEF Before, Distinct
  <2>4. Newest(server)
    BY <1>0 DEF Newest, ServerInv, Holds
  <2> QED
    BY <2>2, <2>3, <2>4
<1>4. Observing(o)' => \/ Observing(o) /\ state.snapshot = obs[o].snapshot
                       \/ server.incarnation > 0 /\ state.snapshot = server
  BY <1>1 DEF Lightly, Observing
<1>5. SnapshotInv'
  <2> SUFFICES ASSUME NEW q \in Observers, Observing(q)'
               PROVE  (Distinct(obs[q].snapshot) /\ Opened(obs[q].snapshot) /\ Before(obs[q].snapshot))'
    BY DEF SnapshotInv
  <2> DEFINE s == obs'[q].snapshot
  <2>1. Distinct(s) /\ Opened(s) /\ Before(s)
    <3>1. CASE q = o
      BY <1>0, <1>1, <1>3, <1>4, <3>1 DEF SnapshotInv
    <3>2. CASE q # o
      BY <1>0, <1>1, <3>2 DEF SnapshotInv, Observing
    <3> QED
      BY <3>1, <3>2
  <2> QED
    BY <1>1, <2>1 DEF Distinct, Opened, Before
<1>6. ServerInv'
  BY <1>0, <1>1 DEF ServerInv, Distinct, Opened
<1>7. OpInv'
  <2>1. o \in Commands => obs'[o].op # "none"
    BY <1>1 DEF Lightly
  <2> QED
    BY <1>0, <1>1, <2>1 DEF OpInv, Observers
<1>8. AloneInv'
  <2> SUFFICES ASSUME DaemonAlone'
               PROVE  /\ \A p \in DOMAIN ledger : ledger[p].sequence = observed[ledger[p].terminal]
                      /\ Observing("daemon")' => Newest(obs'["daemon"].snapshot)
    BY <1>1 DEF AloneInv, Newest, Holds
  <2>1. o \notin Commands
    BY <1>1 DEF DaemonAlone, Lightly
  <2>2. o = "daemon" /\ DaemonAlone
    BY <1>1, <2>1 DEF DaemonAlone, Observers
  <2>3. \A p \in DOMAIN ledger : ledger[p].sequence = observed[ledger[p].terminal]
    BY <1>0, <2>2 DEF AloneInv
  <2>4. Observing("daemon")' => Newest(obs'["daemon"].snapshot)
    BY <1>0, <1>1, <1>3, <1>4, <2>2 DEF AloneInv
  <2> QED
    BY <2>3, <2>4
<1>9. HintsMatchTheLedger'
  BY <1>0, <1>1 DEF HintsMatchTheLedger
<1>10. NothingWithoutConsent'
  BY <1>0, <1>1 DEF NothingWithoutConsent, Lightly
<1> QED
  BY <1>2, <1>5, <1>6, <1>7, <1>8, <1>9, <1>10 DEF IInv

LEMMA BindingTypes ==
  ASSUME TypeOK
  PROVE  /\ binding \in Binding /\ binding.enabled \in BOOLEAN /\ binding.incarnation \in Int
         /\ [binding EXCEPT !.known = TRUE, !.enabled = TRUE] \in Binding
         /\ [binding EXCEPT !.known = TRUE, !.enabled = TRUE].incarnation = binding.incarnation
         /\ [binding EXCEPT !.enabled = FALSE] \in Binding
         /\ [binding EXCEPT !.enabled = FALSE].incarnation = binding.incarnation
         /\ [binding EXCEPT !.enabled = FALSE].enabled = FALSE
<1>1. binding \in Binding
  BY DEF TypeOK, Binding
<1>2. binding.enabled \in BOOLEAN /\ binding.incarnation \in Int
  BY <1>1, BoundAssumption DEF Binding
<1> QED
  BY <1>1, <1>2 DEF Binding

LEMMA DaemonLight ==
  ASSUME IInv, DaemonStart \/ DaemonDie \/ Discover \/ TakeSignal
  PROVE  \E state : Lightly("daemon", state)
<1>0. TypeOK /\ binding \in Binding /\ binding.enabled \in BOOLEAN /\ adapter \in BOOLEAN
      /\ "daemon" \in Observers /\ "daemon" \notin Commands /\ dirty \in {"none", "signal", "baseline"}
  BY BindingTypes, CommandAssumption DEF IInv, TypeOK, Observers
<1>1. UNCHANGED <<server, terminals, adapter, binding, ledger, hints, observed>>
      /\ dirty' \in {dirty, "none"}
  BY DEF DaemonStart, DaemonDie, Discover, TakeSignal, OnlyObservers
<1>2. \/ Become("daemon", Off) \/ Become("daemon", Rest("daemon"))
      \/ \E b \in BOOLEAN, n \in BOOLEAN : Become("daemon", Reading(b, n))
  <2>1. CASE DaemonStart
    <3>1. \/ Become("daemon", Rest("daemon")) \/ Become("daemon", Reading(TRUE, FALSE))
      BY <2>1 DEF DaemonStart, Become
    <3> QED
      BY <3>1
  <2>2. CASE DaemonDie
    BY <2>2 DEF DaemonDie
  <2>3. CASE Discover
    <3>1. (~binding.enabled) \in BOOLEAN
      BY <1>0
    <3>2. Become("daemon", Reading(TRUE, ~binding.enabled))
      BY <2>3 DEF Discover
    <3> QED
      BY <3>1, <3>2
  <2>4. CASE TakeSignal
    <3>1. (dirty = "baseline") \in BOOLEAN /\ (~binding.enabled) \in BOOLEAN
      BY <1>0
    <3>2. \/ Become("daemon", Rest("daemon"))
          \/ Become("daemon", Reading(dirty = "baseline", ~binding.enabled))
      BY <2>4 DEF TakeSignal, Become
    <3> QED
      BY <3>1, <3>2
  <2> QED
    BY <2>1, <2>2, <2>3, <2>4
<1>3. \E state \in {Off, Rest("daemon")} \cup {Reading(b, n) : b \in BOOLEAN, n \in BOOLEAN} :
         Become("daemon", state)
  <2>1. CASE Become("daemon", Off) \/ Become("daemon", Rest("daemon"))
    BY <2>1
  <2>2. ASSUME NEW b \in BOOLEAN, NEW n \in BOOLEAN, Become("daemon", Reading(b, n))
        PROVE  \E state \in {Off, Rest("daemon")} \cup {Reading(bb, nn) : bb \in BOOLEAN, nn \in BOOLEAN} :
                  Become("daemon", state)
    BY <2>2
  <2> QED
    BY <1>2, <2>1, <2>2
<1> PICK state \in {Off, Rest("daemon")} \cup {Reading(b, n) : b \in BOOLEAN, n \in BOOLEAN} :
         Become("daemon", state)
  BY <1>3
<1>4. state \in Observer /\ state.pc \notin {"check", "bind", "insert", "reconcile"}
  <2>1. Rest("daemon") \in Observer /\ Rest("daemon").pc \in {"idle", "done"}
    BY <1>0, RestTypes
  <2>2. \A b \in BOOLEAN, n \in BOOLEAN : Reading(b, n) \in Observer /\ Reading(b, n).pc = "read"
    BY ReadingType
  <2> QED
    BY <1>3, <2>1, <2>2, OffTypes
<1>5. Lightly("daemon", state)
  BY <1>0, <1>1, <1>3, <1>4 DEF Lightly
<1> QED
  BY <1>5

LEMMA CommandLight ==
  ASSUME IInv, NEW c \in Commands, Install(c) \/ Status(c) \/ CommandDie(c)
  PROVE  \E state : Lightly(c, state)
<1>0. TypeOK /\ OpInv /\ binding \in Binding /\ adapter \in BOOLEAN /\ c \in Observers
      /\ dirty \in {"none", "signal", "baseline"}
  BY BindingTypes DEF IInv, TypeOK, Observers
<1>1. CASE Install(c)
  <2> DEFINE state == [Reading(TRUE, TRUE) EXCEPT !.op = "install"]
  <2>1. state \in Observer /\ state.pc = "read" /\ state.op = "install"
    BY InstallTypes
  <2>2. /\ Become(c, state) /\ adapter' = TRUE
        /\ UNCHANGED <<server, terminals, binding, ledger, hints, dirty, observed>>
    BY <1>1 DEF Install
  <2> HIDE DEF state
  <2>3. Lightly(c, state)
    BY <1>0, <2>1, <2>2 DEF Lightly
  <2> QED
    BY <2>3
<1>2. CASE Status(c)
  <2> DEFINE state == StatusState(adapter)
  <2>1. state \in Observer /\ state.pc = "read" /\ state.op = "status"
    BY <1>0, StatusTypes, Zenon
  <2>2. /\ Become(c, state)
        /\ UNCHANGED <<server, terminals, adapter, binding, ledger, hints, dirty, observed>>
    BY <1>2 DEF Status, OnlyObservers, StatusState
  <2> HIDE DEF state
  <2>3. Lightly(c, state)
    BY <1>0, <2>1, <2>2 DEF Lightly
  <2> QED
    BY <2>3
<1>3. CASE CommandDie(c)
  <2>1. obs[c].op # "none"
    BY <1>0, <1>3, NamedWhenGoing DEF CommandDie
  <2>2. Rest(c) \in Observer /\ Rest(c).pc \in {"idle", "done"} /\ Rest(c).op # "none"
    BY <1>0, <2>1, RestTypes
  <2>3. /\ Become(c, Rest(c))
        /\ UNCHANGED <<server, terminals, adapter, binding, ledger, hints, dirty, observed>>
    BY <1>3 DEF CommandDie, OnlyObservers
  <2>4. Lightly(c, Rest(c))
    BY <1>0, <2>2, <2>3 DEF Lightly
  <2> QED
    BY <2>4
<1> QED
  BY <1>1, <1>2, <1>3

LEMMA ObserverLight ==
  ASSUME IInv, NEW o \in Observers,
         \/ Read(o) \/ ReadFails(o) \/ Check(o) \/ Bind(o) \/ Insert(o) \/ GiveUp(o) \/ Look(o)
         \/ Reconcile(o) /\ ~(adapter /\ binding.enabled)
  PROVE  \E state : Lightly(o, state)
<1>0. TypeOK /\ OpInv /\ binding \in Binding /\ adapter \in BOOLEAN /\ obs[o] \in Observer
      /\ dirty \in {"none", "signal", "baseline"}
  BY BindingTypes DEF IInv, TypeOK
<1>1. o \in Commands => obs[o].op # "none"
  BY <1>0, NamedWhenGoing DEF Read, ReadFails, Check, Bind, Insert, GiveUp, Look, Reconcile
<1>2. /\ Rest(o) \in Observer /\ Rest(o).pc \in {"idle", "done"}
      /\ o \in Commands => Rest(o).op # "none"
      /\ AfterInstall(o) \in Observer /\ AfterInstall(o).pc \in {"look", "idle", "done"}
      /\ o \in Commands => AfterInstall(o).op # "none"
  BY <1>0, <1>1, RestTypes, AfterInstallTypes
<1>3. \A pc \in {"bind", "insert", "reconcile"} :
         /\ [obs[o] EXCEPT !.pc = pc] \in Observer
         /\ [obs[o] EXCEPT !.pc = pc].snapshot = obs[o].snapshot
         /\ [obs[o] EXCEPT !.pc = pc].op = obs[o].op
  BY <1>0 DEF Observer
<1>4. CASE Read(o)
  <2>1. PICK pc \in {"check", "bind", "insert", "reconcile"} :
           Become(o, [obs[o] EXCEPT !.snapshot = server, !.pc = pc])
    BY <1>4 DEF Read
  <2>2. server \in Server /\ server.incarnation > 0
    BY <1>0, <1>4 DEF TypeOK, Read
  <2> DEFINE state == [obs[o] EXCEPT !.snapshot = server, !.pc = pc]
  <2>3. state \in Observer /\ state.snapshot = server /\ state.op = obs[o].op
    BY <1>0, <2>1, <2>2 DEF Observer
  <2>4. UNCHANGED <<server, terminals, adapter, binding, ledger, hints, dirty, observed>>
    BY <1>4 DEF Read, OnlyObservers
  <2>5. Become(o, state)
    BY <2>1
  <2> HIDE DEF state
  <2>6. Lightly(o, state)
    BY <1>0, <1>1, <2>2, <2>3, <2>4, <2>5 DEF Lightly
  <2> QED
    BY <2>6
<1>5. CASE ReadFails(o) \/ (Reconcile(o) /\ ~(adapter /\ binding.enabled))
  <2>1. /\ Become(o, AfterInstall(o))
        /\ UNCHANGED <<server, terminals, adapter, binding, ledger, hints, dirty, observed>>
    BY <1>5 DEF ReadFails, Reconcile, OnlyObservers
  <2>2. Lightly(o, AfterInstall(o))
    BY <1>0, <1>2, <2>1 DEF Lightly
  <2> QED
    BY <2>2
<1>6. CASE Check(o)
  <2>1. UNCHANGED <<server, terminals, adapter, binding, ledger, hints, dirty, observed>>
        /\ Observing(o)
    BY <1>6 DEF Check, OnlyObservers, Observing
  <2>2. CASE Become(o, Rest(o))
    <3>1. Lightly(o, Rest(o))
      BY <1>0, <1>2, <2>1, <2>2 DEF Lightly
    <3> QED
      BY <3>1
  <2>3. CASE Become(o, [obs[o] EXCEPT !.pc = "bind"])
    <3>1. Lightly(o, [obs[o] EXCEPT !.pc = "bind"])
      BY <1>0, <1>1, <1>3, <2>1, <2>3 DEF Lightly
    <3> QED
      BY <3>1
  <2> QED
    BY <1>6, <2>2, <2>3 DEF Check
<1>7. CASE Bind(o)
  <2>1. UNCHANGED <<server, terminals, adapter, ledger, hints, dirty, observed>> /\ Observing(o)
    BY <1>7 DEF Bind, Observing
  <2>2. CASE adapter /\ binding' = [binding EXCEPT !.enabled = TRUE]
             /\ Become(o, [obs[o] EXCEPT !.pc = "reconcile"])
    <3>1. binding' \in Binding /\ binding'.incarnation = binding.incarnation
      BY <1>0, <2>2 DEF Binding
    <3>2. Lightly(o, [obs[o] EXCEPT !.pc = "reconcile"])
      BY <1>0, <1>1, <1>3, <2>1, <2>2, <3>1 DEF Lightly
    <3> QED
      BY <3>2
  <2>3. CASE binding' = binding /\ Become(o, Rest(o))
    <3>1. Lightly(o, Rest(o))
      BY <1>0, <1>2, <2>1, <2>3 DEF Lightly
    <3> QED
      BY <3>1
  <2>4. CASE binding' = binding /\ Become(o, [obs[o] EXCEPT !.pc = "insert"])
    <3>1. Lightly(o, [obs[o] EXCEPT !.pc = "insert"])
      BY <1>0, <1>1, <1>3, <2>1, <2>4 DEF Lightly
    <3> QED
      BY <3>1
  <2> QED
    BY <1>7, <2>2, <2>3, <2>4 DEF Bind
<1>8. CASE Insert(o)
  <2>1. UNCHANGED <<server, terminals, adapter, ledger, hints, dirty, observed>> /\ Observing(o)
    BY <1>8 DEF Insert, Observing
  <2>2. binding' \in Binding /\ binding'.incarnation = binding.incarnation
        /\ (adapter \/ binding' = binding)
    BY <1>0, <1>8, BindingTypes DEF Insert
  <2>3. CASE Become(o, Rest(o))
    <3>1. Lightly(o, Rest(o))
      BY <1>0, <1>2, <2>1, <2>2, <2>3 DEF Lightly
    <3> QED
      BY <3>1
  <2>4. CASE Become(o, [obs[o] EXCEPT !.pc = "reconcile"])
    <3>1. Lightly(o, [obs[o] EXCEPT !.pc = "reconcile"])
      BY <1>0, <1>1, <1>3, <2>1, <2>2, <2>4 DEF Lightly
    <3> QED
      BY <3>1
  <2> QED
    BY <1>8, <2>3, <2>4 DEF Insert
<1>9. CASE GiveUp(o)
  <2>1. /\ Become(o, Rest(o))
        /\ UNCHANGED <<server, terminals, adapter, binding, ledger, hints, dirty, observed>>
    BY <1>9 DEF GiveUp, OnlyObservers
  <2>2. Lightly(o, Rest(o))
    BY <1>0, <1>2, <2>1 DEF Lightly
  <2> QED
    BY <2>2
<1>10. CASE Look(o)
  <2> DEFINE state == StatusState(adapter)
  <2>1. state \in Observer /\ state.pc = "read" /\ state.op = "status"
    BY <1>0, StatusTypes, Zenon
  <2>2. /\ Become(o, state)
        /\ UNCHANGED <<server, terminals, adapter, binding, ledger, hints, dirty, observed>>
    BY <1>10 DEF Look, OnlyObservers, StatusState
  <2> HIDE DEF state
  <2>3. Lightly(o, state)
    BY <1>0, <2>1, <2>2 DEF Lightly
  <2> QED
    BY <2>3
<1> QED
  BY <1>4, <1>5, <1>6, <1>7, <1>8, <1>9, <1>10

------------------------------------------------------------------------------
(* The commit of an observation. *)

\* A hint that is queued is of the snapshot, and tells more than the ledger does.
LEMMA NewHintFacts ==
  ASSUME TypeOK, NEW s \in Server, s.incarnation > 0, NEW baseline \in BOOLEAN,
         NEW h \in NewHints(s, baseline)
  PROVE  /\ h \in Hint /\ s.incarnation = binding.incarnation /\ h.incarnation = s.incarnation
         /\ h.pane \in DOMAIN s.panes /\ h.terminal = s.panes[h.pane].terminal
         /\ h.sequence = s.panes[h.pane].sequence
         /\ h.pane \in DOMAIN ledger /\ ledger[h.pane].terminal = h.terminal
         /\ h.sequence > ledger[h.pane].sequence
<1> DEFINE rows == Comparable(s)
           panes == s.panes
<1>1. s.incarnation = binding.incarnation
  BY DEF NewHints
<1>2. rows = ledger
  BY <1>1 DEF Comparable
<1> DEFINE Made(p, type) == [incarnation |-> s.incarnation, pane |-> p,
                             terminal |-> panes[p].terminal, sequence |-> panes[p].sequence,
                             type |-> type]
<1>3. PICK p \in DOMAIN panes :
         ~Initial(rows, p, panes[p]) /\ \E type \in Types(rows[p], panes[p], s.evidence) : h = Made(p, type)
  BY DEF NewHints
<1>4. PICK type \in Types(rows[p], panes[p], s.evidence) : h = Made(p, type)
  BY <1>3
<1>5. /\ h.incarnation = s.incarnation /\ h.pane = p /\ h.terminal = panes[p].terminal
      /\ h.sequence = panes[p].sequence /\ h.type = type
  BY <1>4
<1>6. type \in {"attention_required", "progress_updated"} /\ Advanced(rows[p], panes[p])
  BY <1>4 DEF Types
<1>7. panes[p] \in Pane /\ p \in Panes /\ s.incarnation \in 1..MaxIncarnation
  BY ServerTypes, BoundAssumption
<1>8. h \in Hint
  BY <1>4, <1>6, <1>7, PaneTypes DEF Hint
<1>9. p \in DOMAIN ledger /\ ledger[p].terminal = panes[p].terminal
  BY <1>2, <1>3 DEF Initial
<1>10. panes[p].sequence > ledger[p].sequence
  BY <1>2, <1>6 DEF Advanced
<1> QED
  BY <1>1, <1>5, <1>8, <1>9, <1>10

\* A hint that stays is of the incarnation and the terminal of the snapshot.
LEMMA KeptHintFacts ==
  ASSUME TypeOK, HintsMatchTheLedger, NEW s \in Server, NEW h \in hints \ Withdrawn(s)
  PROVE  /\ s.incarnation = binding.incarnation /\ h.incarnation = s.incarnation
         /\ h.pane \in DOMAIN s.panes /\ h.terminal = s.panes[h.pane].terminal
         /\ h.sequence <= s.panes[h.pane].sequence
<1>1. /\ h.incarnation = binding.incarnation /\ h.pane \in DOMAIN ledger
      /\ ledger[h.pane].terminal = h.terminal /\ h.sequence <= ledger[h.pane].sequence
  BY DEF HintsMatchTheLedger
<1>2. h.incarnation \in 1..MaxIncarnation /\ h.sequence \in Int
  BY BoundAssumption DEF TypeOK, Hint
<1>3. s.incarnation = binding.incarnation
  BY <1>1, <1>2 DEF Withdrawn
<1>4. Comparable(s) = ledger
  BY <1>3 DEF Comparable
<1>5. h.pane \in DOMAIN s.panes /\ ~Initial(ledger, h.pane, s.panes[h.pane])
  BY <1>1, <1>4 DEF Withdrawn
<1>6. ledger[h.pane].sequence \in Int /\ s.panes[h.pane].sequence \in Int
  BY <1>1, <1>5, ServerTypes, PaneTypes, RowTypes DEF TypeOK
<1> QED
  BY <1>1, <1>2, <1>3, <1>5, <1>6 DEF Initial

LEMMA RowsFacts ==
  ASSUME NEW s \in Server
  PROVE  /\ DOMAIN Rows(s) = DOMAIN s.panes /\ Rows(s) \in [DOMAIN s.panes -> LedgerRow]
         /\ \A p \in DOMAIN s.panes : /\ Rows(s)[p].terminal = s.panes[p].terminal
                                      /\ Rows(s)[p].sequence = s.panes[p].sequence
<1>1. \A p \in DOMAIN s.panes : s.panes[p] \in Pane
  BY ServerTypes
<1> QED
  BY <1>1, PaneTypes DEF Rows, LedgerRow

\* The highest sequence observed of a terminal, with one pane for each.
LEMMA HighestFacts ==
  ASSUME TypeOK, NEW s \in Server, Distinct(s), NEW t \in 1..MaxTerminal
  PROVE  /\ Highest(s, t) \in 0..MaxSequence /\ Highest(s, t) \in Int
         /\ observed[t] \in Int /\ observed[t] <= Highest(s, t)
         /\ \A p \in DOMAIN s.panes : s.panes[p].terminal = t => s.panes[p].sequence <= Highest(s, t)
         /\ \/ Highest(s, t) = observed[t]
            \/ \E p \in DOMAIN s.panes : /\ s.panes[p].terminal = t
                                         /\ Highest(s, t) = s.panes[p].sequence
<1> DEFINE ps == {p \in DOMAIN s.panes : s.panes[p].terminal = t}
<1>1. observed[t] \in 0..MaxSequence /\ observed[t] \in Int
  BY BoundAssumption DEF TypeOK
<1>2. \A p \in ps : s.panes[p].sequence \in 1..MaxSequence /\ s.panes[p].sequence \in Int
  BY ServerTypes, PaneTypes
<1>3. CASE \E p \in ps : s.panes[p].sequence > observed[t]
  <2>1. PICK p \in ps : s.panes[p].sequence > observed[t]
    BY <1>3
  <2>2. \A q \in ps : q = p
    BY <2>1 DEF Distinct
  <2>3. (CHOOSE q \in ps : TRUE) = p
    BY <2>1, <2>2
  <2>4. Highest(s, t) = s.panes[p].sequence
    BY <1>3, <2>3 DEF Highest
  <2>5. s.panes[p].sequence \in 0..MaxSequence
    BY <1>2, BoundAssumption
  <2> QED
    BY <1>1, <1>2, <2>1, <2>2, <2>4, <2>5
<1>4. CASE ~\E p \in ps : s.panes[p].sequence > observed[t]
  <2>1. Highest(s, t) = observed[t]
    BY <1>4 DEF Highest
  <2>2. \A p \in ps : s.panes[p].sequence <= observed[t]
    BY <1>1, <1>2, <1>4
  <2> QED
    BY <1>1, <2>1, <2>2
<1> QED
  BY <1>3, <1>4

\* A commit of o.
Commits(o) == Reconcile(o) /\ adapter /\ binding.enabled

LEMMA CommitFacts ==
  ASSUME IInv, NEW o \in Observers, Commits(o)
  PROVE  LET s == obs[o].snapshot
         IN  /\ s \in Server /\ s.incarnation \in 1..server.incarnation /\ s.incarnation > 0
             /\ Observing(o) /\ Distinct(s) /\ Opened(s) /\ Before(s)
             /\ obs[o].baseline \in BOOLEAN
             /\ hints' = (hints \ Withdrawn(s)) \cup NewHints(s, obs[o].baseline)
             /\ ledger' = Rows(s)
             /\ binding' = [binding EXCEPT !.incarnation = s.incarnation]
             /\ observed' = [t \in 1..MaxTerminal |-> Highest(s, t)]
             /\ Become(o, AfterInstall(o)) /\ UNCHANGED <<server, terminals, adapter, dirty>>
<1> DEFINE s == obs[o].snapshot
<1>1. Observing(o)
  BY DEF Commits, Reconcile, Observing
<1>2. Distinct(s) /\ Opened(s) /\ Before(s)
  BY <1>1 DEF IInv, SnapshotInv
<1>3. s \in Server /\ obs[o].baseline \in BOOLEAN
  BY DEF IInv, TypeOK, Observer
<1>4. s.incarnation \in 1..server.incarnation /\ s.incarnation > 0
  BY <1>2, <1>3, ServerTypes DEF Before, IInv, TypeOK
<1> QED
  BY <1>1, <1>2, <1>3, <1>4 DEF Commits, Reconcile

LEMMA CommitTyped ==
  ASSUME IInv, NEW o \in Observers, Commits(o)
  PROVE  TypeOK' /\ HintsMatchTheLedger' /\ NothingWithoutConsent'
<1> DEFINE s == obs[o].snapshot
<1>0. TypeOK /\ HintsMatchTheLedger /\ binding \in Binding /\ adapter /\ binding.enabled
  BY BindingTypes DEF IInv, Commits
<1>1. /\ s \in Server /\ s.incarnation > 0 /\ Distinct(s) /\ obs[o].baseline \in BOOLEAN
      /\ hints' = (hints \ Withdrawn(s)) \cup NewHints(s, obs[o].baseline)
      /\ ledger' = Rows(s)
      /\ binding' = [binding EXCEPT !.incarnation = s.incarnation]
      /\ observed' = [t \in 1..MaxTerminal |-> Highest(s, t)]
      /\ Become(o, AfterInstall(o)) /\ UNCHANGED <<server, terminals, adapter, dirty>>
  BY CommitFacts
<1> HIDE DEF s
<1>2. binding' \in Binding /\ binding'.incarnation = s.incarnation /\ binding'.enabled
  BY <1>0, <1>1, ServerTypes DEF Binding
<1>3. observed' \in [1..MaxTerminal -> 0..MaxSequence]
  BY <1>0, <1>1, HighestFacts
<1>4. /\ DOMAIN ledger' = DOMAIN s.panes /\ DOMAIN ledger' \subseteq Panes
      /\ ledger' \in [DOMAIN ledger' -> LedgerRow]
      /\ \A p \in DOMAIN s.panes : /\ ledger'[p].terminal = s.panes[p].terminal
                                   /\ ledger'[p].sequence = s.panes[p].sequence
  BY <1>1, RowsFacts, ServerTypes
<1>5. hints' \subseteq Hint
  BY <1>0, <1>1, NewHintFacts DEF TypeOK
<1>6. obs' \in [Observers -> Observer]
  BY <1>0, <1>1, AfterInstallTypes DEF Become, TypeOK
<1>7. TypeOK'
  BY <1>0, <1>1, <1>2, <1>3, <1>4, <1>5, <1>6 DEF TypeOK, Binding
<1>8. HintsMatchTheLedger'
  <2>1. ASSUME NEW h \in hints'
        PROVE  /\ h.incarnation = binding'.incarnation /\ h.pane \in DOMAIN ledger'
               /\ ledger'[h.pane].terminal = h.terminal
               /\ h.sequence <= ledger'[h.pane].sequence
    <3>1. CASE h \in hints \ Withdrawn(s)
      BY <1>0, <1>1, <1>2, <1>4, <3>1, KeptHintFacts
    <3>2. CASE h \in NewHints(s, obs[o].baseline)
      <4>1. h \in Hint /\ h.incarnation = s.incarnation /\ h.pane \in DOMAIN s.panes
            /\ h.terminal = s.panes[h.pane].terminal /\ h.sequence = s.panes[h.pane].sequence
        BY <1>0, <1>1, <3>2, NewHintFacts
      <4>2. h.sequence \in Int
        BY <4>1, BoundAssumption DEF Hint
      <4> QED
        BY <1>2, <1>4, <4>1, <4>2
    <3> QED
      BY <1>1, <3>1, <3>2
  <2> QED
    BY <2>1 DEF HintsMatchTheLedger
<1>9. NothingWithoutConsent'
  BY <1>0, <1>1 DEF NothingWithoutConsent
<1> QED
  BY <1>7, <1>8, <1>9

LEMMA CommitKnown ==
  ASSUME IInv, NEW o \in Observers, Commits(o)
  PROVE  SnapshotInv' /\ ServerInv' /\ OpInv' /\ AloneInv'
<1> DEFINE s == obs[o].snapshot
<1>0. TypeOK /\ SnapshotInv /\ ServerInv /\ OpInv /\ AloneInv /\ binding \in Binding
  BY BindingTypes DEF IInv
<1>1. /\ s \in Server /\ s.incarnation \in 1..server.incarnation
      /\ Observing(o) /\ Distinct(s) /\ Opened(s) /\ Before(s)
      /\ ledger' = Rows(s)
      /\ binding' = [binding EXCEPT !.incarnation = s.incarnation]
      /\ observed' = [t \in 1..MaxTerminal |-> Highest(s, t)]
      /\ Become(o, AfterInstall(o)) /\ UNCHANGED <<server, terminals, adapter, dirty>>
  BY CommitFacts
<1>2. /\ DOMAIN ledger' = DOMAIN s.panes
      /\ \A p \in DOMAIN s.panes : /\ ledger'[p].terminal = s.panes[p].terminal
                                   /\ ledger'[p].sequence = s.panes[p].sequence
  BY <1>1, RowsFacts
<1>3. /\ obs' \in [Observers -> Observer] /\ obs'[o] = AfterInstall(o)
      /\ \A q \in Observers \ {o} : obs'[q] = obs[q]
      /\ AfterInstall(o).pc \in {"look", "idle", "done"}
      /\ o \in Commands => obs[o].op # "none" /\ AfterInstall(o).op # "none"
  BY <1>0, <1>1, AfterInstallTypes, NamedWhenGoing DEF Become, TypeOK, Observing
<1>4. SnapshotInv'
  <2>1. ASSUME NEW q \in Observers, Observing(q)'
        PROVE  q # o /\ Observing(q) /\ obs'[q].snapshot = obs[q].snapshot
    BY <1>3, <2>1 DEF Observing
  <2> QED
    BY <1>0, <1>1, <2>1 DEF SnapshotInv, Distinct, Opened, Before
<1>5. OpInv'
  BY <1>0, <1>3 DEF OpInv, Observers
<1>6. /\ \A p \in DOMAIN s.panes : /\ s.panes[p] \in Pane /\ s.panes[p].terminal \in 1..MaxTerminal
                                   /\ s.panes[p].sequence \in Int
                                   /\ s.panes[p].terminal \in Int
      /\ \A p \in DOMAIN server.panes : /\ server.panes[p].terminal \in 1..MaxTerminal
                                        /\ server.panes[p].terminal \in Int
                                        /\ server.panes[p].sequence \in Int
      /\ server.incarnation \in Int /\ s.incarnation \in Int
  BY <1>0, <1>1, ServerTypes, PaneTypes DEF TypeOK
<1>7. \A t \in 1..MaxTerminal :
         /\ observed'[t] = Highest(s, t) /\ observed[t] \in Int /\ Highest(s, t) \in Int
         /\ \A p \in DOMAIN s.panes : s.panes[p].terminal = t => s.panes[p].sequence <= Highest(s, t)
         /\ \/ Highest(s, t) = observed[t]
            \/ \E p \in DOMAIN s.panes : /\ s.panes[p].terminal = t
                                         /\ Highest(s, t) = s.panes[p].sequence
  BY <1>0, <1>1, HighestFacts
<1> HIDE DEF s
<1>8. ServerInv'
  <2>1. \A p \in DOMAIN server.panes : observed'[server.panes[p].terminal] <= server.panes[p].sequence
    <3>1. ASSUME NEW p \in DOMAIN server.panes
          PROVE  Highest(s, server.panes[p].terminal) <= server.panes[p].sequence
      <4> DEFINE t == server.panes[p].terminal
      <4>1. t \in 1..MaxTerminal /\ server.panes[p].sequence \in Int
        BY <1>6
      <4>2. CASE Highest(s, t) = observed[t]
        BY <1>0, <4>2 DEF ServerInv
      <4>3. ASSUME NEW q \in DOMAIN s.panes, s.panes[q].terminal = t,
                   Highest(s, t) = s.panes[q].sequence
            PROVE  Highest(s, t) <= server.panes[p].sequence
        BY <1>1, <4>3 DEF Before
      <4> QED
        BY <1>7, <4>1, <4>2, <4>3
    <3> QED
      BY <1>6, <1>7, <3>1
  <2>2. \A t \in 1..MaxTerminal : t > terminals => observed'[t] = 0
    <3>1. ASSUME NEW t \in 1..MaxTerminal, t > terminals
          PROVE  Highest(s, t) = observed[t]
      <4>1. \A p \in DOMAIN s.panes : s.panes[p].terminal <= terminals
        BY <1>1 DEF Opened
      <4>2. terminals \in Int
        BY <1>0, BoundAssumption DEF TypeOK
      <4> QED
        BY <1>6, <1>7, <3>1, <4>1, <4>2, BoundAssumption
    <3> QED
      BY <1>0, <1>7, <3>1 DEF ServerInv
  <2>3. binding'.incarnation <= server.incarnation
    BY <1>0, <1>1, <1>6 DEF Binding
  <2>4. \A p \in DOMAIN ledger' : /\ ledger'[p].terminal <= terminals
                                  /\ ledger'[p].sequence <= observed'[ledger'[p].terminal]
    BY <1>1, <1>2, <1>6, <1>7 DEF Opened
  <2> QED
    BY <1>0, <1>1, <2>1, <2>2, <2>3, <2>4 DEF ServerInv, Distinct, Opened
<1>9. AloneInv'
  <2> SUFFICES ASSUME DaemonAlone'
               PROVE  /\ \A p \in DOMAIN ledger' : ledger'[p].sequence = observed'[ledger'[p].terminal]
                      /\ ~Observing("daemon")'
    BY DEF AloneInv
  <2>1. o \notin Commands
    BY <1>3 DEF DaemonAlone
  <2>2. o = "daemon" /\ DaemonAlone
    BY <1>3, <2>1 DEF DaemonAlone, Observers
  <2>3. Newest(s)
    BY <1>0, <1>1, <2>2 DEF AloneInv, s
  <2>4. \A p \in DOMAIN s.panes : observed[s.panes[p].terminal] <= s.panes[p].sequence
    BY <2>3 DEF Newest
  <2>5. ASSUME NEW p \in DOMAIN s.panes
        PROVE  Highest(s, s.panes[p].terminal) = s.panes[p].sequence
    <3> DEFINE t == s.panes[p].terminal
    <3>1. t \in 1..MaxTerminal /\ s.panes[p].sequence <= Highest(s, t) /\ observed[t] <= s.panes[p].sequence
      BY <1>6, <1>7, <2>4
    <3>2. CASE Highest(s, t) = observed[t]
      BY <1>6, <1>7, <3>1, <3>2
    <3>3. ASSUME NEW q \in DOMAIN s.panes, s.panes[q].terminal = t,
                 Highest(s, t) = s.panes[q].sequence
          PROVE  q = p
      BY <1>1, <3>3 DEF Distinct
    <3> QED
      BY <1>7, <3>1, <3>2, <3>3
  <2>6. ~Observing("daemon")'
    BY <1>3, <2>2 DEF Observing
  <2> QED
    BY <1>2, <1>6, <1>7, <2>5, <2>6
<1> QED
  BY <1>4, <1>5, <1>8, <1>9

------------------------------------------------------------------------------
(* The other steps. *)

LEMMA Uninstalls ==
  ASSUME IInv, NEW c \in Commands, Uninstall(c)
  PROVE  IInv'
<1>0. TypeOK /\ SnapshotInv /\ ServerInv /\ OpInv /\ AloneInv /\ c \in Observers
  BY DEF IInv, Observers
<1>1. /\ adapter' = FALSE /\ ledger' = NoPanes /\ hints' = {} /\ Become(c, Rest(c))
      /\ binding' = [binding EXCEPT !.enabled = FALSE]
      /\ UNCHANGED <<server, terminals, dirty, observed>> /\ obs[c].pc = "off"
  BY DEF Uninstall
<1>2. binding' \in Binding /\ binding'.incarnation = binding.incarnation /\ ~binding'.enabled
  BY <1>0, <1>1, BindingTypes
<1>3. /\ Rest(c) \in Observer /\ Rest(c).pc = "done" /\ Rest(c).op = obs[c].op
  BY <1>0, RestTypes
<1>4. /\ obs' \in [Observers -> Observer] /\ obs'[c] = Rest(c)
      /\ \A q \in Observers \ {c} : obs'[q] = obs[q]
  BY <1>0, <1>1, <1>3 DEF Become, TypeOK
<1>5. TypeOK'
  BY <1>0, <1>1, <1>2, <1>4, NoPanesTypes DEF TypeOK, Binding
<1>6. \A q \in Observers : Observing(q)' => Observing(q) /\ obs'[q].snapshot = obs[q].snapshot
  BY <1>3, <1>4 DEF Observing
<1>7. SnapshotInv'
  BY <1>0, <1>1, <1>6 DEF SnapshotInv, Distinct, Opened, Before
<1>8. ServerInv'
  BY <1>0, <1>1, <1>2, NoPanesTypes DEF ServerInv, Distinct, Opened
<1>9. OpInv' /\ DaemonAlone' = DaemonAlone
  <2>1. \A d \in Commands : obs'[d].op = obs[d].op
    BY <1>3, <1>4 DEF Observers
  <2>2. \A d \in Commands : obs'[d].pc \in {obs[d].pc, "done"}
    BY <1>3, <1>4 DEF Observers
  <2>3. DaemonAlone' = DaemonAlone
    BY <2>1 DEF DaemonAlone
  <2> QED
    BY <1>0, <2>1, <2>2, <2>3 DEF OpInv
<1>10. AloneInv'
  <2>1. "daemon" \in Observers
    BY DEF Observers
  <2>2. DOMAIN ledger' = {}
    BY <1>1, NoPanesTypes
  <2>3. DaemonAlone' /\ Observing("daemon")' => Newest(obs["daemon"].snapshot)
    BY <1>0, <1>6, <1>9, <2>1 DEF AloneInv
  <2>4. DaemonAlone' /\ Observing("daemon")' => Newest(obs["daemon"].snapshot)'
    BY <1>1, <1>2, <1>6, <2>1, <2>2, <2>3 DEF Newest, Holds
  <2> QED
    BY <2>2, <2>4 DEF AloneInv
<1>11. HintsMatchTheLedger' /\ NothingWithoutConsent'
  BY <1>1, <1>2 DEF HintsMatchTheLedger, NothingWithoutConsent
<1> QED
  BY <1>5, <1>7, <1>8, <1>9, <1>10, <1>11 DEF IInv

\* A signal is noted, and a hint delivered, with nothing else changed.
LEMMA Little ==
  ASSUME IInv, UNCHANGED <<server, terminals, adapter, binding, ledger, obs, observed>>,
         dirty' \in {"none", "signal", "baseline"}, hints' \subseteq hints
  PROVE  IInv'
<1>1. TypeOK'
  BY DEF IInv, TypeOK
<1>2. SnapshotInv' /\ ServerInv' /\ OpInv'
  BY DEF IInv, SnapshotInv, ServerInv, OpInv, Observing, Distinct, Opened, Before
<1>3. AloneInv'
  BY DEF IInv, AloneInv, DaemonAlone, Observing, Newest, Holds
<1>4. HintsMatchTheLedger' /\ NothingWithoutConsent'
  BY DEF IInv, HintsMatchTheLedger, NothingWithoutConsent
<1> QED
  BY <1>1, <1>2, <1>3, <1>4 DEF IInv

------------------------------------------------------------------------------
(* The theorems. *)

LEMMA IInit == Init => IInv
<1> SUFFICES ASSUME Init PROVE IInv
  OBVIOUS
<1>1. /\ server = NoServer /\ terminals = 0 /\ adapter \in BOOLEAN /\ ledger = NoPanes
      /\ hints = {} /\ dirty = "none" /\ obs = [o \in Observers |-> Off]
      /\ observed = [t \in 1..MaxTerminal |-> 0]
  BY DEF Init
<1>2. binding \in Binding /\ binding.incarnation = 0 /\ (~adapter => ~binding.enabled)
  <2>1. PICK known \in BOOLEAN, enabled \in {FALSE, adapter} :
           binding = [known |-> known, enabled |-> enabled, incarnation |-> 0]
    BY DEF Init
  <2>2. enabled \in BOOLEAN
    <3>1. CASE enabled = FALSE
      BY <3>1
    <3>2. CASE enabled = adapter
      BY <1>1, <3>2, Zenon
    <3> QED
      BY <3>1, <3>2
  <2>3. 0 \in 0..MaxIncarnation
    BY BoundAssumption
  <2>4. binding \in Binding
    BY <2>1, <2>2, <2>3 DEF Binding
  <2>5. binding.incarnation = 0 /\ binding.enabled = enabled
    BY <2>1
  <2>6. ~adapter => ~enabled
    BY <1>1, Zenon
  <2> QED
    BY <2>4, <2>5, <2>6
<1>3. TypeOK
  BY <1>1, <1>2, NoPanesTypes, NoServerTypes, OffTypes, BoundAssumption DEF TypeOK, Binding
<1>4. \A o \in Observers : ~Observing(o) /\ obs[o].op = "none" /\ obs[o].pc = "off"
  BY <1>1, OffTypes DEF Observing
<1>5. SnapshotInv /\ OpInv
  BY <1>4 DEF SnapshotInv, OpInv, Observers
<1>6. ServerInv
  BY <1>1, <1>2, NoPanesTypes, NoServerTypes DEF ServerInv, Distinct, Opened
<1>7. AloneInv
  BY <1>1, <1>4, NoPanesTypes DEF AloneInv, Observers
<1>8. HintsMatchTheLedger /\ NothingWithoutConsent
  BY <1>1, <1>2 DEF HintsMatchTheLedger, NothingWithoutConsent
<1> QED
  BY <1>3, <1>5, <1>6, <1>7, <1>8 DEF IInv

LEMMA ServerSteps ==
  ASSUME IInv, ServerStep
  PROVE  IInv' /\ obs' = obs /\ hints' = hints
<1>0. TypeOK /\ ServerInv
  BY DEF IInv
<1>1. ASSUME ServerGoes PROVE IInv' /\ obs' = obs /\ hints' = hints
  BY <1>1, ServerGone DEF ServerGoes, OnlyServer
<1>2. CASE ServerStart
  BY <1>0, <1>1, <1>2, ServerStarts
<1>3. ASSUME NEW p \in Panes, NEW status \in Statuses, PaneOpen(p, status) \/ PaneChange(p, status)
      PROVE  IInv' /\ obs' = obs /\ hints' = hints
  BY <1>0, <1>1, <1>3, PaneOpens, PaneChanges
<1>4. ASSUME NEW p \in Panes, PaneClose(p)
      PROVE  IInv' /\ obs' = obs /\ hints' = hints
  BY <1>0, <1>1, <1>4, PaneCloses
<1>5. ASSUME NEW baseline \in BOOLEAN, Signal(baseline)
      PROVE  IInv' /\ obs' = obs /\ hints' = hints
  <2>1. /\ UNCHANGED <<server, terminals, adapter, binding, ledger, hints, obs, observed>>
        /\ dirty' \in {"none", "signal", "baseline"}
    BY <1>5 DEF Signal
  <2> QED
    BY <2>1, Little
<1> QED
  BY <1>2, <1>3, <1>4, <1>5 DEF ServerStep

LEMMA Delivers ==
  ASSUME IInv, NEW h \in hints, Deliver(h)
  PROVE  IInv' /\ obs' = obs /\ hints' \subseteq hints
<1>1. /\ UNCHANGED <<server, terminals, adapter, binding, ledger, dirty, obs, observed>>
      /\ hints' \subseteq hints
  BY DEF Deliver
<1>2. dirty' \in {"none", "signal", "baseline"}
  BY <1>1 DEF IInv, TypeOK
<1> QED
  BY <1>1, <1>2, Little

\* What becomes of the hints in a step: it commits, or takes everything away
\* with the consent, or queues nothing, and discards nothing unless it delivers.
HintsGo ==
    \/ \E o \in Observers : Commits(o)
    \/ ~adapter' /\ hints' = {}
    \/ hints' = hints
    \/ hints' \subseteq hints /\ obs' = obs

LEMMA Steps == IInv /\ [Next]_vars => IInv' /\ HintsGo
<1> SUFFICES ASSUME IInv, [Next]_vars PROVE IInv' /\ HintsGo
  OBVIOUS
<1>1. CASE UNCHANGED vars
  <2>1. dirty' \in {"none", "signal", "baseline"}
    BY <1>1 DEF vars, IInv, TypeOK
  <2> QED
    BY <1>1, <2>1, Little DEF vars, HintsGo
<1>2. CASE ServerStep
  BY <1>2, ServerSteps DEF HintsGo
<1>3. ASSUME NEW o \in Observers, NEW state, Lightly(o, state)
      PROVE  IInv' /\ HintsGo
  BY <1>3, Light DEF HintsGo, Lightly
<1>4. CASE ObserverStep
  <2>1. PICK o \in Observers : \/ Read(o) \/ ReadFails(o) \/ Check(o) \/ Bind(o) \/ Insert(o)
                              \/ GiveUp(o) \/ Look(o) \/ Reconcile(o)
    BY <1>4 DEF ObserverStep
  <2>2. CASE Commits(o)
    BY <2>2, CommitTyped, CommitKnown DEF IInv, HintsGo
  <2>3. CASE ~Commits(o)
    BY <1>3, <2>1, <2>3, ObserverLight DEF Commits
  <2> QED
    BY <2>2, <2>3
<1>5. CASE CommandStep
  <2>1. PICK c \in Commands : Install(c) \/ Status(c) \/ Uninstall(c) \/ CommandDie(c)
    BY <1>5 DEF CommandStep
  <2>2. CASE Uninstall(c)
    BY <2>2, Uninstalls DEF Uninstall, HintsGo
  <2>3. CASE Install(c) \/ Status(c) \/ CommandDie(c)
    BY <1>3, <2>3, CommandLight DEF Observers
  <2> QED
    BY <2>1, <2>2, <2>3
<1>6. CASE DaemonStart \/ DaemonDie \/ Discover \/ TakeSignal
  BY <1>3, <1>6, DaemonLight DEF Observers
<1>7. CASE \E h \in hints : Deliver(h)
  BY <1>7, Delivers DEF HintsGo
<1> QED
  BY <1>1, <1>2, <1>4, <1>5, <1>6, <1>7 DEF Next

LEMMA Inductive == Spec => []IInv
<1>1. IInv /\ [Next]_vars => IInv'
  BY Steps
<1> QED
  BY <1>1, IInit, PTL DEF Spec

\* Every variable keeps its type, for any panes and any number of commands
\* (herdr_state.go, herdr_capture.go).
THEOREM CaptureTyped == Spec => []TypeOK
<1>1. IInv => TypeOK
  BY DEF IInv
<1> QED
  BY <1>1, Inductive, PTL

\* Once the consent is withdrawn nothing is captured, or left of what was,
\* however many observations are under way (herdr_state.go:24, 39-41, 81-86).
THEOREM ConsentNeeded == Spec => []NothingWithoutConsent
<1>1. IInv => NothingWithoutConsent
  BY DEF IInv
<1> QED
  BY <1>1, Inductive, PTL

\* A queued hint is of the server and the terminal the ledger knows, however
\* old the snapshots are that are committed (herdr_state.go:92-96, 155-188).
THEOREM HintsMatch == Spec => []HintsMatchTheLedger
<1>1. IInv => HintsMatchTheLedger
  BY DEF IInv
<1> QED
  BY <1>1, Inductive, PTL

\* A commit in a run in which no command has observed is one of the daemon, and
\* of the newest snapshot there is.
LEMMA AloneCommits ==
  ASSUME IInv, NEW o \in Observers, Commits(o), DaemonAlone'
  PROVE  o = "daemon" /\ DaemonAlone /\ Newest(obs[o].snapshot)
<1>0. TypeOK /\ OpInv /\ AloneInv
  BY DEF IInv
<1>1. Become(o, AfterInstall(o)) /\ Observing(o)
  BY CommitFacts
<1>2. o \in Commands => obs[o].op # "none" /\ AfterInstall(o).op # "none"
  BY <1>0, <1>1, NamedWhenGoing, AfterInstallTypes DEF Observing
<1>3. obs'[o] = AfterInstall(o) /\ \A q \in Observers \ {o} : obs'[q] = obs[q]
  BY <1>0, <1>1 DEF Become, TypeOK
<1>4. o \notin Commands
  BY <1>2, <1>3 DEF DaemonAlone
<1>5. o = "daemon" /\ DaemonAlone
  BY <1>3, <1>4 DEF DaemonAlone, Observers
<1> QED
  BY <1>0, <1>1, <1>5 DEF AloneInv

\* As long as no command has observed, a hint tells what had not been observed
\* before, whatever signals, restarts and withdrawals of the consent come
\* between two observations of the daemon (herdr_state.go:100-127).
THEOREM NewsTold == Spec => DaemonTellsNews
<1>1. ASSUME IInv, [Next]_vars PROVE [DaemonAlone' => AreNews]_vars
  <2> SUFFICES ASSUME DaemonAlone', NEW h \in hints' \ hints
               PROVE  h.sequence > observed[h.terminal]
    BY DEF AreNews
  <2>1. PICK o \in Observers : Commits(o)
    BY <1>1, Steps DEF HintsGo
  <2> DEFINE s == obs[o].snapshot
  <2>2. /\ s \in Server /\ s.incarnation > 0 /\ obs[o].baseline \in BOOLEAN
        /\ hints' = (hints \ Withdrawn(s)) \cup NewHints(s, obs[o].baseline)
    BY <1>1, <2>1, CommitFacts
  <2>3. h \in NewHints(s, obs[o].baseline) /\ TypeOK
    BY <1>1, <2>2 DEF IInv
  <2>4. /\ h.pane \in DOMAIN ledger /\ ledger[h.pane].terminal = h.terminal
        /\ h.sequence > ledger[h.pane].sequence
    BY <2>2, <2>3, NewHintFacts
  <2>5. ledger[h.pane].sequence = observed[ledger[h.pane].terminal]
    BY <1>1, <2>1, <2>4, AloneCommits DEF IInv, AloneInv
  <2> QED
    BY <2>4, <2>5
<1> QED
  BY <1>1, Inductive, PTL DEF Spec, DaemonTellsNews

\* As long as no command has observed, a commit discards no hint whose terminal
\* the server still runs in its pane (herdr_state.go:92-96, 155-188).
THEOREM CurrentStays == Spec => HintsStayWhileCurrent
<1> DEFINE Stay ==
        obs' # obs /\ adapter' /\ DaemonAlone' =>
            \A h \in hints \ hints' :
                \/ server.incarnation # h.incarnation
                \/ h.pane \notin DOMAIN server.panes
                \/ server.panes[h.pane].terminal # h.terminal
<1>1. ASSUME IInv, [Next]_vars PROVE [Stay]_vars
  <2> SUFFICES ASSUME obs' # obs, adapter', DaemonAlone', NEW h \in hints \ hints',
                      server.incarnation = h.incarnation, h.pane \in DOMAIN server.panes,
                      server.panes[h.pane].terminal = h.terminal
               PROVE  FALSE
    OBVIOUS
  <2>0. TypeOK /\ HintsMatchTheLedger /\ ServerInv /\ AloneInv
    BY <1>1 DEF IInv
  <2>1. PICK o \in Observers : Commits(o)
    BY <1>1, Steps DEF HintsGo
  <2> DEFINE s == obs[o].snapshot
  <2>2. /\ s \in Server /\ s.incarnation \in 1..server.incarnation /\ s.incarnation \in Int
        /\ hints' = (hints \ Withdrawn(s)) \cup NewHints(s, obs[o].baseline)
    BY <1>1, <2>1, CommitFacts, ServerTypes
  <2>3. DaemonAlone /\ Newest(s)
    BY <1>1, <2>1, AloneCommits
  <2> HIDE DEF s
  <2>4. h \in Withdrawn(s)
    BY <2>2
  <2>5. /\ h.incarnation = binding.incarnation /\ h.pane \in DOMAIN ledger
        /\ ledger[h.pane].terminal = h.terminal
    BY <2>0 DEF HintsMatchTheLedger
  <2>6. s.incarnation = binding.incarnation
    <3>1. binding.incarnation <= s.incarnation /\ binding.incarnation \in Int
          /\ server.incarnation \in Int
      BY <2>0, <2>3, BindingTypes, ServerTypes DEF Newest, TypeOK
    <3> QED
      BY <2>2, <2>5, <3>1
  <2>7. h.pane \in DOMAIN s.panes /\ s.panes[h.pane].terminal = ledger[h.pane].terminal
    BY <2>3, <2>5 DEF Newest, Holds
  <2>8. s.panes[h.pane].sequence < ledger[h.pane].sequence
    BY <2>4, <2>5, <2>6, <2>7 DEF Withdrawn, Comparable, Initial
  <2>9. /\ ledger[h.pane].sequence = observed[ledger[h.pane].terminal]
        /\ observed[s.panes[h.pane].terminal] <= s.panes[h.pane].sequence
    BY <2>0, <2>3, <2>5, <2>7 DEF AloneInv, Newest
  <2>10. s.panes[h.pane].sequence \in Int /\ ledger[h.pane].sequence \in Int
    BY <2>0, <2>2, <2>5, <2>7, ServerTypes, PaneTypes, RowTypes DEF TypeOK
  <2> QED
    BY <2>7, <2>8, <2>9, <2>10
<1> QED
  BY <1>1, Inductive, PTL DEF Spec, HintsStayWhileCurrent
==============================================================================
