----------------------------- MODULE EventQueue ------------------------------
(***************************************************************************)
(* The durable event queue of the notification agent: the rows of the      *)
(* SQLite table pending_events and the statements that internal/agent/     *)
(* queue.go runs on them.  Each operator is one statement, or the ones a   *)
(* transaction runs together; a queue is a function from the ids of the    *)
(* rows to the rows.                                                       *)
(*                                                                         *)
(* An event id determines the body of its row (a fresh UUID, or a hash of  *)
(* the request it names), so the source and session columns, which         *)
(* enqueueEvent derives from the body, are functions of the id.            *)
(***************************************************************************)
EXTENDS Integers, FiniteSets, Functions, FiniteSetsExt

CONSTANTS
    EventIds,      \* ids an event can have
    SourceOf,      \* the source of the event an id names
    SessionOf,     \* the Herdr session of that event, NoSession for Codex
    NoSession,
    Backends,      \* endpoints, as the column "backend" spells them
    NoBackend,     \* the empty string in that column
    CodexLife,     \* lifetime of a Codex row (7 days in the code)
    HintLife,      \* lifetime of a Herdr row (30 minutes)
    SessionCap,    \* Herdr rows kept of one session (50)
    HerdrCap,      \* Herdr rows kept (200)
    TotalCap       \* rows kept (500)

Sources == {"codex", "herdr"}

ASSUME SourceAssumption == SourceOf \in [EventIds -> Sources]
ASSUME LifeAssumption == CodexLife \in Nat \ {0} /\ HintLife \in Nat \ {0}
ASSUME CapAssumption == SessionCap \in Nat /\ HerdrCap \in Nat /\ TotalCap \in Nat
ASSUME BackendAssumption == NoBackend \notin Backends

Row == [backend: Backends \cup {NoBackend}, created: Nat, rowid: Nat,
        expires: Nat, next: Nat, attempts: Nat]

IsQueue(q) == /\ DOMAIN q \subseteq EventIds /\ IsFiniteSet(DOMAIN q)
              /\ q \in [DOMAIN q -> Row]

EmptyQueue == [i \in {} |-> <<>>]

------------------------------------------------------------------------------
HerdrRows(q) == {i \in DOMAIN q : SourceOf[i] = "herdr"}
CodexRows(q) == DOMAIN q \ HerdrRows(q)
SessionRows(q, s) == {i \in HerdrRows(q) : SessionOf[i] = s}

\* DELETE FROM pending_events WHERE event_id IN gone
Without(q, gone) == Restrict(q, DOMAIN q \ gone)

\* DELETE FROM pending_events WHERE expires_at <= t
Expired(q, t) == {i \in DOMAIN q : q[i].expires <= t}

\* ORDER BY created_at DESC, rowid DESC
Newer(q, i, j) == \/ q[i].created > q[j].created
                  \/ q[i].created = q[j].created /\ q[i].rowid > q[j].rowid

\* Mutant of Ahead: the order without the source, newest first.
AheadByAge(q, i, j) == Newer(q, i, j)

\* ... ORDER BY CASE source WHEN 'codex' THEN 0 ELSE 1 END, and then as above
Ahead(q, i, j) == \/ SourceOf[i] = "codex" /\ SourceOf[j] = "herdr"
                  \/ SourceOf[i] = SourceOf[j] /\ Newer(q, i, j)

\* Mutant of Overflow: OFFSET n + 1.
OverflowLate(q, ids, n) == {i \in ids : Cardinality({j \in ids : Newer(q, j, i)}) > n}

\* The rows of ids from the n-th on: LIMIT -1 OFFSET n.
Overflow(q, ids, n) == {i \in ids : Cardinality({j \in ids : Newer(q, j, i)}) >= n}
TotalOverflow(q) ==
    {i \in DOMAIN q : Cardinality({j \in DOMAIN q : Ahead(q, j, i)}) >= TotalCap}

------------------------------------------------------------------------------
\* SQLite gives a new row one more than the largest rowid in the table, so a
\* rowid is used again once the newest row is gone.
NextRowid(q) == Max({0} \cup {q[i].rowid : i \in DOMAIN q}) + 1

NewRow(q, id, t, backend) ==
    [backend |-> backend, created |-> t, rowid |-> NextRowid(q),
     expires |-> t + (IF SourceOf[id] = "codex" THEN CodexLife ELSE HintLife),
     next |-> t, attempts |-> 0]

\* INSERT OR IGNORE: a row that is already there stays as it is.
Insert(q, id, t, backend) ==
    [i \in DOMAIN q \cup {id} |-> IF i \in DOMAIN q THEN q[i] ELSE NewRow(q, id, t, backend)]

\* enqueueEvent: insert, then expire and trim, in the order of the code.
Enqueue(q, id, t, backend) ==
    LET inserted == Insert(q, id, t, backend)
        live     == Without(inserted, Expired(inserted, t))
        session  == Without(live, Overflow(live, SessionRows(live, SessionOf[id]), SessionCap))
        herdr    == Without(session, Overflow(session, HerdrRows(session), HerdrCap))
    IN  Without(herdr, TotalOverflow(herdr))

\* Mutant of BindRows: no WHERE backend = ''.
BindEveryRow(q, old, new) == [i \in DOMAIN q |-> [q[i] EXCEPT !.backend = new]]

\* ConfigureBackend's UPDATE: rows nobody has bound yet belong to the endpoint
\* configured so far (old), or to the new one when there is none.
BindRows(q, old, new) ==
    [i \in DOMAIN q |->
        IF q[i].backend = NoBackend
        THEN [q[i] EXCEPT !.backend = IF old = NoBackend THEN new ELSE old]
        ELSE q[i]]

------------------------------------------------------------------------------
\* Mutant of Due: Next instead of NextForBackend.
DueAnywhere(q, t, backend) == {i \in DOMAIN q : q[i].next <= t /\ q[i].expires > t}

\* The rows NextForBackend may return at time t.
Due(q, t, backend) ==
    {i \in DOMAIN q : q[i].next <= t /\ q[i].expires > t /\ q[i].backend = backend}

\* Its choice: the other source first, and then the oldest row.
IsNext(q, due, last, i) ==
    /\ i \in due
    /\ \A j \in due \ {i} :
          \/ SourceOf[i] # last /\ SourceOf[j] = last
          \/ (SourceOf[i] = last) = (SourceOf[j] = last) /\ Newer(q, j, i)

\* Retry's UPDATE, which finds no row when the row has gone.
Postpone(q, id, attempts, next) ==
    [i \in DOMAIN q |-> IF i = id THEN [q[i] EXCEPT !.attempts = attempts, !.next = next]
                        ELSE q[i]]
==============================================================================
