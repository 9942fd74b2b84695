------------------------- MODULE QueueDeliveryProofs -------------------------
(***************************************************************************)
(* What holds of QueueDelivery for any events, endpoints, caps, lifetimes  *)
(* and bounds: its types, that an event stays with, and is sent to, a      *)
(* backend it was captured for, its caps, that it implements Outbox, and   *)
(* how Codex's events leave it.  First, what the operators of EventQueue   *)
(* promise: every statement on the table yields a table, deletions change  *)
(* no row that stays, an enqueue adds at most its own row, and binding and *)
(* postponing keep all the others.                                         *)
(***************************************************************************)
EXTENDS QueueDelivery, FiniteSetTheorems, TLAPS

------------------------------------------------------------------------------
(* The queue. *)

\* The relation R is a strict order on the set S, and it compares any two.
IsStrictOrder(R, S) ==
    /\ \A x \in S : <<x, x>> \notin R
    /\ \A x, y, z \in S : <<x, y>> \in R /\ <<y, z>> \in R => <<x, z>> \in R
IsTotal(R, S) == \A x, y \in S : x = y \/ <<x, y>> \in R \/ <<y, x>> \in R

\* A strict order on a finite nonempty set has a minimal element.
LEMMA FiniteOrderMinimum ==
  ASSUME NEW S, IsFiniteSet(S), S # {},
         NEW R, IsStrictOrder(R, S)
  PROVE  \E x \in S : \A y \in S : <<y, x>> \notin R
<1> DEFINE Below(x) == {y \in S : <<y, x>> \in R}
           T == {Below(x) : x \in S}
<1>1. T \subseteq FiniteSubsetsOf(S) /\ T # {}
  <2>1. \A x \in S : Below(x) \in SUBSET S
    OBVIOUS
  <2>2. \A x \in S : IsFiniteSet(Below(x))
    <3> HIDE DEF Below
    <3> QED BY <2>1, FS_Subset
  <2> HIDE DEF Below
  <2> QED BY <2>1, <2>2 DEF FiniteSubsetsOf
<1>2. PICK b \in T : \A c \in T : <<c, b>> \notin StrictSubsetOrdering(S)
  BY <1>1, FS_StrictSubsetOrderingWellFounded, WFMin
<1>3. PICK x \in S : b = Below(x)
  BY <1>2
<1>4. SUFFICES ASSUME NEW y \in S, <<y, x>> \in R
               PROVE  FALSE
  OBVIOUS
<1>5. Below(y) \subseteq Below(x) /\ y \in Below(x) /\ y \notin Below(y)
  BY <1>4 DEF IsStrictOrder
<1>6. Below(y) \in T /\ Below(x) \subseteq S /\ Below(y) \subseteq S
  OBVIOUS
<1>7. <<Below(y), Below(x)>> \in StrictSubsetOrdering(S)
  BY <1>5, <1>6 DEF StrictSubsetOrdering
<1> QED
  BY <1>2, <1>3, <1>6, <1>7

\* ... and, as the reverse of the order is one too, a maximal element.
LEMMA FiniteOrderMaximum ==
  ASSUME NEW S, IsFiniteSet(S), S # {},
         NEW R, IsStrictOrder(R, S)
  PROVE  \E x \in S : \A y \in S : <<x, y>> \notin R
<1> DEFINE Q == {p \in S \X S : <<p[2], p[1]>> \in R}
<1>1. IsStrictOrder(Q, S)
  BY DEF IsStrictOrder
<1>2. PICK x \in S : \A y \in S : <<y, x>> \notin Q
  <2> HIDE DEF Q
  <2> QED BY <1>1, FiniteOrderMinimum
<1> QED
  BY <1>2

\* A finite nonempty set of naturals has a maximum, which Max returns.
LEMMA MaxOfNaturals ==
  ASSUME NEW S, S \subseteq Nat, IsFiniteSet(S), S # {}
  PROVE  Max(S) \in S /\ \A x \in S : x <= Max(S)
<1> DEFINE R == {p \in S \X S : p[1] > p[2]}
<1>1. IsStrictOrder(R, S)
  BY DEF IsStrictOrder
<1>2. PICK x \in S : \A y \in S : <<y, x>> \notin R
  <2> HIDE DEF R
  <2> QED BY <1>1, FiniteOrderMinimum
<1>3. \A y \in S : x >= y
  <2> TAKE y \in S
  <2>1. ~ (y > x)
    BY <1>2
  <2>2. x \in Nat /\ y \in Nat
    OBVIOUS
  <2> QED BY <2>1, <2>2
<1> QED
  BY <1>3 DEF Max

\* The new rowid is a number above every rowid in the table.
LEMMA NextRowidType ==
  ASSUME NEW q, IsQueue(q)
  PROVE  /\ NextRowid(q) \in Nat
         /\ \A i \in DOMAIN q : q[i].rowid < NextRowid(q)
<1> DEFINE S == {0} \cup {q[i].rowid : i \in DOMAIN q}
<1>1. S \subseteq Nat /\ S # {}
  BY DEF IsQueue, Row
<1>2. IsFiniteSet(S)
  <2>1. IsFiniteSet({q[i].rowid : i \in DOMAIN q})
    <3> DEFINE rowidOf == [i \in DOMAIN q |-> q[i].rowid]
               image == {q[i].rowid : i \in DOMAIN q}
    <3>1. rowidOf \in Surjection(DOMAIN q, image)
      BY DEF Surjection
    <3> HIDE DEF rowidOf, image
    <3>2. IsFiniteSet(image)
      BY <3>1, FS_Surjection DEF IsQueue, ExistsSurjection
    <3> QED BY <3>2 DEF image
  <2>2. IsFiniteSet({0})
    BY FS_Singleton
  <2> QED BY <2>1, <2>2, FS_Union
<1>3. Max(S) \in S /\ \A x \in S : x <= Max(S)
  <2> HIDE DEF S
  <2> QED BY <1>1, <1>2, MaxOfNaturals
<1>4. NextRowid(q) = Max(S) + 1
  BY DEF NextRowid
<1>5. \A i \in DOMAIN q : q[i].rowid \in S
  OBVIOUS
<1> HIDE DEF S
<1>6. PICK m \in S : m = Max(S) /\ \A x \in S : x <= m
  BY <1>3
<1>7. m \in Nat /\ NextRowid(q) = m + 1
  BY <1>1, <1>4, <1>6
<1>8. ASSUME NEW i \in DOMAIN q
      PROVE  q[i].rowid < m + 1
  <2>1. q[i].rowid \in Nat /\ q[i].rowid <= m
    BY <1>1, <1>5, <1>6
  <2> QED BY <2>1, <1>7
<1> QED
  BY <1>7, <1>8

\* r is the queue q less some of its rows.
IsTrimOf(r, q) == /\ IsQueue(q) => IsQueue(r)
                  /\ DOMAIN r \subseteq DOMAIN q
                  /\ \A i \in DOMAIN r : r[i] = q[i]

\* r has no rows but some of q, as they were, and that of id, bound to backend.
IsEnqueueOf(r, q, id, backend) ==
    /\ IsQueue(r)
    /\ DOMAIN r \subseteq DOMAIN q \cup {id}
    /\ \A i \in DOMAIN r : /\ i \in DOMAIN q => r[i] = q[i]
                           /\ i \notin DOMAIN q => r[i].backend = backend

\* A deletion leaves the other rows as they were.
LEMMA WithoutTrims ==
  ASSUME NEW q, NEW gone
  PROVE  IsTrimOf(Without(q, gone), q)
<1>1. DOMAIN Without(q, gone) = DOMAIN q \ gone
  BY DEF Without, Restrict
<1>2. IsFiniteSet(DOMAIN q) => IsFiniteSet(DOMAIN q \ gone)
  BY FS_Subset
<1> QED
  BY <1>1, <1>2 DEF IsTrimOf, IsQueue, Without, Restrict

\* Trims compose, and a trim after an enqueue is an enqueue still.
LEMMA TrimAfterTrim ==
  ASSUME NEW p, NEW q, NEW r, IsTrimOf(p, q), IsTrimOf(r, p)
  PROVE  IsTrimOf(r, q)
BY DEF IsTrimOf

LEMMA TrimAfterEnqueue ==
  ASSUME NEW p, NEW q, NEW r, NEW id, NEW backend,
         IsEnqueueOf(p, q, id, backend), IsTrimOf(r, p)
  PROVE  IsEnqueueOf(r, q, id, backend)
BY DEF IsTrimOf, IsEnqueueOf

\* An insertion changes no row that is there, and its own row is new.
LEMMA InsertEnqueues ==
  ASSUME NEW q, IsQueue(q), NEW id \in EventIds, NEW t \in Nat,
         NEW backend \in Backends \cup {NoBackend}
  PROVE  IsEnqueueOf(Insert(q, id, t, backend), q, id, backend)
<1> DEFINE r == Insert(q, id, t, backend)
<1>1. DOMAIN r = DOMAIN q \cup {id}
  BY DEF Insert
<1>2. IsFiniteSet(DOMAIN r)
  BY <1>1, FS_AddElement DEF IsQueue
<1>3. NewRow(q, id, t, backend) \in Row
  BY NextRowidType, LifeAssumption DEF NewRow, Row
<1>4. \A i \in DOMAIN r : r[i] \in Row
  BY <1>3 DEF Insert, IsQueue
<1>5. r = [i \in DOMAIN r |-> r[i]]
  BY DEF Insert
<1>6. r \in [DOMAIN r -> Row]
  <2> HIDE DEF r
  <2> QED BY <1>4, <1>5
<1>7. \A i \in DOMAIN q : r[i] = q[i]
  BY DEF Insert
<1>8. \A i \in DOMAIN r : i \notin DOMAIN q => r[i].backend = backend
  BY DEF Insert, NewRow
<1>9. IsEnqueueOf(r, q, id, backend)
  <2> HIDE DEF r
  <2> QED BY <1>1, <1>2, <1>6, <1>7, <1>8 DEF IsEnqueueOf, IsQueue
<1> QED
  BY <1>9

\* So does enqueueEvent as a whole: what it expires and trims, it deletes.
LEMMA EnqueueEnqueues ==
  ASSUME NEW q, IsQueue(q), NEW id \in EventIds, NEW t \in Nat,
         NEW backend \in Backends \cup {NoBackend}
  PROVE  IsEnqueueOf(Enqueue(q, id, t, backend), q, id, backend)
<1> DEFINE inserted == Insert(q, id, t, backend)
           live     == Without(inserted, Expired(inserted, t))
           session  == Without(live, Overflow(live, SessionRows(live, SessionOf[id]), SessionCap))
           herdr    == Without(session, Overflow(session, HerdrRows(session), HerdrCap))
           r        == Without(herdr, TotalOverflow(herdr))
<1>1. r = Enqueue(q, id, t, backend)
  BY DEF Enqueue
<1>2. IsEnqueueOf(inserted, q, id, backend)
  BY InsertEnqueues
<1>3. /\ IsTrimOf(live, inserted) /\ IsTrimOf(session, live)
      /\ IsTrimOf(herdr, session) /\ IsTrimOf(r, herdr)
  BY WithoutTrims
<1> HIDE DEF inserted, live, session, herdr, r
<1>4. IsTrimOf(r, inserted)
  BY <1>3, TrimAfterTrim
<1>5. IsEnqueueOf(r, q, id, backend)
  BY <1>2, <1>4, TrimAfterEnqueue
<1> QED
  BY <1>1, <1>5

\* r is q with its unbound rows bound to backend.
IsBindOf(r, q, backend) ==
    /\ IsQueue(r) /\ DOMAIN r = DOMAIN q
    /\ \A i \in DOMAIN q : r[i].backend =
          IF q[i].backend = NoBackend THEN backend ELSE q[i].backend
    /\ \A i \in DOMAIN q : r[i].rowid = q[i].rowid

\* Binding gives every unbound row a backend and changes no other.
LEMMA BindRowsBinds ==
  ASSUME NEW q, IsQueue(q), NEW old \in Backends \cup {NoBackend}, NEW new \in Backends
  PROVE  IsBindOf(BindRows(q, old, new), q, IF old = NoBackend THEN new ELSE old)
<1> DEFINE r == BindRows(q, old, new)
<1>1. DOMAIN r = DOMAIN q /\ r = [i \in DOMAIN q |-> r[i]]
  BY DEF BindRows
<1>2. \A i \in DOMAIN q : q[i] \in Row
  BY DEF IsQueue
<1>3. \A i \in DOMAIN q : r[i] \in Row
  BY <1>2 DEF BindRows, Row
<1>4. \A i \in DOMAIN q : r[i].backend =
          IF q[i].backend = NoBackend THEN IF old = NoBackend THEN new ELSE old
          ELSE q[i].backend
  BY <1>2 DEF BindRows, Row
<1>5. \A i \in DOMAIN q : r[i].rowid = q[i].rowid
  BY <1>2 DEF BindRows, Row
<1>6. IsBindOf(r, q, IF old = NoBackend THEN new ELSE old)
  <2> HIDE DEF r
  <2> QED BY <1>1, <1>3, <1>4, <1>5 DEF IsBindOf, IsQueue
<1> QED
  BY <1>6

\* r is q, but for how often and when one row is tried.
IsPostponeOf(r, q) ==
    /\ IsQueue(r) /\ DOMAIN r = DOMAIN q
    /\ \A i \in DOMAIN q : r[i].backend = q[i].backend /\ r[i].rowid = q[i].rowid

\* A postponement changes no row's backend.
LEMMA PostponePostpones ==
  ASSUME NEW q, IsQueue(q), NEW id, NEW attempts \in Nat, NEW next \in Nat
  PROVE  IsPostponeOf(Postpone(q, id, attempts, next), q)
<1> DEFINE r == Postpone(q, id, attempts, next)
<1>1. DOMAIN r = DOMAIN q /\ r = [i \in DOMAIN q |-> r[i]]
  BY DEF Postpone
<1>2. \A i \in DOMAIN q : q[i] \in Row
  BY DEF IsQueue
<1>3. \A i \in DOMAIN q : /\ r[i] \in Row
                           /\ r[i].backend = q[i].backend /\ r[i].rowid = q[i].rowid
  BY <1>2 DEF Postpone, Row
<1>4. IsPostponeOf(r, q)
  <2> HIDE DEF r
  <2> QED BY <1>1, <1>3 DEF IsPostponeOf, IsQueue
<1> QED
  BY <1>4

------------------------------------------------------------------------------
(* What the trims of enqueueEvent keep: the first rows of an order. *)

\* The elements of S with fewer than n before them.
FirstOf(R, S, n) == {i \in S : Cardinality({j \in S : <<j, i>> \in R}) < n}

\* In a strict total order on a finite set they are at most n.  If there are
\* others, they are n, and come before all of these.
LEMMA FirstElements ==
  ASSUME NEW S, IsFiniteSet(S), NEW n \in Nat,
         NEW R, IsStrictOrder(R, S), IsTotal(R, S)
  PROVE  /\ Cardinality(FirstOf(R, S, n)) <= n
         /\ FirstOf(R, S, n) # S => Cardinality(FirstOf(R, S, n)) = n
         /\ \A k \in FirstOf(R, S, n), i \in S \ FirstOf(R, S, n) : <<k, i>> \in R
<1> DEFINE Before(x) == {j \in S : <<j, x>> \in R}
           first == FirstOf(R, S, n)
           others == S \ first
<1>1. \A x \in S : /\ Before(x) \subseteq S /\ IsFiniteSet(Before(x))
                   /\ Cardinality(Before(x)) \in Nat
  <2>1. \A x \in S : Before(x) \subseteq S
    OBVIOUS
  <2> HIDE DEF Before
  <2> QED BY <2>1, FS_Subset, FS_CardinalityType
<1>2. first \subseteq S /\ \A x \in S : x \in first <=> Cardinality(Before(x)) < n
  BY DEF FirstOf
<1> HIDE DEF first
<1>3. IsFiniteSet(first) /\ Cardinality(first) \in Nat
  BY <1>2, FS_Subset, FS_CardinalityType
<1>4. Cardinality(first) <= n
  <2>1. CASE first = {}
    <3>1. Cardinality(first) = 0
      BY <2>1, FS_EmptySet, Zenon
    <3> QED BY <3>1
  <2>2. CASE first # {}
    <3>1. IsStrictOrder(R, first)
      BY <1>2 DEF IsStrictOrder
    <3>2. PICK x \in first : \A y \in first : <<x, y>> \notin R
      BY <1>3, <2>2, <3>1, FiniteOrderMaximum
    <3>3. \A y \in first : y = x \/ y \in Before(x)
      BY <1>2, <3>2 DEF IsTotal
    <3>4. x \notin Before(x) /\ x \in S
      BY <1>2 DEF IsStrictOrder
    <3> HIDE DEF Before
    <3>5. /\ IsFiniteSet(Before(x) \cup {x})
          /\ Cardinality(Before(x) \cup {x}) = Cardinality(Before(x)) + 1
      BY <1>1, <3>4, FS_AddElement
    <3>6. Cardinality(first) <= Cardinality(Before(x) \cup {x})
      BY <3>3, <3>5, FS_Subset
    <3> QED BY <1>1, <1>2, <1>3, <3>4, <3>5, <3>6
  <2> QED BY <2>1, <2>2
<1>5. ASSUME first # S
      PROVE  Cardinality(first) >= n
  <2>1. IsFiniteSet(others) /\ others # {}
    BY <1>2, <1>5, FS_Subset
  <2>2. IsStrictOrder(R, others)
    BY DEF IsStrictOrder
  <2>3. PICK m \in others : \A y \in others : <<y, m>> \notin R
    <3> HIDE DEF others
    <3> QED BY <2>1, <2>2, FiniteOrderMinimum
  <2>4. Before(m) \subseteq first
    BY <2>3
  <2> HIDE DEF Before
  <2>5. Cardinality(Before(m)) <= Cardinality(first)
    BY <1>3, <2>4, FS_Subset
  <2> QED BY <1>1, <1>2, <1>3, <2>3, <2>5
<1>6. ASSUME NEW k \in first, NEW i \in others
      PROVE  <<k, i>> \in R
  <2>1. SUFFICES ASSUME <<i, k>> \in R PROVE FALSE
    BY <1>2 DEF IsTotal
  <2>2. Before(i) \subseteq Before(k)
    BY <1>2, <2>1 DEF IsStrictOrder
  <2> HIDE DEF Before
  <2>3. Cardinality(Before(i)) <= Cardinality(Before(k))
    BY <1>1, <1>2, <2>2, FS_Subset
  <2> QED BY <1>1, <1>2, <2>3
<1>7. /\ Cardinality(first) <= n
      /\ first # S => Cardinality(first) = n
      /\ \A k \in first, i \in S \ first : <<k, i>> \in R
  BY <1>3, <1>4, <1>5, <1>6
<1> QED
  BY <1>7 DEF first

\* No two rows have the same rowid.
Numbered(q) == \A i, j \in DOMAIN q : q[i].rowid = q[j].rowid => i = j

\* Newest first is a strict total order then, and so is Codex rows first.
LEMMA NewerOrders ==
  ASSUME NEW q, IsQueue(q), Numbered(q)
  PROVE  /\ \A x \in DOMAIN q : ~Newer(q, x, x)
         /\ \A x, y, z \in DOMAIN q : Newer(q, x, y) /\ Newer(q, y, z) => Newer(q, x, z)
         /\ \A x, y \in DOMAIN q : x = y \/ Newer(q, x, y) \/ Newer(q, y, x)
<1>1. \A x \in DOMAIN q : q[x].created \in Nat /\ q[x].rowid \in Nat
  BY DEF IsQueue, Row
<1> QED
  BY <1>1 DEF Newer, Numbered

LEMMA AheadOrders ==
  ASSUME NEW q, IsQueue(q), Numbered(q)
  PROVE  /\ \A x \in DOMAIN q : ~Ahead(q, x, x)
         /\ \A x, y, z \in DOMAIN q : Ahead(q, x, y) /\ Ahead(q, y, z) => Ahead(q, x, z)
         /\ \A x, y \in DOMAIN q : x = y \/ Ahead(q, x, y) \/ Ahead(q, y, x)
<1>1. \A x \in DOMAIN q : SourceOf[x] \in {"codex", "herdr"}
  BY SourceAssumption DEF IsQueue, Sources
<1>2. /\ \A x \in DOMAIN q : ~Newer(q, x, x)
      /\ \A x, y, z \in DOMAIN q : Newer(q, x, y) /\ Newer(q, y, z) => Newer(q, x, z)
      /\ \A x, y \in DOMAIN q : x = y \/ Newer(q, x, y) \/ Newer(q, y, x)
  BY NewerOrders
<1> QED
  BY <1>1, <1>2 DEF Ahead

\* A trim by age leaves at most the n rows of ids that OFFSET n spares.
LEMMA OverflowSpares ==
  ASSUME NEW q, IsQueue(q), Numbered(q), NEW ids, ids \subseteq DOMAIN q, NEW n \in Nat
  PROVE  Cardinality(ids \ Overflow(q, ids, n)) <= n
<1> DEFINE R == {p \in ids \X ids : Newer(q, p[1], p[2])}
           Before(i) == {j \in ids : <<j, i>> \in R}
<1>1. \A i \in ids : Before(i) \subseteq ids /\ {j \in ids : Newer(q, j, i)} = Before(i)
  OBVIOUS
<1>2. IsStrictOrder(R, ids) /\ IsTotal(R, ids)
  BY NewerOrders DEF IsStrictOrder, IsTotal
<1>3. IsFiniteSet(ids)
  BY FS_Subset DEF IsQueue
<1>4. ids \ Overflow(q, ids, n) = FirstOf(R, ids, n)
  <2>1. \A i \in ids : /\ Cardinality(Before(i)) \in Nat
                       /\ i \in Overflow(q, ids, n) <=> Cardinality(Before(i)) >= n
    <3>1. \A i \in ids : i \in Overflow(q, ids, n) <=> Cardinality(Before(i)) >= n
      BY <1>1 DEF Overflow
    <3> HIDE DEF Before
    <3> QED BY <1>1, <1>3, <3>1, FS_Subset, FS_CardinalityType
  <2>2. FirstOf(R, ids, n) = {i \in ids : Cardinality(Before(i)) < n}
    BY DEF FirstOf
  <2> HIDE DEF R, Before
  <2> QED BY <2>1, <2>2
<1> HIDE DEF R
<1> QED
  BY <1>2, <1>3, <1>4, FirstElements

\* So does the last trim, which takes Codex rows only when it leaves nothing else.
LEMMA TotalOverflowSpares ==
  ASSUME NEW q, IsQueue(q), Numbered(q),
         NEW left, left = DOMAIN q \ TotalOverflow(q)
  PROVE  /\ Cardinality(left) <= TotalCap
         /\ \A i \in TotalOverflow(q) : SourceOf[i] = "codex" =>
               Cardinality(left) = TotalCap /\ \A k \in left : SourceOf[k] = "codex"
<1> DEFINE D == DOMAIN q
           R == {p \in D \X D : Ahead(q, p[1], p[2])}
           Before(i) == {j \in D : <<j, i>> \in R}
           first == FirstOf(R, D, TotalCap)
<1>1. \A i \in D : Before(i) \subseteq D /\ {j \in D : Ahead(q, j, i)} = Before(i)
  OBVIOUS
<1>2. IsStrictOrder(R, D) /\ IsTotal(R, D)
  BY AheadOrders DEF IsStrictOrder, IsTotal
<1>3. IsFiniteSet(D) /\ TotalCap \in Nat
  BY CapAssumption DEF IsQueue
<1>4. left = first
  <2>1. \A i \in D : /\ Cardinality(Before(i)) \in Nat
                     /\ i \in TotalOverflow(q) <=> Cardinality(Before(i)) >= TotalCap
    <3>1. \A i \in D : i \in TotalOverflow(q) <=> Cardinality(Before(i)) >= TotalCap
      BY <1>1 DEF TotalOverflow
    <3> HIDE DEF Before, D
    <3> QED BY <1>1, <1>3, <3>1, FS_Subset, FS_CardinalityType
  <2>2. first = {i \in D : Cardinality(Before(i)) < TotalCap}
    BY DEF FirstOf
  <2> HIDE DEF R, Before, first
  <2> QED BY <1>3, <2>1, <2>2
<1>5. /\ Cardinality(first) <= TotalCap
      /\ first # D => Cardinality(first) = TotalCap
      /\ \A k \in first, i \in D \ first : <<k, i>> \in R
  <2> HIDE DEF R, D
  <2> QED BY <1>2, <1>3, FirstElements
<1>6. \A i \in TotalOverflow(q) : i \in D \ first
  BY <1>4 DEF TotalOverflow
<1> HIDE DEF first
<1>7. \A k \in first, i \in D \ first : Ahead(q, k, i)
  BY <1>5
<1> HIDE DEF D, R
<1> QED
  BY <1>4, <1>5, <1>6, <1>7 DEF Ahead

\* The Herdr rows of each session and of all sessions are within their caps.
HerdrCapped(q) ==
    /\ \A s \in {SessionOf[i] : i \in HerdrRows(q)} :
          Cardinality(SessionRows(q, s)) <= SessionCap
    /\ Cardinality(HerdrRows(q)) <= HerdrCap

\* A deletion leaves a table within its caps, and its rowids different.
LEMMA TrimCapped ==
  ASSUME NEW q, IsQueue(q), NEW r, IsTrimOf(r, q)
  PROVE  /\ HerdrCapped(q) => HerdrCapped(r)
         /\ Numbered(q) => Numbered(r)
<1>1. /\ DOMAIN r \subseteq DOMAIN q /\ IsFiniteSet(DOMAIN q)
      /\ \A i \in DOMAIN r : r[i] = q[i]
  BY DEF IsTrimOf, IsQueue
<1>2. Numbered(q) => Numbered(r)
  BY <1>1 DEF Numbered
<1>3. /\ HerdrRows(r) \subseteq HerdrRows(q) /\ HerdrRows(q) \subseteq DOMAIN q
      /\ \A s : SessionRows(r, s) \subseteq SessionRows(q, s)
      /\ \A s : SessionRows(q, s) \subseteq DOMAIN q
  BY <1>1 DEF HerdrRows, SessionRows
<1>4. /\ Cardinality(HerdrRows(r)) <= Cardinality(HerdrRows(q))
      /\ Cardinality(HerdrRows(r)) \in Nat /\ Cardinality(HerdrRows(q)) \in Nat
  BY <1>1, <1>3, FS_Subset, FS_CardinalityType
<1>5. \A s : /\ Cardinality(SessionRows(r, s)) <= Cardinality(SessionRows(q, s))
             /\ Cardinality(SessionRows(r, s)) \in Nat
             /\ Cardinality(SessionRows(q, s)) \in Nat
  BY <1>1, <1>3, FS_Subset, FS_CardinalityType
<1>6. {SessionOf[i] : i \in HerdrRows(r)} \subseteq {SessionOf[i] : i \in HerdrRows(q)}
  BY <1>3
<1> QED
  BY <1>2, <1>4, <1>5, <1>6, CapAssumption DEF HerdrCapped

\* A new row gets a rowid of its own.
LEMMA InsertNumbers ==
  ASSUME NEW q, IsQueue(q), Numbered(q), NEW id \in EventIds, NEW t, NEW backend
  PROVE  Numbered(Insert(q, id, t, backend))
<1> DEFINE r == Insert(q, id, t, backend)
<1>1. DOMAIN r = DOMAIN q \cup {id} /\ \A i \in DOMAIN q : r[i] = q[i]
  BY DEF Insert
<1>2. id \notin DOMAIN q => r[id].rowid = NextRowid(q)
  BY DEF Insert, NewRow
<1>3. NextRowid(q) \in Nat /\ \A i \in DOMAIN q : q[i].rowid < NextRowid(q)
  BY NextRowidType, Zenon
<1>4. \A i \in DOMAIN q : q[i].rowid \in Nat
  BY DEF IsQueue, Row
<1> HIDE DEF r
<1>5. Numbered(r)
  BY <1>1, <1>2, <1>3, <1>4 DEF Numbered
<1> QED
  BY <1>5 DEF r

\* After enqueueEvent every cap holds; and a Codex row it deletes has expired,
\* or gives way to as many Codex rows as the table may hold.
LEMMA EnqueueKeepsCaps ==
  ASSUME NEW q, IsQueue(q), Numbered(q), HerdrCapped(q), NEW id \in EventIds, NEW t \in Nat,
         NEW backend \in Backends \cup {NoBackend},
         NEW r, r = Enqueue(q, id, t, backend)
  PROVE  /\ Numbered(r) /\ HerdrCapped(r) /\ Cardinality(DOMAIN r) <= TotalCap
         /\ \A i \in CodexRows(q) \ DOMAIN r :
               q[i].expires <= t \/ Cardinality(CodexRows(r)) = TotalCap
<1> DEFINE inserted == Insert(q, id, t, backend)
           live     == Without(inserted, Expired(inserted, t))
           session  == Without(live, Overflow(live, SessionRows(live, SessionOf[id]), SessionCap))
           herdr    == Without(session, Overflow(session, HerdrRows(session), HerdrCap))
<1>1. r = Without(herdr, TotalOverflow(herdr))
  BY DEF Enqueue
<1>2. IsQueue(inserted) /\ Numbered(inserted)
  <2>1. IsEnqueueOf(inserted, q, id, backend)
    BY InsertEnqueues
  <2> QED BY <2>1, InsertNumbers DEF IsEnqueueOf
<1>3. DOMAIN inserted = DOMAIN q \cup {id} /\ \A i \in DOMAIN q : inserted[i] = q[i]
  BY DEF Insert
<1>4. /\ DOMAIN live = DOMAIN inserted \ Expired(inserted, t)
      /\ DOMAIN session = DOMAIN live \ Overflow(live, SessionRows(live, SessionOf[id]), SessionCap)
      /\ DOMAIN herdr = DOMAIN session \ Overflow(session, HerdrRows(session), HerdrCap)
      /\ DOMAIN r = DOMAIN herdr \ TotalOverflow(herdr)
  BY <1>1 DEF Without, Restrict
<1>5. /\ IsTrimOf(live, inserted) /\ IsTrimOf(session, live)
      /\ IsTrimOf(herdr, session) /\ IsTrimOf(r, herdr)
  BY <1>1, WithoutTrims
<1>6. Expired(inserted, t) = {i \in DOMAIN inserted : inserted[i].expires <= t}
  BY DEF Expired
<1> HIDE DEF inserted, live, session, herdr
<1>7. /\ IsQueue(live) /\ Numbered(live) /\ IsQueue(session) /\ Numbered(session)
      /\ IsQueue(herdr) /\ Numbered(herdr) /\ IsQueue(r) /\ Numbered(r)
  BY <1>2, <1>5, TrimCapped DEF IsTrimOf
<1>8. SessionCap \in Nat /\ HerdrCap \in Nat /\ TotalCap \in Nat
  BY CapAssumption
<1>9. /\ HerdrRows(herdr) = HerdrRows(session) \ Overflow(session, HerdrRows(session), HerdrCap)
      /\ SessionRows(session, SessionOf[id])
            = SessionRows(live, SessionOf[id])
                \ Overflow(live, SessionRows(live, SessionOf[id]), SessionCap)
  BY <1>4 DEF HerdrRows, SessionRows, Overflow
<1>10. Cardinality(HerdrRows(herdr)) <= HerdrCap
  <2>1. HerdrRows(session) \subseteq DOMAIN session
    BY DEF HerdrRows
  <2> QED BY <1>7, <1>8, <1>9, <2>1, OverflowSpares
<1>11. ASSUME NEW s \in {SessionOf[i] : i \in HerdrRows(herdr)}
       PROVE  Cardinality(SessionRows(herdr, s)) <= SessionCap
  <2>1. /\ SessionRows(herdr, s) \subseteq SessionRows(session, s)
        /\ SessionRows(session, s) \subseteq DOMAIN session
    BY <1>4 DEF HerdrRows, SessionRows
  <2>2. /\ Cardinality(SessionRows(herdr, s)) <= Cardinality(SessionRows(session, s))
        /\ Cardinality(SessionRows(herdr, s)) \in Nat
        /\ Cardinality(SessionRows(session, s)) \in Nat
    BY <1>7, <2>1, FS_Subset, FS_CardinalityType DEF IsQueue
  <2>3. CASE s = SessionOf[id]
    <3>1. SessionRows(live, s) \subseteq DOMAIN live
      BY DEF HerdrRows, SessionRows
    <3>2. Cardinality(SessionRows(session, s)) <= SessionCap
      BY <1>7, <1>8, <1>9, <2>3, <3>1, OverflowSpares
    <3> QED BY <1>8, <2>2, <3>2
  <2>4. CASE s # SessionOf[id]
    <3>1. SessionRows(herdr, s) \subseteq SessionRows(q, s)
      BY <1>3, <1>4, <2>4 DEF HerdrRows, SessionRows
    <3>2. s \in {SessionOf[i] : i \in HerdrRows(q)}
      BY <1>3, <1>4, <2>4 DEF HerdrRows
    <3>3. IsFiniteSet(SessionRows(q, s))
      BY FS_Subset DEF IsQueue, HerdrRows, SessionRows
    <3>4. /\ Cardinality(SessionRows(herdr, s)) <= Cardinality(SessionRows(q, s))
          /\ Cardinality(SessionRows(q, s)) \in Nat
      BY <3>1, <3>3, FS_Subset, FS_CardinalityType
    <3>5. Cardinality(SessionRows(q, s)) <= SessionCap
      BY <3>2 DEF HerdrCapped
    <3> QED BY <1>8, <2>2, <3>4, <3>5
  <2> QED BY <2>3, <2>4
<1>12. HerdrCapped(r)
  <2>1. HerdrCapped(herdr)
    BY <1>10, <1>11 DEF HerdrCapped
  <2> QED BY <1>5, <1>7, <2>1, TrimCapped
<1>13. /\ Cardinality(DOMAIN r) <= TotalCap
       /\ \A i \in TotalOverflow(herdr) : SourceOf[i] = "codex" =>
             Cardinality(DOMAIN r) = TotalCap /\ \A k \in DOMAIN r : SourceOf[k] = "codex"
  BY <1>4, <1>7, TotalOverflowSpares
<1>14. ASSUME NEW i \in CodexRows(q) \ DOMAIN r, ~(q[i].expires <= t)
       PROVE  Cardinality(CodexRows(r)) = TotalCap
  <2>1. i \in DOMAIN q /\ SourceOf[i] # "herdr"
    BY DEF CodexRows, HerdrRows
  <2>2. SourceOf[i] = "codex"
    BY <2>1, SourceAssumption DEF IsQueue, Sources
  <2>3. i \in DOMAIN herdr
    BY <1>3, <1>4, <1>6, <1>14, <2>1 DEF Overflow, SessionRows, HerdrRows
  <2>4. Cardinality(DOMAIN r) = TotalCap /\ \A k \in DOMAIN r : SourceOf[k] = "codex"
    BY <1>4, <1>13, <2>2, <2>3
  <2>5. CodexRows(r) = DOMAIN r
    BY <2>4 DEF CodexRows, HerdrRows
  <2> QED BY <2>4, <2>5
<1> QED
  BY <1>7, <1>12, <1>13, <1>14

------------------------------------------------------------------------------
(* Delivery. *)

LEMMA NoConfigIsNoConfig == NoConfig \notin Config
BY DEF NoConfig, Config, States

\* The rows an upgrade finds are a queue of unbound rows.
LEMMA OldRowsQueue ==
  ASSUME NEW old \in SUBSET Legacy, IsFiniteSet(old), NEW rank \in [Legacy -> 1..MaxRowid],
         NEW q, q = [i \in old |-> [NewRow(EmptyQueue, i, 0, NoBackend) EXCEPT !.rowid = rank[i]]]
  PROVE  /\ IsQueue(q) /\ DOMAIN q = old
         /\ \A i \in old : q[i].backend = NoBackend /\ q[i].rowid = rank[i]
<1>1. DOMAIN EmptyQueue = {} /\ IsQueue(EmptyQueue)
  BY FS_EmptySet DEF EmptyQueue, IsQueue
<1>2. NextRowid(EmptyQueue) \in Nat
  BY <1>1, NextRowidType, Zenon
<1>3. \A i \in old : i \in EventIds /\ rank[i] \in Nat
  BY IdAssumption, NumberAssumption
<1>4. \A i \in old : NewRow(EmptyQueue, i, 0, NoBackend) \in Row
  BY <1>2, LifeAssumption DEF NewRow, Row
<1>5. \A i \in old : q[i] \in Row
  BY <1>3, <1>4 DEF Row
<1>6. \A i \in old : q[i].backend = NoBackend /\ q[i].rowid = rank[i]
  BY DEF NewRow
<1> QED
  BY <1>3, <1>5, <1>6 DEF IsQueue

------------------------------------------------------------------------------
\* Initial states are of the types.
LEMMA TypedInit == Init => TypeOK
<1> SUFFICES ASSUME Init PROVE TypeOK
  OBVIOUS
<1>1. PICK old \in {ids \in SUBSET Legacy : IsFiniteSet(ids)}, rank \in [Legacy -> 1..MaxRowid] :
        /\ pending = [i \in old |-> [NewRow(EmptyQueue, i, 0, NoBackend) EXCEPT !.rowid = rank[i]]]
        /\ disk \in Config
        /\ captured = {<<Stored[disk.endpoint], i>> : i \in old}
  BY DEF Init
<1>2. IsQueue(pending)
  BY <1>1, OldRowsQueue
<1>3. Stored[disk.endpoint] \in Backends
  BY <1>1, EndpointAssumption DEF Config
<1>4. captured \subseteq Backends \X EventIds
  BY <1>1, <1>3, IdAssumption
<1>5. up \in Uploader /\ up.pc = "idle"
  BY DEF Init, Uploader, Idle
<1> QED
  BY <1>1, <1>2, <1>4, <1>5 DEF Init, TypeOK

\* A capture keeps the types of the queue and of the history.
LEMMA TypedCapture ==
  ASSUME TypeOK, NEW q, IsQueue(q), NEW id \in EventIds, NEW t, queueBackend # NoBackend,
         Capture(q, id, t)
  PROVE  IsQueue(pending') /\ captured' \subseteq Backends \X EventIds
<1>1. t \in Nat
  BY DEF Capture, ClockReadings, TypeOK
<1>2. queueBackend \in Backends \cup {NoBackend}
  BY DEF TypeOK
<1>3. IsEnqueueOf(Enqueue(q, id, t, queueBackend), q, id, queueBackend)
  BY <1>1, <1>2, EnqueueEnqueues, Zenon
<1>4. IsEnqueueOf(pending', q, id, queueBackend)
  BY <1>3, Zenon DEF Capture
<1>5. IsQueue(pending')
  BY <1>4 DEF IsEnqueueOf
<1>6. captured' \subseteq captured \cup {<<queueBackend, id>>}
  BY DEF Capture
<1>7. queueBackend \in Backends
  BY <1>2
<1> QED
  BY <1>5, <1>6, <1>7 DEF TypeOK

\* The inductive invariant.
IInv == TypeOK /\ BindingInvariant

LEMMA InvInit == Init => IInv
<1> SUFFICES ASSUME Init PROVE IInv
  OBVIOUS
<1>1. TypeOK
  BY TypedInit
<1>2. PICK old \in {ids \in SUBSET Legacy : IsFiniteSet(ids)}, rank \in [Legacy -> 1..MaxRowid] :
        /\ pending = [i \in old |-> [NewRow(EmptyQueue, i, 0, NoBackend) EXCEPT !.rowid = rank[i]]]
        /\ disk \in Config
        /\ captured = {<<Stored[disk.endpoint], i>> : i \in old}
  BY DEF Init
<1>3. DOMAIN pending = old /\ \A i \in old : pending[i].backend = NoBackend
  BY <1>2, OldRowsQueue
<1>4. disk.endpoint \in Endpoints
  BY <1>2 DEF Config
<1>5. captured \subseteq StoredNames \X EventIds
  BY <1>2, <1>4, IdAssumption DEF StoredNames
<1>6. RowsStayWhereCaptured /\ PostsOnlyWhereCaptured
  BY <1>3 DEF RowsStayWhereCaptured, PostsOnlyWhereCaptured, Init, Idle
<1> QED
  BY <1>1, <1>2, <1>3, <1>5, <1>6 DEF IInv, BindingInvariant, Init

------------------------------------------------------------------------------
(* Steps that bind rows: the name they bind with is one the rows were       *)
(* captured for.                                                            *)

LEMMA BindStep ==
  ASSUME IInv, NEW e \in Endpoints,
         queueBackend = NoBackend /\ DOMAIN pending # {} => e = disk.endpoint,
         pending' = BindRows(pending, queueBackend, Stored[e]),
         queueBackend' = Stored[e], UNCHANGED captured
  PROVE  /\ IsQueue(pending') /\ queueBackend' \in Backends /\ queueBackend' \in StoredNames
         /\ \A i \in DOMAIN pending' : /\ pending'[i].backend # NoBackend
                                       /\ <<pending'[i].backend, i>> \in captured
<1> DEFINE b == IF queueBackend = NoBackend THEN Stored[e] ELSE queueBackend
<1>1. Stored[e] \in Backends /\ Stored[e] \in StoredNames
  BY EndpointAssumption DEF StoredNames
<1>2. IsQueue(pending) /\ queueBackend \in Backends \cup {NoBackend}
  BY DEF IInv, TypeOK
<1>3. IsBindOf(BindRows(pending, queueBackend, Stored[e]), pending, b)
  BY <1>1, <1>2, BindRowsBinds, Zenon
<1>4. IsBindOf(pending', pending, b)
  BY <1>3, Zenon
<1>5. b # NoBackend
  BY <1>1, BackendAssumption
<1> HIDE DEF b
<1>6. \A i \in DOMAIN pending' : pending'[i].backend # NoBackend
  BY <1>4, <1>5 DEF IsBindOf
<1>7. ASSUME NEW i \in DOMAIN pending'
      PROVE  <<pending'[i].backend, i>> \in captured
  <2>1. i \in DOMAIN pending
    BY <1>4 DEF IsBindOf
  <2>2. CASE pending[i].backend # NoBackend
    BY <1>4, <2>1, <2>2 DEF IsBindOf, IInv, BindingInvariant, RowsStayWhereCaptured
  <2>3. CASE pending[i].backend = NoBackend
    <3>1. queueBackend = NoBackend
      BY <2>1, <2>3 DEF IInv, BindingInvariant
    <3>2. <<Stored[disk.endpoint], i>> \in captured
      BY <2>1, <3>1 DEF IInv, BindingInvariant
    <3>3. pending'[i].backend = Stored[e]
      BY <1>4, <2>1, <2>3, <3>1 DEF IsBindOf, b
    <3>4. e = disk.endpoint
      BY <2>1, <3>1
    <3> QED
      BY <3>2, <3>3, <3>4
  <2> QED
    BY <2>2, <2>3
<1> QED
  BY <1>1, <1>4, <1>6, <1>7 DEF IsBindOf

LEMMA ApplyStep == IInv /\ Apply => IInv'
<1> SUFFICES ASSUME IInv, Apply PROVE IInv'
  OBVIOUS
<1>1. loaded \in Config /\ loaded.endpoint \in Endpoints
  BY NoConfigIsNoConfig DEF Apply, IInv, TypeOK, Config
<1>2. queueBackend = NoBackend /\ DOMAIN pending # {} => loaded.endpoint = disk.endpoint
  BY DEF Apply, IInv, BindingInvariant
<1>3. /\ IsQueue(pending') /\ queueBackend' \in Backends /\ queueBackend' \in StoredNames
      /\ \A i \in DOMAIN pending' : /\ pending'[i].backend # NoBackend
                                    /\ <<pending'[i].backend, i>> \in captured
  <2>1. /\ pending' = BindRows(pending, queueBackend, Stored[loaded.endpoint])
        /\ queueBackend' = Stored[loaded.endpoint] /\ UNCHANGED captured
    BY DEF Apply
  <2> QED
    BY <1>1, <1>2, <2>1, BindStep
<1>4. TypeOK'
  BY <1>1, <1>3 DEF Apply, IInv, TypeOK
<1>5. BindingInvariant'
  BY <1>3, BackendAssumption
  DEF Apply, IInv, BindingInvariant, RowsStayWhereCaptured, PostsOnlyWhereCaptured, Exchange
<1> QED
  BY <1>4, <1>5 DEF IInv

LEMMA SwitchBindStep ==
  ASSUME IInv, NEW endpoint \in Endpoints, SwitchBind(endpoint)
  PROVE  IInv'
<1>1. disk.endpoint \in Endpoints
  BY DEF IInv, TypeOK, Config
<1>2. CASE /\ pending' = BindRows(pending, queueBackend, Stored[disk.endpoint])
           /\ queueBackend' = Stored[disk.endpoint]
  <2>1. /\ IsQueue(pending') /\ queueBackend' \in Backends /\ queueBackend' \in StoredNames
        /\ \A i \in DOMAIN pending' : /\ pending'[i].backend # NoBackend
                                      /\ <<pending'[i].backend, i>> \in captured
    <3>1. UNCHANGED captured
      BY DEF SwitchBind
    <3> QED
      BY <1>1, <1>2, <3>1, BindStep
  <2>2. TypeOK'
    BY <2>1 DEF SwitchBind, IInv, TypeOK, Config, States
  <2>3. BindingInvariant'
    BY <2>1, BackendAssumption
    DEF SwitchBind, IInv, BindingInvariant, RowsStayWhereCaptured, PostsOnlyWhereCaptured, Exchange
  <2> QED
    BY <2>2, <2>3 DEF IInv
<1>3. CASE DOMAIN pending = {} /\ UNCHANGED <<pending, queueBackend>>
  <2>1. TypeOK'
    BY <1>3 DEF SwitchBind, IInv, TypeOK, Config, States
  <2>2. BindingInvariant'
    BY <1>3
    DEF SwitchBind, IInv, BindingInvariant, RowsStayWhereCaptured, PostsOnlyWhereCaptured, Exchange
  <2> QED
    BY <2>1, <2>2 DEF IInv
<1> QED
  BY <1>2, <1>3 DEF SwitchBind

\* Configuration steps that leave the queue alone.
LEMMA ConfigFileStep ==
  ASSUME IInv,
         Load \/ Migrate \/ SwitchSave \/ Crash \/ \E state \in States : Enroll(state)
  PROVE  IInv'
<1>1. /\ UNCHANGED <<pending, queueBackend, captured, settled, now, cli>> \/ SwitchSave
      /\ UNCHANGED <<pending, queueBackend, captured, settled, now>>
  BY DEF Load, Migrate, SwitchSave, Crash, Enroll
<1>2. TypeOK'
  <2>1. CASE Load
    BY <2>1 DEF Load, IInv, TypeOK
  <2>2. CASE SwitchSave
    BY <2>2 DEF SwitchSave, IInv, TypeOK
  <2>3. CASE Crash
    BY <2>3 DEF Crash, IInv, TypeOK, Uploader, Idle
  <2>4. ASSUME NEW state \in States, Enroll(state)
        PROVE  TypeOK'
    <3>1. mem \in Config
      BY <2>4 DEF IInv, TypeOK, Enroll, Running
    <3>2. mem' \in Config
      BY <2>4, <3>1 DEF Enroll, Config
    <3> QED
      BY <2>4, <3>2 DEF Enroll, IInv, TypeOK
  <2>5. CASE Migrate
    BY <2>5 DEF Migrate, Running, IInv, TypeOK
  <2> QED
    BY <2>1, <2>2, <2>3, <2>4, <2>5
<1>3. queueBackend = NoBackend =>
        mem' = NoConfig /\ (DOMAIN pending # {} => disk' = disk /\ cli' = NoConfig)
  BY DEF Load, Migrate, SwitchSave, Crash, Enroll, Running, IInv, BindingInvariant
<1>4. queueBackend = NoBackend /\ DOMAIN pending # {} => (loaded' # NoConfig => loaded' = disk')
  BY <1>3 DEF Load, Migrate, SwitchSave, Crash, Enroll, Running, IInv, BindingInvariant
<1>5. PostsOnlyWhereCaptured'
  <2>1. up' = up \/ up' = Idle
    BY DEF Load, Migrate, SwitchSave, Crash, Enroll
  <2> QED
    BY <1>1, <2>1 DEF IInv, BindingInvariant, PostsOnlyWhereCaptured, Exchange, Idle
<1> QED
  BY <1>1, <1>2, <1>3, <1>4, <1>5 DEF IInv, BindingInvariant, RowsStayWhereCaptured

------------------------------------------------------------------------------
(* Steps that change the rows but bind none. *)

\* Rows go, and the ones that stay are as they were.
LEMMA TrimStep ==
  ASSUME IInv, IsTrimOf(pending', pending),
         UNCHANGED <<queueBackend, disk, mem, loaded, cli, captured>>
  PROVE  /\ IsQueue(pending')
         /\ PostsOnlyWhereCaptured' => BindingInvariant'
<1>1. \A i \in DOMAIN pending' : i \in DOMAIN pending /\ pending'[i] = pending[i]
  BY DEF IsTrimOf
<1>2. IsQueue(pending')
  BY DEF IsTrimOf, IInv, TypeOK
<1> QED
  BY <1>1, <1>2 DEF IInv, BindingInvariant, RowsStayWhereCaptured

\* A capture adds a row where queue_backend points, and records that it did.
LEMMA CaptureStepKeeps ==
  ASSUME IInv, NEW q, IsTrimOf(q, pending), NEW id \in EventIds, NEW t,
         queueBackend # NoBackend, Capture(q, id, t),
         UNCHANGED <<now, queueBackend, lastSource, disk, mem, loaded, cli, up, settled>>
  PROVE  IInv'
<1>1. IsQueue(q) /\ IsQueue(pending)
  BY DEF IsTrimOf, IInv, TypeOK
<1>2. t \in Nat /\ queueBackend \in Backends \cup {NoBackend}
  BY DEF Capture, ClockReadings, IInv, TypeOK
<1>3. IsEnqueueOf(Enqueue(q, id, t, queueBackend), q, id, queueBackend)
  BY <1>1, <1>2, EnqueueEnqueues, Zenon
<1>4. IsEnqueueOf(pending', q, id, queueBackend)
  BY <1>3, Zenon DEF Capture
<1>5. captured' = IF id \in DOMAIN q THEN captured ELSE captured \cup {<<queueBackend, id>>}
  BY DEF Capture
<1>6. /\ captured' \subseteq StoredNames \X EventIds
      /\ captured' \subseteq Backends \X EventIds
  BY <1>2, <1>5 DEF IInv, TypeOK, BindingInvariant
<1>7. ASSUME NEW i \in DOMAIN pending'
      PROVE  /\ pending'[i].backend # NoBackend
             /\ <<pending'[i].backend, i>> \in captured'
  <2>1. CASE i \in DOMAIN q
    <3>1. i \in DOMAIN pending /\ pending'[i] = pending[i]
      BY <1>4, <2>1 DEF IsEnqueueOf, IsTrimOf
    <3> QED
      BY <1>5, <3>1 DEF IInv, BindingInvariant, RowsStayWhereCaptured
  <2>2. CASE i \notin DOMAIN q
    BY <1>4, <1>5, <2>2 DEF IsEnqueueOf
  <2> QED
    BY <2>1, <2>2
<1>8. IsQueue(pending')
  BY <1>4 DEF IsEnqueueOf
<1>9. TypeOK'
  BY <1>6, <1>8 DEF IInv, TypeOK
<1>10. PostsOnlyWhereCaptured'
  BY <1>5 DEF IInv, BindingInvariant, PostsOnlyWhereCaptured, Exchange
<1>11. BindingInvariant'
  BY <1>6, <1>7, <1>10 DEF IInv, BindingInvariant, RowsStayWhereCaptured
<1> QED
  BY <1>9, <1>11 DEF IInv

LEMMA CaptureSteps == IInv /\ CaptureStep => IInv'
<1> SUFFICES ASSUME IInv, CaptureStep PROVE IInv'
  OBVIOUS
<1>1. IsTrimOf(pending, pending) /\ IsQueue(pending)
  BY DEF IsTrimOf, IInv, TypeOK
<1>2. Running => queueBackend # NoBackend
  BY DEF IInv, BindingInvariant, Running
<1>3. ASSUME NEW id \in EventIds, NEW t, HookCapture(id, t)
      PROVE  IInv'
  <2>1. /\ Capture(pending, id, t) /\ Running
        /\ UNCHANGED <<now, queueBackend, lastSource, disk, mem, loaded, cli, up, settled>>
    BY <1>3 DEF HookCapture
  <2> QED
    BY <1>1, <1>2, <2>1, CaptureStepKeeps
<1>4. ASSUME NEW id \in EventIds, NEW t, TestCapture(id, t)
      PROVE  IInv'
  <2>1. /\ Capture(pending, id, t) /\ queueBackend # NoBackend
        /\ UNCHANGED <<now, queueBackend, lastSource, disk, mem, loaded, cli, up, settled>>
    BY <1>4 DEF TestCapture
  <2> QED
    BY <1>1, <2>1, CaptureStepKeeps
<1>5. ASSUME NEW s, NEW gone, NEW hint \in Hints, NEW t, HerdrReconcile(s, gone, hint, t)
      PROVE  IInv'
  <2> DEFINE rest == Without(pending, gone)
  <2>1. IsTrimOf(rest, pending)
    BY WithoutTrims
  <2>2. UNCHANGED <<now, queueBackend, lastSource, disk, mem, loaded, cli, up, settled>>
    BY <1>5 DEF HerdrReconcile
  <2>3. \/ pending' = rest /\ captured' = captured
        \/ Running /\ Capture(rest, hint, t)
    BY <1>5 DEF HerdrReconcile
  <2> HIDE DEF rest
  <2>4. CASE pending' = rest /\ captured' = captured
    <3>1. IsTrimOf(pending', pending)
      BY <2>1, <2>4
    <3>2. PostsOnlyWhereCaptured'
      BY <2>2, <2>4 DEF IInv, BindingInvariant, PostsOnlyWhereCaptured, Exchange
    <3>3. IsQueue(pending') /\ BindingInvariant'
      BY <2>2, <2>4, <3>1, <3>2, TrimStep
    <3> QED
      BY <2>2, <2>4, <3>3 DEF IInv, TypeOK
  <2>5. CASE Running /\ Capture(rest, hint, t)
    <3>1. hint \in EventIds
      BY IdAssumption
    <3> QED
      BY <1>2, <2>1, <2>2, <2>5, <3>1, CaptureStepKeeps
  <2> QED
    BY <2>3, <2>4, <2>5
<1>6. CASE HerdrOff
  <2>1. /\ pending' = Without(pending, HerdrRows(pending))
        /\ UNCHANGED <<now, queueBackend, lastSource, disk, mem, loaded, cli, up, captured, settled>>
    BY <1>6 DEF HerdrOff
  <2>2. IsTrimOf(pending', pending)
    BY <2>1, WithoutTrims, Zenon
  <2>3. PostsOnlyWhereCaptured'
    BY <2>1 DEF IInv, BindingInvariant, PostsOnlyWhereCaptured, Exchange
  <2>4. IsQueue(pending') /\ BindingInvariant'
    BY <2>1, <2>2, <2>3, TrimStep
  <2> QED
    BY <2>1, <2>4 DEF IInv, TypeOK
<1> QED
  BY <1>3, <1>4, <1>5, <1>6 DEF CaptureStep

------------------------------------------------------------------------------
(* The upload worker. *)

\* The row the worker chooses was captured for the backend it will send it to.
LEMMA PickStep == IInv /\ Pick => IInv'
<1> SUFFICES ASSUME IInv, Pick PROVE IInv'
  OBVIOUS
<1>1. UNCHANGED <<now, queueBackend, disk, mem, loaded, cli, captured, settled>>
  BY DEF Pick
<1>2. IsTrimOf(pending', pending)
  <2>1. pending' = Without(pending, Expired(pending, now))
    BY DEF Pick
  <2> QED
    BY <2>1, WithoutTrims, Zenon
<1>3. up.pc = "snapshot" /\ up \in Uploader /\ up \in [pc: {"snapshot", "sending", "done", "failed"},
        endpoint: Endpoints, id: EventIds \cup {NoId}, attempts: Nat, bare: BOOLEAN]
  <2>1. up.pc = "snapshot" /\ up \in Uploader
    BY DEF Pick, IInv, TypeOK
  <2>2. up # Idle
    BY <2>1 DEF Idle
  <2> QED
    BY <2>1, <2>2 DEF Uploader
<1>4. CASE up' = Idle /\ lastSource' = lastSource
  <2>1. PostsOnlyWhereCaptured'
    BY <1>4 DEF PostsOnlyWhereCaptured, Idle
  <2>2. IsQueue(pending') /\ BindingInvariant'
    BY <1>1, <1>2, <2>1, TrimStep
  <2>3. up' \in Uploader /\ up'.pc = "idle"
    BY <1>4 DEF Uploader, Idle
  <2> QED
    BY <1>1, <1>4, <2>2, <2>3 DEF IInv, TypeOK
<1>5. ASSUME NEW i \in Due(pending, now, Compared[up.endpoint]),
             up' = [up EXCEPT !.pc = "sending", !.id = i, !.attempts = pending[i].attempts],
             lastSource' = SourceOf[i]
      PROVE  IInv'
  <2>1. /\ i \in DOMAIN pending /\ i \in EventIds
        /\ pending[i] \in Row /\ pending[i].backend = Compared[up.endpoint]
    BY <1>5 DEF Due, IInv, TypeOK, IsQueue
  <2>2. Compared[up.endpoint] \in Backends /\ up.endpoint \in Endpoints
    BY <1>3, EndpointAssumption
  <2>3. <<Compared[up.endpoint], i>> \in captured
    BY <2>1, <2>2, BackendAssumption DEF IInv, BindingInvariant, RowsStayWhereCaptured
  <2>4. PICK f \in Endpoints : Compared[up.endpoint] = Stored[f]
    BY <2>3 DEF IInv, BindingInvariant, StoredNames
  <2>5. Compared[up.endpoint] = Stored[up.endpoint]
    BY <2>2, <2>4, CanonicalAssumption
  <2>6. up'.endpoint = up.endpoint /\ up'.id = i /\ up'.pc = "sending"
    BY <1>3, <1>5
  <2>7. PostsOnlyWhereCaptured'
    BY <1>1, <2>3, <2>5, <2>6 DEF PostsOnlyWhereCaptured, Exchange
  <2>8. IsQueue(pending') /\ BindingInvariant'
    BY <1>1, <1>2, <2>7, TrimStep
  <2>9. up' \in Uploader
    BY <1>3, <1>5, <2>1 DEF Uploader, Row
  <2>10. lastSource' \in Sources
    BY <1>5, <2>1, SourceAssumption
  <2> QED
    BY <1>1, <2>1, <2>6, <2>8, <2>9, <2>10 DEF IInv, TypeOK
<1> QED
  BY <1>4, <1>5 DEF Pick

LEMMA SnapshotStep == IInv /\ Snapshot => IInv'
<1> SUFFICES ASSUME IInv, Snapshot PROVE IInv'
  OBVIOUS
<1>1. mem \in Config
  BY DEF Snapshot, Running, IInv, TypeOK
<1>2. up' \in Uploader /\ up'.pc = "snapshot"
  BY <1>1 DEF Snapshot, Config, Idle, Uploader
<1>3. TypeOK'
  BY <1>2 DEF Snapshot, IInv, TypeOK
<1>4. PostsOnlyWhereCaptured'
  BY <1>2 DEF PostsOnlyWhereCaptured
<1> QED
  BY <1>3, <1>4 DEF Snapshot, IInv, BindingInvariant, RowsStayWhereCaptured

\* An exchange with the backend moves nothing but the worker and the history.
LEMMA ExchangeStep ==
  ASSUME IInv, Accepted \/ Dismissed \/ StripMetadata \/ Failed
  PROVE  IInv'
<1>1. /\ up.pc = "sending" /\ up.id \in EventIds
      /\ up \in [pc: {"snapshot", "sending", "done", "failed"}, endpoint: Endpoints,
                 id: EventIds \cup {NoId}, attempts: Nat, bare: BOOLEAN]
  BY DEF Accepted, Dismissed, StripMetadata, Failed, IInv, TypeOK, Uploader, Idle
<1>2. UNCHANGED <<now, pending, queueBackend, lastSource, disk, mem, loaded, cli, captured>>
  BY DEF Accepted, Dismissed, StripMetadata, Failed
<1>3. /\ up' \in Uploader /\ up'.id = up.id /\ up'.endpoint = up.endpoint
  BY <1>1 DEF Accepted, Dismissed, StripMetadata, Failed, Uploader
<1>4. Exchange \in Backends \X EventIds /\ Exchange \in captured
  BY <1>1, EndpointAssumption
  DEF Exchange, IInv, BindingInvariant, PostsOnlyWhereCaptured
<1>5. settled' \subseteq settled \cup {Exchange}
  BY DEF Accepted, Dismissed, StripMetadata, Failed
<1>6. TypeOK'
  BY <1>1, <1>2, <1>3, <1>4, <1>5 DEF IInv, TypeOK
<1>7. PostsOnlyWhereCaptured'
  BY <1>2, <1>3, <1>4 DEF PostsOnlyWhereCaptured, Exchange
<1> QED
  BY <1>2, <1>6, <1>7 DEF IInv, BindingInvariant, RowsStayWhereCaptured

LEMMA CompleteStep == IInv /\ Complete => IInv'
<1> SUFFICES ASSUME IInv, Complete PROVE IInv'
  OBVIOUS
<1>1. /\ pending' = Without(pending, {up.id}) /\ up' = Idle
      /\ UNCHANGED <<now, queueBackend, lastSource, disk, mem, loaded, cli, captured, settled>>
  BY DEF Complete
<1>2. IsTrimOf(pending', pending)
  BY <1>1, WithoutTrims, Zenon
<1>3. PostsOnlyWhereCaptured' /\ up' \in Uploader /\ up'.pc = "idle"
  BY <1>1 DEF PostsOnlyWhereCaptured, Idle, Uploader
<1>4. IsQueue(pending') /\ BindingInvariant'
  BY <1>1, <1>2, <1>3, TrimStep
<1> QED
  BY <1>1, <1>3, <1>4 DEF IInv, TypeOK

LEMMA RetryStep == IInv /\ Retry => IInv'
<1> SUFFICES ASSUME IInv, Retry PROVE IInv'
  OBVIOUS
<1> DEFINE attempts == up.attempts + 1
           next == now + Delay(attempts)
<1>1. /\ pending' = Postpone(pending, up.id, attempts, next) /\ up' = Idle
      /\ UNCHANGED <<now, queueBackend, lastSource, disk, mem, loaded, cli, captured, settled>>
  BY DEF Retry
<1>2. attempts \in Nat
  BY DEF Retry, IInv, TypeOK, Uploader, Idle
<1>3. Delay(attempts) \in Nat
  BY NumberAssumption DEF Delay
<1>4. next \in Nat /\ IsQueue(pending)
  BY <1>3 DEF IInv, TypeOK
<1> HIDE DEF attempts, next
<1>5. IsPostponeOf(Postpone(pending, up.id, attempts, next), pending)
  BY <1>2, <1>4, PostponePostpones, Zenon
<1>6. IsPostponeOf(pending', pending)
  BY <1>1, <1>5, Zenon
<1>7. PostsOnlyWhereCaptured' /\ up' \in Uploader /\ up'.pc = "idle"
  BY <1>1 DEF PostsOnlyWhereCaptured, Idle, Uploader
<1>8. TypeOK'
  BY <1>1, <1>6, <1>7 DEF IInv, TypeOK, IsPostponeOf
<1>9. BindingInvariant'
  BY <1>1, <1>6, <1>7 DEF IInv, BindingInvariant, RowsStayWhereCaptured, IsPostponeOf
<1> QED
  BY <1>8, <1>9 DEF IInv

LEMMA StatementFailsStep == IInv /\ StatementFails => IInv'
<1> SUFFICES ASSUME IInv, StatementFails PROVE IInv'
  OBVIOUS
<1>1. /\ up' = Idle
      /\ UNCHANGED <<now, pending, queueBackend, lastSource, disk, mem, loaded, cli, captured,
                     settled>>
  BY DEF StatementFails
<1>2. PostsOnlyWhereCaptured' /\ up' \in Uploader /\ up'.pc = "idle"
  BY <1>1 DEF PostsOnlyWhereCaptured, Idle, Uploader
<1> QED
  BY <1>1, <1>2 DEF IInv, TypeOK, BindingInvariant, RowsStayWhereCaptured

------------------------------------------------------------------------------
LEMMA InvStep == IInv /\ [Next]_vars => IInv'
<1> SUFFICES ASSUME IInv, [Next]_vars PROVE IInv'
  OBVIOUS
<1>1. CASE ConfigStep
  BY <1>1, ApplyStep, SwitchBindStep, ConfigFileStep DEF ConfigStep
<1>2. CASE CaptureStep
  BY <1>2, CaptureSteps
<1>3. CASE UploadStep
  BY <1>3, SnapshotStep, PickStep, ExchangeStep, CompleteStep, RetryStep, StatementFailsStep
  DEF UploadStep
<1>4. CASE Crash
  BY <1>4, ConfigFileStep
<1>5. CASE Tick
  BY <1>5 DEF Tick, IInv, TypeOK, BindingInvariant, RowsStayWhereCaptured,
              PostsOnlyWhereCaptured, Exchange
<1>6. CASE UNCHANGED vars
  BY <1>6 DEF vars, IInv, TypeOK, BindingInvariant, RowsStayWhereCaptured,
              PostsOnlyWhereCaptured, Exchange
<1> QED
  BY <1>1, <1>2, <1>3, <1>4, <1>5, <1>6 DEF Next

LEMMA InvAlways == Spec => []IInv
BY InvInit, InvStep, PTL DEF Spec

\* The table, the worker and the configurations keep their types.
THEOREM Typed == Spec => []TypeOK
<1>1. IInv => TypeOK
  BY DEF IInv
<1> QED
  BY <1>1, InvAlways, PTL

\* The inductive invariant that binds rows to what they were captured for.
THEOREM Bound == Spec => []BindingInvariant
<1>1. IInv => BindingInvariant
  BY DEF IInv
<1> QED
  BY <1>1, InvAlways, PTL

\* No row is ever bound to a backend its event was not captured for.
THEOREM RowsStay == Spec => []RowsStayWhereCaptured
<1>1. BindingInvariant => RowsStayWhereCaptured
  BY DEF BindingInvariant
<1> QED
  BY <1>1, Bound, PTL

\* No event is ever sent to a backend it was not captured for.
THEOREM PostsStay == Spec => []PostsOnlyWhereCaptured
<1>1. BindingInvariant => PostsOnlyWhereCaptured
  BY DEF BindingInvariant
<1> QED
  BY <1>1, Bound, PTL

------------------------------------------------------------------------------
(* The caps.  The trims count rows by their order, which is one as long as no *)
(* two rows have the same rowid.                                              *)

CapInv == Numbered(pending) /\ CapsHold

LEMMA CapInit == Init => CapInv
<1> SUFFICES ASSUME Init PROVE CapInv
  OBVIOUS
<1>1. PICK old \in {ids \in SUBSET Legacy : IsFiniteSet(ids)}, rank \in [Legacy -> 1..MaxRowid] :
        /\ \A i, j \in old : rank[i] = rank[j] => i = j
        /\ pending = [i \in old |-> [NewRow(EmptyQueue, i, 0, NoBackend) EXCEPT !.rowid = rank[i]]]
  BY DEF Init
<1>2. DOMAIN pending = old /\ \A i \in old : pending[i].rowid = rank[i]
  BY <1>1, OldRowsQueue
<1>3. Numbered(pending)
  BY <1>1, <1>2 DEF Numbered
<1>4. HerdrRows(pending) = {}
  BY <1>2, IdAssumption DEF HerdrRows
<1>5. Cardinality(HerdrRows(pending)) = 0
  BY <1>4, FS_EmptySet, Zenon
<1> QED
  BY <1>2, <1>3, <1>4, <1>5, CapAssumption DEF CapInv, CapsHold

\* Deletions keep the caps.
LEMMA TrimKeepsCaps ==
  ASSUME TypeOK, CapInv, IsTrimOf(pending', pending)
  PROVE  CapInv'
<1>1. IsQueue(pending) /\ Numbered(pending) /\ HerdrCapped(pending)
  BY DEF TypeOK, CapInv, CapsHold, HerdrCapped
<1>2. Numbered(pending') /\ HerdrCapped(pending')
  BY <1>1, TrimCapped
<1>3. DOMAIN pending' \subseteq DOMAIN pending /\ IsFiniteSet(DOMAIN pending)
  BY <1>1 DEF IsTrimOf, IsQueue
<1>4. /\ Cardinality(DOMAIN pending') <= Cardinality(DOMAIN pending)
      /\ Cardinality(DOMAIN pending') \in Nat /\ Cardinality(DOMAIN pending) \in Nat
  BY <1>3, FS_Subset, FS_CardinalityType
<1>5. Cardinality(DOMAIN pending') <= TotalCap \/ DOMAIN pending' \subseteq Legacy
  BY <1>3, <1>4, CapAssumption DEF CapInv, CapsHold
<1> QED
  BY <1>2, <1>5 DEF CapInv, CapsHold, HerdrCapped

\* So do steps that rewrite rows where they are.
LEMMA SameRowsKeepCaps ==
  ASSUME CapInv, DOMAIN pending' = DOMAIN pending,
         \A i \in DOMAIN pending : pending'[i].rowid = pending[i].rowid
  PROVE  CapInv'
<1>1. Numbered(pending')
  BY DEF CapInv, Numbered
<1>2. HerdrRows(pending') = HerdrRows(pending)
  BY DEF HerdrRows
<1>3. \A s : SessionRows(pending', s) = SessionRows(pending, s)
  BY <1>2 DEF SessionRows
<1> QED
  BY <1>1, <1>2, <1>3 DEF CapInv, CapsHold

\* A capture establishes them, and deletes Codex rows only as enqueueEvent may.
LEMMA CaptureKeepsCaps ==
  ASSUME TypeOK, CapInv, NEW q, IsTrimOf(q, pending), NEW id \in EventIds, NEW t,
         Capture(q, id, t)
  PROVE  /\ CapInv'
         /\ \A i \in CodexRows(q) \ DOMAIN pending' :
               q[i].expires <= t \/ Cardinality(CodexRows(pending')) = TotalCap
<1>1. IsQueue(pending) /\ Numbered(pending) /\ HerdrCapped(pending)
  BY DEF TypeOK, CapInv, CapsHold, HerdrCapped
<1>2. IsQueue(q) /\ Numbered(q) /\ HerdrCapped(q)
  BY <1>1, TrimCapped DEF IsTrimOf
<1>3. t \in Nat /\ queueBackend \in Backends \cup {NoBackend}
  BY DEF Capture, ClockReadings, TypeOK
<1>4. pending' = Enqueue(q, id, t, queueBackend)
  BY DEF Capture
<1>5. /\ Numbered(pending') /\ HerdrCapped(pending') /\ Cardinality(DOMAIN pending') <= TotalCap
      /\ \A i \in CodexRows(q) \ DOMAIN pending' :
            q[i].expires <= t \/ Cardinality(CodexRows(pending')) = TotalCap
  BY <1>2, <1>3, <1>4, EnqueueKeepsCaps
<1> QED
  BY <1>5 DEF CapInv, CapsHold, HerdrCapped

LEMMA CapStep == IInv /\ CapInv /\ [Next]_vars => CapInv'
<1> SUFFICES ASSUME IInv, CapInv, [Next]_vars PROVE CapInv'
  OBVIOUS
<1>1. TypeOK /\ IsQueue(pending) /\ IsTrimOf(pending, pending)
  BY DEF IInv, TypeOK, IsTrimOf
<1>2. CASE pending' = pending
  BY <1>1, <1>2, TrimKeepsCaps
<1>3. ASSUME NEW old \in Backends \cup {NoBackend}, NEW new \in Backends,
             pending' = BindRows(pending, old, new)
      PROVE  CapInv'
  <2>1. IsBindOf(BindRows(pending, old, new), pending, IF old = NoBackend THEN new ELSE old)
    BY <1>1, BindRowsBinds, Zenon
  <2>2. \A i \in DOMAIN pending : pending'[i].rowid = pending[i].rowid
    BY <1>3, <2>1 DEF IsBindOf
  <2>3. DOMAIN pending' = DOMAIN pending
    BY <1>3, <2>1 DEF IsBindOf
  <2> QED
    BY <2>2, <2>3, SameRowsKeepCaps
<1>4. ASSUME NEW gone, pending' = Without(pending, gone)
      PROVE  CapInv'
  <2>1. IsTrimOf(pending', pending)
    BY <1>4, WithoutTrims
  <2> QED
    BY <1>1, <2>1, TrimKeepsCaps
<1>5. CASE ConfigStep
  <2>1. queueBackend \in Backends \cup {NoBackend} /\ disk.endpoint \in Endpoints
    BY <1>1 DEF TypeOK, Config
  <2>2. CASE Apply
    <3>1. loaded.endpoint \in Endpoints
      BY <1>1, <2>2, NoConfigIsNoConfig DEF Apply, TypeOK, Config
    <3> QED
      BY <1>3, <2>1, <2>2, <3>1, EndpointAssumption DEF Apply
  <2>3. ASSUME NEW endpoint \in Endpoints, SwitchBind(endpoint)
        PROVE  CapInv'
    BY <1>2, <1>3, <2>1, <2>3, EndpointAssumption DEF SwitchBind
  <2> QED
    BY <1>2, <1>5, <2>2, <2>3 DEF ConfigStep, Load, Migrate, SwitchSave, Enroll
<1>6. CASE CaptureStep
  <2>1. ASSUME NEW id \in EventIds, NEW t, HookCapture(id, t) \/ TestCapture(id, t)
        PROVE  CapInv'
    BY <1>1, <2>1, CaptureKeepsCaps DEF HookCapture, TestCapture
  <2>2. ASSUME NEW s, NEW gone, NEW hint \in Hints, NEW t, HerdrReconcile(s, gone, hint, t)
        PROVE  CapInv'
    <3> DEFINE rest == Without(pending, gone)
    <3>1. pending' = rest \/ Capture(rest, hint, t)
      BY <2>2 DEF HerdrReconcile
    <3>2. IsTrimOf(rest, pending) /\ hint \in EventIds
      BY WithoutTrims, IdAssumption
    <3> HIDE DEF rest
    <3>3. CASE Capture(rest, hint, t)
      BY <1>1, <3>2, <3>3, CaptureKeepsCaps
    <3>4. CASE pending' = rest
      BY <1>1, <3>2, <3>4, TrimKeepsCaps
    <3> QED
      BY <3>1, <3>3, <3>4
  <2> QED
    BY <1>4, <1>6, <2>1, <2>2 DEF CaptureStep, HerdrOff
<1>7. CASE UploadStep
  <2>1. CASE Pick \/ Complete
    BY <1>4, <2>1 DEF Pick, Complete
  <2>2. CASE Retry
    <3> DEFINE attempts == up.attempts + 1
               next == now + Delay(attempts)
    <3>1. pending' = Postpone(pending, up.id, attempts, next)
      BY <2>2 DEF Retry
    <3>2. attempts \in Nat
      BY <1>1, <2>2 DEF Retry, TypeOK, Uploader, Idle
    <3>3. Delay(attempts) \in Nat
      BY NumberAssumption DEF Delay
    <3>4. next \in Nat
      BY <1>1, <3>3 DEF TypeOK
    <3> HIDE DEF attempts, next
    <3>5. IsPostponeOf(Postpone(pending, up.id, attempts, next), pending)
      BY <1>1, <3>2, <3>4, PostponePostpones, Zenon
    <3>6. IsPostponeOf(pending', pending)
      BY <3>1, <3>5, Zenon
    <3> QED
      BY <3>6, SameRowsKeepCaps DEF IsPostponeOf
  <2> QED
    BY <1>2, <1>7, <2>1, <2>2
    DEF UploadStep, Snapshot, Accepted, Dismissed, StripMetadata, Failed, StatementFails
<1>8. CASE Crash \/ Tick \/ UNCHANGED vars
  BY <1>2, <1>8 DEF Crash, Tick, vars
<1> QED
  BY <1>5, <1>6, <1>7, <1>8 DEF Next

LEMMA CapInvAlways == Spec => []CapInv
BY CapInit, CapStep, InvAlways, PTL DEF Spec

\* No session has more than SessionCap Herdr rows, all have at most HerdrCap, and
\* the table at most TotalCap, whatever is captured, with clocks that lag, and
\* whatever is deleted, bound and retried in between (queue.go:140-145).
THEOREM CapsKept == Spec => []CapsHold
<1>1. CapInv => CapsHold
  BY DEF CapInv
<1> QED
  BY <1>1, CapInvAlways, PTL

------------------------------------------------------------------------------
(* Capture and delivery implement the outboxes of module Outbox.  An unbound  *)
(* row counts as one of the endpoint on disk; by BindingInvariant that is the *)
(* one it will be bound to, so binding moves nothing.                         *)

\* What the worker is about to take out of the queue, its backend has settled.
DoneIsSettled == up.pc = "done" => Exchange \in settled

\* The inductive invariant of the refinement.
OInv == IInv /\ DoneIsSettled

LEMMA DoneInit == Init => DoneIsSettled
BY DEF Init, DoneIsSettled, Idle

\* Steps that leave the worker and the history alone, or that make it idle.
LEMMA DoneKept ==
  ASSUME DoneIsSettled, up' = up \/ up' = Idle, settled' = settled
  PROVE  DoneIsSettled'
BY DEF DoneIsSettled, Exchange, Idle

LEMMA DoneStep == OInv /\ [Next]_vars => DoneIsSettled'
<1> SUFFICES ASSUME OInv, [Next]_vars PROVE DoneIsSettled'
  OBVIOUS
<1> USE DEF OInv
<1>1. CASE ConfigStep
  BY <1>1, DoneKept DEF ConfigStep, Load, Apply, Migrate, SwitchSave, Enroll, SwitchBind
<1>2. CASE CaptureStep
  BY <1>2, DoneKept DEF CaptureStep, HookCapture, TestCapture, HerdrReconcile, HerdrOff
<1>3. CASE UploadStep
  <2>1. ASSUME up.pc = "sending", UNCHANGED settled,
               up' = [up EXCEPT !.bare = TRUE] \/ up' = [up EXCEPT !.pc = "failed"]
        PROVE  DoneIsSettled'
    <3>1. up'.pc # "done"
      BY <2>1 DEF IInv, TypeOK, Uploader, Idle
    <3> QED
      BY <3>1 DEF DoneIsSettled
  <2>2. CASE Snapshot
    BY <2>2 DEF Snapshot, DoneIsSettled, Idle
  <2>3. CASE Pick
    <3>1. up.pc = "snapshot" /\ up \in Uploader
      BY <2>3 DEF Pick, IInv, TypeOK
    <3>2. up \in [pc: {"snapshot", "sending", "done", "failed"}, endpoint: Endpoints,
                 id: EventIds \cup {NoId}, attempts: Nat, bare: BOOLEAN]
      BY <3>1 DEF Uploader, Idle
    <3>3. CASE up' = Idle
      BY <3>3 DEF DoneIsSettled, Idle
    <3>4. ASSUME NEW i, up' = [up EXCEPT !.pc = "sending", !.id = i,
                                         !.attempts = pending[i].attempts]
          PROVE  DoneIsSettled'
      BY <3>2, <3>4 DEF DoneIsSettled
    <3> QED
      BY <2>3, <3>3, <3>4 DEF Pick
  <2>4. CASE Accepted \/ Dismissed
    <3>1. /\ up.pc = "sending" /\ up' = [up EXCEPT !.pc = "done"]
          /\ settled' = settled \cup {Exchange}
      BY <2>4 DEF Accepted, Dismissed
    <3>2. up'.endpoint = up.endpoint /\ up'.id = up.id
      BY <3>1 DEF IInv, TypeOK, Uploader, Idle
    <3> QED
      BY <3>1, <3>2 DEF DoneIsSettled, Exchange
  <2>5. CASE StripMetadata
    BY <2>1, <2>5 DEF StripMetadata
  <2>6. CASE Failed
    <3>1. up'.pc # "done"
      BY <2>6 DEF Failed, IInv, TypeOK, Uploader, Idle
    <3> QED
      BY <3>1 DEF DoneIsSettled
  <2>7. CASE Complete
    BY <2>7, DoneKept DEF Complete
  <2>8. CASE Retry
    BY <2>8, DoneKept DEF Retry
  <2>9. CASE StatementFails
    BY <2>9, DoneKept DEF StatementFails
  <2> QED
    BY <1>3, <2>2, <2>3, <2>4, <2>5, <2>6, <2>7, <2>8, <2>9 DEF UploadStep
<1>4. CASE Crash
  BY <1>4, DoneKept DEF Crash
<1>5. CASE Tick
  BY <1>5, DoneKept DEF Tick
<1>6. CASE UNCHANGED vars
  BY <1>6, DoneKept DEF vars
<1> QED
  BY <1>1, <1>2, <1>3, <1>4, <1>5, <1>6 DEF Next

LEMMA OInvAlways == Spec => []OInv
<1>1. Init => OInv
  BY InvInit, DoneInit DEF OInv
<1>2. OInv /\ [Next]_vars => OInv'
  BY InvStep, DoneStep DEF OInv
<1> QED
  BY <1>1, <1>2, PTL DEF Spec

------------------------------------------------------------------------------
(* How steps on the table change the outboxes. *)

\* Every row is in the outbox of a backend.
LEMMA OwnersAreBackends ==
  ASSUME IInv
  PROVE  /\ \A i \in DOMAIN pending : i \in EventIds /\ OwnerOf(i) \in Backends
         /\ Held \subseteq Backends \X EventIds
<1>1. Stored[disk.endpoint] \in Backends
  BY EndpointAssumption DEF IInv, TypeOK, Config
<1>2. \A i \in DOMAIN pending : i \in EventIds /\ OwnerOf(i) \in Backends
  BY <1>1 DEF IInv, TypeOK, IsQueue, Row, OwnerOf
<1> QED
  BY <1>2 DEF Held

\* A table with the same rows, bound as before, and the same owner for unbound
\* ones, has the same outboxes.
LEMMA SameHeld ==
  ASSUME DOMAIN pending' = DOMAIN pending,
         \A i \in DOMAIN pending : pending'[i].backend = pending[i].backend,
         \A i \in DOMAIN pending : pending[i].backend = NoBackend => disk' = disk
  PROVE  Held' = Held
<1>1. \A i \in DOMAIN pending : OwnerOf(i)' = OwnerOf(i)
  BY DEF OwnerOf
<1> QED
  BY <1>1 DEF Held

\* A table with fewer rows has no more in the outboxes.
LEMMA TrimHeld ==
  ASSUME IsTrimOf(pending', pending), disk' = disk
  PROVE  /\ Held' \subseteq Held
         /\ \A i \in DOMAIN pending' : OwnerOf(i)' = OwnerOf(i)
<1>1. \A i \in DOMAIN pending' : i \in DOMAIN pending /\ OwnerOf(i)' = OwnerOf(i)
  BY DEF OwnerOf, IsTrimOf
<1> QED
  BY <1>1 DEF Held

\* Binding moves nothing from one outbox to another.
LEMMA BindHeld ==
  ASSUME IInv, NEW e \in Endpoints,
         queueBackend = NoBackend /\ DOMAIN pending # {} => e = disk.endpoint,
         pending' = BindRows(pending, queueBackend, Stored[e]), disk' = disk
  PROVE  Held' = Held
<1> DEFINE b == IF queueBackend = NoBackend THEN Stored[e] ELSE queueBackend
<1>1. Stored[e] \in Backends /\ IsQueue(pending) /\ queueBackend \in Backends \cup {NoBackend}
  BY EndpointAssumption DEF IInv, TypeOK
<1>2. IsBindOf(pending', pending, b)
  <2>1. IsBindOf(BindRows(pending, queueBackend, Stored[e]), pending, b)
    BY <1>1, BindRowsBinds, Zenon
  <2> QED
    BY <2>1, Zenon
<1>3. \A i \in DOMAIN pending : pending[i].backend = NoBackend => b = Stored[disk.endpoint]
  BY DEF IInv, BindingInvariant
<1>4. b # NoBackend
  BY <1>1, BackendAssumption
<1> HIDE DEF b
<1>5. \A i \in DOMAIN pending : OwnerOf(i)' = OwnerOf(i)
  BY <1>2, <1>3, <1>4 DEF IsBindOf, OwnerOf
<1> QED
  BY <1>2, <1>5 DEF IsBindOf, Held

\* A capture puts its event in the outbox of the active backend, if anywhere.
LEMMA PutHeld ==
  ASSUME IInv, NEW q, IsTrimOf(q, pending), NEW id \in EventIds, NEW t,
         id \in DOMAIN pending => id \in DOMAIN q,
         queueBackend # NoBackend, Capture(q, id, t), disk' = disk,
         UNCHANGED <<up, settled>>
  PROVE  O!Next
<1>1. IsQueue(q) /\ t \in Nat /\ queueBackend \in Backends
  BY DEF IsTrimOf, IInv, TypeOK, Capture, ClockReadings
<1>2. IsEnqueueOf(pending', q, id, queueBackend)
  <2>1. IsEnqueueOf(Enqueue(q, id, t, queueBackend), q, id, queueBackend)
    BY <1>1, EnqueueEnqueues, Zenon
  <2> QED
    BY <2>1, Zenon DEF Capture
<1>3. \A i \in DOMAIN pending' \cap DOMAIN q : i \in DOMAIN pending /\ OwnerOf(i)' = OwnerOf(i)
  BY <1>2 DEF IsEnqueueOf, IsTrimOf, OwnerOf
<1>4. \A i \in DOMAIN pending' \ DOMAIN q : i = id /\ OwnerOf(i)' = queueBackend
  BY <1>1, <1>2, BackendAssumption DEF IsEnqueueOf, OwnerOf
<1>5. Offered' = Offered /\ settled' = settled
  BY DEF Offered, Exchange
<1>6. CASE id \in DOMAIN pending' \ DOMAIN q
  <2>1. <<queueBackend, id>> \in Held'
    BY <1>4, <1>6 DEF Held
  <2>2. Held' \subseteq Held \cup {<<queueBackend, id>>}
    BY <1>3, <1>4 DEF Held
  <2>3. \A p \in Held : p[2] # id
    BY <1>6 DEF Held
  <2>4. O!Put(queueBackend, id)
    BY <1>5, <2>1, <2>2, <2>3 DEF O!Put
  <2> QED
    BY <1>1, <2>4 DEF O!Next
<1>7. CASE id \notin DOMAIN pending' \ DOMAIN q
  <2>1. Held' \subseteq Held
    BY <1>3, <1>4, <1>7 DEF Held
  <2> QED
    BY <1>5, <2>1 DEF O!Next, O!GiveUp
<1> QED
  BY <1>6, <1>7

------------------------------------------------------------------------------
(* Every step is one of the outboxes, or none. *)

Steps == O!Next \/ UNCHANGED <<Held, Offered, settled>>

LEMMA GiveUpStep ==
  ASSUME IsTrimOf(pending', pending), UNCHANGED <<disk, up, settled>>
  PROVE  Steps
<1>1. Held' \subseteq Held
  BY TrimHeld
<1>2. Offered' = Offered
  BY DEF Offered, Exchange
<1> QED
  BY <1>1, <1>2 DEF Steps, O!Next, O!GiveUp

LEMMA ConfigMaps == IInv /\ ConfigStep => Steps
<1> SUFFICES ASSUME IInv, ConfigStep PROVE Steps
  OBVIOUS
<1>1. UNCHANGED <<up, settled>>
  BY DEF ConfigStep, Load, Apply, Migrate, SwitchSave, Enroll, SwitchBind
<1>2. Offered' = Offered
  BY <1>1 DEF Offered, Exchange
<1>3. Held' = Held
  <2>1. CASE Apply
    <3>1. loaded.endpoint \in Endpoints
      BY <2>1, NoConfigIsNoConfig DEF Apply, IInv, TypeOK, Config
    <3>2. queueBackend = NoBackend /\ DOMAIN pending # {} => loaded.endpoint = disk.endpoint
      BY <2>1 DEF Apply, IInv, BindingInvariant
    <3> QED
      BY <2>1, <3>1, <3>2, BindHeld DEF Apply
  <2>2. ASSUME NEW endpoint \in Endpoints, SwitchBind(endpoint)
        PROVE  Held' = Held
    <3>1. disk.endpoint \in Endpoints
      BY DEF IInv, TypeOK, Config
    <3>2. CASE pending' = pending
      BY <2>2, <3>2, SameHeld DEF SwitchBind
    <3> QED
      BY <2>2, <3>1, <3>2, BindHeld DEF SwitchBind
  <2>3. CASE Load \/ Migrate \/ SwitchSave \/ \E state \in States : Enroll(state)
    <3>1. pending' = pending
      BY <2>3 DEF Load, Migrate, SwitchSave, Enroll
    <3>2. queueBackend = NoBackend /\ DOMAIN pending # {} => disk' = disk
      BY <2>3 DEF Load, Migrate, SwitchSave, Enroll, Running, IInv, BindingInvariant
    <3>3. \A i \in DOMAIN pending : pending[i].backend = NoBackend => disk' = disk
      BY <3>2 DEF IInv, BindingInvariant
    <3> QED
      BY <3>1, <3>3, SameHeld
  <2> QED
    BY <2>1, <2>2, <2>3 DEF ConfigStep
<1> QED
  BY <1>1, <1>2, <1>3 DEF Steps

LEMMA CaptureMaps == IInv /\ CaptureStep => Steps
<1> SUFFICES ASSUME IInv, CaptureStep PROVE Steps
  OBVIOUS
<1>1. IsTrimOf(pending, pending)
  BY DEF IsTrimOf
<1>2. Running => queueBackend # NoBackend
  BY DEF IInv, BindingInvariant, Running
<1>3. ASSUME NEW id \in EventIds, NEW t, HookCapture(id, t) \/ TestCapture(id, t)
      PROVE  Steps
  <2>1. Capture(pending, id, t) /\ queueBackend # NoBackend /\ UNCHANGED <<disk, up, settled>>
    BY <1>2, <1>3 DEF HookCapture, TestCapture
  <2> QED
    BY <1>1, <2>1, PutHeld DEF Steps
<1>4. ASSUME NEW s, NEW gone, NEW hint \in Hints, NEW t, HerdrReconcile(s, gone, hint, t)
      PROVE  Steps
  <2> DEFINE rest == Without(pending, gone)
  <2>1. IsTrimOf(rest, pending)
    BY WithoutTrims
  <2>2. UNCHANGED <<disk, up, settled>>
    BY <1>4 DEF HerdrReconcile
  <2>3. \/ pending' = rest /\ captured' = captured
        \/ Running /\ Fresh(hint) /\ Capture(rest, hint, t)
    BY <1>4 DEF HerdrReconcile
  <2> HIDE DEF rest
  <2>4. CASE pending' = rest
    BY <2>1, <2>2, <2>4, GiveUpStep
  <2>5. CASE Running /\ Fresh(hint) /\ Capture(rest, hint, t)
    <3>1. hint \in EventIds
      BY IdAssumption
    <3>2. \A i \in DOMAIN pending : ~Fresh(i)
      <4>1. \A i \in DOMAIN pending : /\ pending[i].backend \in Backends
                                     /\ <<pending[i].backend, i>> \in captured
        BY <1>2, <2>5 DEF IInv, TypeOK, IsQueue, Row, BindingInvariant, RowsStayWhereCaptured
      <4> QED
        BY <4>1 DEF Fresh
    <3>3. hint \notin DOMAIN pending
      BY <2>5, <3>2
    <3> QED
      BY <1>2, <2>1, <2>2, <2>5, <3>1, <3>3, PutHeld DEF Steps
  <2> QED
    BY <2>3, <2>4, <2>5
<1>5. CASE HerdrOff
  <2>1. pending' = Without(pending, HerdrRows(pending)) /\ UNCHANGED <<disk, up, settled>>
    BY <1>5 DEF HerdrOff
  <2>2. IsTrimOf(pending', pending)
    BY <2>1, WithoutTrims, Zenon
  <2> QED
    BY <2>1, <2>2, GiveUpStep
<1> QED
  BY <1>3, <1>4, <1>5 DEF CaptureStep
\* Where the worker is, unless it is idle.
Exchanging == [pc: {"snapshot", "sending", "done", "failed"}, endpoint: Endpoints,
               id: EventIds \cup {NoId}, attempts: Nat, bare: BOOLEAN]

LEMMA PickMaps == IInv /\ Pick => Steps
<1> SUFFICES ASSUME IInv, Pick PROVE Steps
  OBVIOUS
<1>1. pending' = Without(pending, Expired(pending, now)) /\ UNCHANGED <<disk, settled>>
  BY DEF Pick
<1>2. IsTrimOf(pending', pending)
  BY <1>1, WithoutTrims, Zenon
<1>3. Held' \subseteq Held
  BY <1>1, <1>2, TrimHeld
<1>4. up.pc = "snapshot" /\ up \in Exchanging
  <2>1. up.pc = "snapshot" /\ up \in Uploader
    BY DEF Pick, IInv, TypeOK
  <2> QED
    BY <2>1 DEF Uploader, Idle, Exchanging
<1>5. Offered = {}
  BY <1>4 DEF Offered
<1>6. CASE up' = Idle
  <2>1. Offered' = {}
    BY <1>6 DEF Offered, Idle
  <2> QED
    BY <1>1, <1>3, <1>5, <2>1 DEF Steps, O!Next, O!GiveUp
<1>7. ASSUME NEW i \in Due(pending, now, Compared[up.endpoint]),
             up' = [up EXCEPT !.pc = "sending", !.id = i, !.attempts = pending[i].attempts]
      PROVE  Steps
  <2>1. /\ i \in DOMAIN pending /\ i \in EventIds /\ pending[i].expires > now
        /\ pending[i].backend = Compared[up.endpoint]
    BY <1>7 DEF Due, IInv, TypeOK, IsQueue
  <2>2. up.endpoint \in Endpoints /\ Compared[up.endpoint] \in Backends
        /\ Stored[up.endpoint] \in Backends
    BY <1>4, EndpointAssumption DEF Exchanging
  <2>3. Compared[up.endpoint] = Stored[up.endpoint]
    <3>1. <<Compared[up.endpoint], i>> \in captured
      BY <2>1, <2>2, BackendAssumption DEF IInv, BindingInvariant, RowsStayWhereCaptured
    <3>2. PICK f \in Endpoints : Compared[up.endpoint] = Stored[f]
      BY <3>1 DEF IInv, BindingInvariant, StoredNames
    <3> QED
      BY <2>2, <3>2, CanonicalAssumption
  <2>4. i \in DOMAIN pending'
    <3>1. i \notin Expired(pending, now)
      <4>1. pending[i].expires \in Nat /\ now \in Nat
        BY <2>1 DEF IInv, TypeOK, IsQueue, Row
      <4> QED
        BY <2>1, <4>1 DEF Expired
    <3> QED
      BY <1>1, <2>1, <3>1 DEF Without, Restrict
  <2>5. OwnerOf(i)' = Stored[up.endpoint]
    <3>1. OwnerOf(i)' = OwnerOf(i)
      BY <1>1, <1>2, <2>4, TrimHeld
    <3> QED
      BY <2>1, <2>2, <2>3, <3>1, BackendAssumption DEF OwnerOf
  <2>6. <<Stored[up.endpoint], i>> \in Held'
    BY <2>4, <2>5 DEF Held
  <2>7. Offered' = {<<Stored[up.endpoint], i>>}
    <3>1. up'.pc = "sending" /\ up'.id = i /\ up'.endpoint = up.endpoint
      BY <1>4, <1>7 DEF Exchanging
    <3> QED
      BY <3>1 DEF Offered, Exchange
  <2>8. O!Offer(Stored[up.endpoint], i)
    BY <1>1, <1>3, <1>5, <2>6, <2>7 DEF O!Offer
  <2> QED
    BY <2>1, <2>2, <2>8 DEF Steps, O!Next
<1> QED
  BY <1>6, <1>7 DEF Pick

\* An answer settles the pair on offer; a failure may have settled it, too.
LEMMA ExchangeMaps ==
  ASSUME IInv, Accepted \/ Dismissed \/ StripMetadata \/ Failed
  PROVE  Steps
<1>1. up.pc = "sending" /\ up \in Exchanging /\ UNCHANGED <<pending, disk>>
  BY DEF Accepted, Dismissed, StripMetadata, Failed, IInv, TypeOK, Uploader, Idle, Exchanging
<1>2. Held' = Held
  BY <1>1, SameHeld
<1>3. /\ up'.pc \in {"sending", "done", "failed"}
      /\ up'.endpoint = up.endpoint /\ up'.id = up.id
  BY <1>1 DEF Accepted, Dismissed, StripMetadata, Failed, Exchanging
<1>4. Offered = {Exchange} /\ Offered' = Offered
  BY <1>1, <1>3 DEF Offered, Exchange
<1>5. settled' = settled \/ settled' = settled \cup {Exchange}
  BY DEF Accepted, Dismissed, StripMetadata, Failed
<1> QED
  BY <1>2, <1>4, <1>5 DEF Steps, O!Next, O!Settle

LEMMA CompleteMaps == OInv /\ Complete => Steps
<1> SUFFICES ASSUME OInv, Complete PROVE Steps
  OBVIOUS
<1>1. /\ up.pc = "done" /\ up' = Idle
      /\ pending' = Without(pending, {up.id}) /\ UNCHANGED <<disk, settled>>
  BY DEF Complete
<1>2. up \in Exchanging /\ up.id \in EventIds
  BY <1>1 DEF OInv, IInv, TypeOK, Uploader, Idle, Exchanging
<1>3. Offered = {Exchange} /\ Offered' = {} /\ Exchange \in settled
  BY <1>1 DEF Offered, Idle, OInv, DoneIsSettled
<1>4. DOMAIN pending' = DOMAIN pending \ {up.id}
  BY <1>1 DEF Without, Restrict
<1>5. \A i \in DOMAIN pending' : OwnerOf(i)' = OwnerOf(i)
  BY <1>1 DEF OwnerOf, Without, Restrict
<1>6. Held' = {p \in Held : p[2] # up.id}
  BY <1>4, <1>5 DEF Held
<1>7. Stored[up.endpoint] \in Backends
  BY <1>2, EndpointAssumption DEF Exchanging
<1>8. O!TakeOut(Stored[up.endpoint], up.id)
  BY <1>1, <1>3, <1>6 DEF O!TakeOut, Exchange
<1> QED
  BY <1>2, <1>7, <1>8 DEF Steps, O!Next

LEMMA RetryMaps == IInv /\ Retry => Steps
<1> SUFFICES ASSUME IInv, Retry PROVE Steps
  OBVIOUS
<1>1. /\ up.pc = "failed" /\ up' = Idle /\ UNCHANGED <<disk, settled>>
      /\ pending' = Postpone(pending, up.id, up.attempts + 1, now + Delay(up.attempts + 1))
  BY DEF Retry
<1>2. /\ DOMAIN pending' = DOMAIN pending
      /\ \A i \in DOMAIN pending : pending'[i].backend = pending[i].backend
  <2>1. IsQueue(pending)
    BY DEF IInv, TypeOK
  <2>2. \A i \in DOMAIN pending : pending[i] \in Row
    BY <2>1 DEF IsQueue
  <2> QED
    BY <1>1, <2>2 DEF Postpone, Row
<1>3. Held' = Held
  BY <1>1, <1>2, SameHeld
<1>4. Offered = {Exchange} /\ Offered' = {}
  BY <1>1 DEF Offered, Idle
<1> QED
  BY <1>1, <1>3, <1>4 DEF Steps, O!Next, O!Release

\* The worker begins a pass, leaves the row as it is, or dies: no event is moved.
LEMMA IdleMaps ==
  ASSUME IInv, Snapshot \/ StatementFails \/ Crash \/ Tick
  PROVE  Steps
<1>1. UNCHANGED <<pending, disk, settled>>
  BY DEF Snapshot, StatementFails, Crash, Tick
<1>2. Held' = Held
  BY <1>1, SameHeld
<1>3. CASE Snapshot
  <2>1. Offered = {} /\ Offered' = {}
    BY <1>3 DEF Snapshot, Offered, Idle
  <2> QED
    BY <1>1, <1>2, <2>1 DEF Steps
<1>4. CASE StatementFails \/ Crash
  <2>1. Offered' = {}
    BY <1>4 DEF StatementFails, Crash, Offered, Idle
  <2> QED
    BY <1>1, <1>2, <2>1 DEF Steps, O!Next, O!Release
<1>5. CASE Tick
  <2>1. Offered' = Offered
    BY <1>5 DEF Tick, Offered, Exchange
  <2> QED
    BY <1>1, <1>2, <2>1 DEF Steps
<1> QED
  BY <1>3, <1>4, <1>5

LEMMA StepMaps == OInv /\ [Next]_vars => Steps
<1> SUFFICES ASSUME OInv, [Next]_vars PROVE Steps
  OBVIOUS
<1>1. IInv
  BY DEF OInv
<1>2. CASE UNCHANGED vars
  <2>1. Held' = Held
    BY <1>2, SameHeld DEF vars
  <2> QED
    BY <1>2, <2>1 DEF vars, Steps, Offered, Exchange
<1> QED
  BY <1>1, <1>2, ConfigMaps, CaptureMaps, PickMaps, ExchangeMaps, CompleteMaps, RetryMaps,
     IdleMaps DEF Next, UploadStep

LEMMA InitMaps == Init => O!Init
<1> SUFFICES ASSUME Init PROVE O!Init
  OBVIOUS
<1>1. Held \subseteq Backends \X EventIds
  BY InvInit, OwnersAreBackends
<1>2. Offered = {} /\ settled = {}
  BY DEF Init, Offered, Idle
<1> QED
  BY <1>1, <1>2 DEF O!Init

\* No configuration, refresh, switch, upgrade or crash moves an event from one
\* backend's outbox to another's, and what is taken out of one for having been
\* offered its backend has settled (queue.go:155-173, 180-214).
THEOREM QueueImplementsOutbox == Spec => OutboxSpec
<1>1. OInv /\ [Next]_vars => [O!Next]_<<Held, Offered, settled>>
  BY StepMaps DEF Steps
<1> QED
  BY <1>1, InitMaps, OInvAlways, PTL DEF Spec, OutboxSpec, O!Spec, O!outboxVars

------------------------------------------------------------------------------
(* How Codex rows leave.  A completion takes out the row of its event, and    *)
(* the row is the one that was sent, unless the event is a request, which may *)
(* have been captured a second time in between.                               *)

UploadInv ==
    /\ up.pc # "idle" => queueBackend # NoBackend
    /\ up.pc \in {"sending", "done"} =>
          /\ Exchange \in captured
          /\ up.id \in DOMAIN pending \ Requests =>
                pending[up.id].backend = Stored[up.endpoint]

\* The rows of pending' are rows of before, bound as they were if they were, or
\* those of requests and of events that had never been captured.
RowsKept ==
    \A i \in DOMAIN pending' :
        \/ /\ i \in DOMAIN pending
           /\ pending[i].backend # NoBackend => pending'[i].backend = pending[i].backend
        \/ i \in Requests \/ Fresh(i)

LEMMA UploadKept ==
  ASSUME IInv, UploadInv, UNCHANGED up, captured \subseteq captured', RowsKept,
         queueBackend # NoBackend => queueBackend' # NoBackend
  PROVE  UploadInv'
<1>1. Exchange' = Exchange
  BY DEF Exchange
<1>2. ASSUME up.pc \in {"sending", "done"}, up.id \in DOMAIN pending' \ Requests
      PROVE  pending'[up.id].backend = Stored[up.endpoint]
  <2>1. up \in Exchanging
    BY <1>2 DEF IInv, TypeOK, Uploader, Idle, Exchanging
  <2>2. ~ Fresh(up.id)
    BY <1>2, <2>1, EndpointAssumption DEF UploadInv, Fresh, Exchange, Exchanging
  <2>3. up.id \in DOMAIN pending
    BY <1>2, <2>2 DEF RowsKept
  <2>4. pending[up.id].backend # NoBackend
    BY <1>2, <2>3 DEF UploadInv, IInv, BindingInvariant
  <2> QED
    BY <1>2, <2>2, <2>3, <2>4 DEF RowsKept, UploadInv
<1> QED
  BY <1>1, <1>2 DEF UploadInv

LEMMA UploadInit == Init => UploadInv
BY DEF Init, UploadInv, Idle

LEMMA ConfigKeepsRows == IInv /\ UploadInv /\ ConfigStep => UploadInv'
<1> SUFFICES ASSUME IInv, UploadInv, ConfigStep PROVE UploadInv'
  OBVIOUS
<1>1. UNCHANGED <<up, captured>>
  BY DEF ConfigStep, Load, Apply, Migrate, SwitchSave, Enroll, SwitchBind
<1>2. IsQueue(pending) /\ queueBackend \in Backends \cup {NoBackend}
      /\ disk.endpoint \in Endpoints
  BY DEF IInv, TypeOK, Config
<1>3. ASSUME NEW e \in Endpoints, pending' = BindRows(pending, queueBackend, Stored[e]),
             queueBackend' = Stored[e]
      PROVE  UploadInv'
  <2>1. Stored[e] \in Backends
    BY EndpointAssumption
  <2> DEFINE b == IF queueBackend = NoBackend THEN Stored[e] ELSE queueBackend
  <2>2. IsBindOf(BindRows(pending, queueBackend, Stored[e]), pending, b)
    BY <1>2, <2>1, BindRowsBinds, Zenon
  <2>3. IsBindOf(pending', pending, b)
    BY <1>3, <2>2, Zenon
  <2> HIDE DEF b
  <2>4. RowsKept
    BY <2>3 DEF IsBindOf, RowsKept
  <2> QED
    BY <1>1, <1>3, <2>1, <2>4, BackendAssumption, UploadKept
<1>4. CASE Apply
  <2>1. loaded.endpoint \in Endpoints
    BY <1>4, NoConfigIsNoConfig DEF Apply, IInv, TypeOK, Config
  <2> QED
    BY <1>3, <1>4, <2>1 DEF Apply
<1>5. ASSUME NEW endpoint \in Endpoints, SwitchBind(endpoint)
      PROVE  UploadInv'
  <2>1. CASE UNCHANGED <<pending, queueBackend>>
    BY <1>1, <2>1, UploadKept DEF RowsKept
  <2> QED
    BY <1>2, <1>3, <1>5, <2>1 DEF SwitchBind
<1>6. CASE Load \/ Migrate \/ SwitchSave \/ \E state \in States : Enroll(state)
  <2>1. UNCHANGED <<pending, queueBackend>>
    BY <1>6 DEF Load, Migrate, SwitchSave, Enroll
  <2> QED
    BY <1>1, <2>1, UploadKept DEF RowsKept
<1> QED
  BY <1>4, <1>5, <1>6 DEF ConfigStep

LEMMA CaptureKeepsRows == IInv /\ UploadInv /\ CaptureStep => UploadInv'
<1> SUFFICES ASSUME IInv, UploadInv, CaptureStep PROVE UploadInv'
  OBVIOUS
<1>1. IsTrimOf(pending, pending)
  BY DEF IsTrimOf
<1>2. UNCHANGED <<up, queueBackend>>
  BY DEF CaptureStep, HookCapture, TestCapture, HerdrReconcile, HerdrOff
<1>3. ASSUME NEW q, IsTrimOf(q, pending), pending' = q, captured' = captured
      PROVE  UploadInv'
  <2>1. RowsKept
    BY <1>3 DEF RowsKept, IsTrimOf
  <2> QED
    BY <1>2, <1>3, <2>1, UploadKept
<1>4. ASSUME NEW q, IsTrimOf(q, pending), NEW id \in EventIds, NEW t, Capture(q, id, t),
             id \in Requests \/ Fresh(id)
      PROVE  UploadInv'
  <2>1. IsQueue(q) /\ t \in Nat /\ queueBackend \in Backends \cup {NoBackend}
    BY <1>4 DEF IsTrimOf, IInv, TypeOK, Capture, ClockReadings
  <2>2. IsEnqueueOf(Enqueue(q, id, t, queueBackend), q, id, queueBackend)
    BY <2>1, EnqueueEnqueues, Zenon
  <2>3. IsEnqueueOf(pending', q, id, queueBackend)
    BY <1>4, <2>2, Zenon DEF Capture
  <2>4. RowsKept
    BY <1>4, <2>3 DEF RowsKept, IsEnqueueOf, IsTrimOf
  <2>5. captured \subseteq captured'
    BY <1>4 DEF Capture
  <2> QED
    BY <1>2, <2>4, <2>5, UploadKept
<1>5. ASSUME NEW id \in EventIds, NEW t, HookCapture(id, t) \/ TestCapture(id, t)
      PROVE  UploadInv'
  BY <1>1, <1>4, <1>5 DEF HookCapture, TestCapture
<1>6. ASSUME NEW s, NEW gone, NEW hint \in Hints, NEW t, HerdrReconcile(s, gone, hint, t)
      PROVE  UploadInv'
  <2> DEFINE rest == Without(pending, gone)
  <2>1. \/ pending' = rest /\ captured' = captured
        \/ Fresh(hint) /\ Capture(rest, hint, t)
    BY <1>6 DEF HerdrReconcile
  <2>2. IsTrimOf(rest, pending) /\ hint \in EventIds
    BY WithoutTrims, IdAssumption
  <2> HIDE DEF rest
  <2> QED
    BY <1>3, <1>4, <2>1, <2>2
<1>7. CASE HerdrOff
  <2>1. pending' = Without(pending, HerdrRows(pending)) /\ captured' = captured
    BY <1>7 DEF HerdrOff
  <2>2. IsTrimOf(Without(pending, HerdrRows(pending)), pending)
    BY WithoutTrims, Zenon
  <2> QED
    BY <1>3, <2>1, <2>2
<1> QED
  BY <1>5, <1>6, <1>7 DEF CaptureStep

LEMMA UploadsKeepRows == IInv /\ UploadInv /\ UploadStep => UploadInv'
<1> SUFFICES ASSUME IInv, UploadInv, UploadStep PROVE UploadInv'
  OBVIOUS
<1>1. UNCHANGED <<queueBackend, captured>>
  BY DEF UploadStep, Snapshot, Pick, Accepted, Dismissed, StripMetadata, Failed, Complete,
         Retry, StatementFails
<1>2. CASE up' = Idle
  BY <1>2 DEF UploadInv, Idle
<1>3. CASE Snapshot
  <2>1. queueBackend # NoBackend
    BY <1>3 DEF Snapshot, Running, IInv, BindingInvariant
  <2> QED
    BY <1>1, <1>3, <2>1 DEF Snapshot, UploadInv, Idle
<1>4. ASSUME Pick, up' # Idle
      PROVE  UploadInv'
  <2>1. up.pc = "snapshot" /\ up \in Exchanging
    <3>1. up.pc = "snapshot" /\ up \in Uploader
      BY <1>4 DEF Pick, IInv, TypeOK
    <3> QED
      BY <3>1 DEF Uploader, Idle, Exchanging
  <2>2. PICK i \in Due(pending, now, Compared[up.endpoint]) :
           up' = [up EXCEPT !.pc = "sending", !.id = i, !.attempts = pending[i].attempts]
    BY <1>4 DEF Pick
  <2>3. up'.pc = "sending" /\ up'.id = i /\ up'.endpoint = up.endpoint
    BY <2>1, <2>2 DEF Exchanging
  <2>4. PostsOnlyWhereCaptured'
    BY <1>4, PickStep DEF IInv, BindingInvariant
  <2>5. Exchange' \in captured'
    BY <2>3, <2>4 DEF PostsOnlyWhereCaptured
  <2>6. /\ i \in DOMAIN pending /\ pending[i].backend = Compared[up.endpoint]
        /\ up.endpoint \in Endpoints /\ Compared[up.endpoint] \in Backends
    BY <2>1, EndpointAssumption DEF Due, Exchanging
  <2>7. Compared[up.endpoint] = Stored[up.endpoint]
    <3>1. <<Compared[up.endpoint], i>> \in captured
      BY <2>6, BackendAssumption DEF IInv, BindingInvariant, RowsStayWhereCaptured
    <3>2. PICK f \in Endpoints : Compared[up.endpoint] = Stored[f]
      BY <3>1 DEF IInv, BindingInvariant, StoredNames
    <3> QED
      BY <2>6, <3>2, CanonicalAssumption
  <2>8. i \in DOMAIN pending' => pending'[i].backend = Stored[up.endpoint]
    <3>1. IsTrimOf(Without(pending, Expired(pending, now)), pending)
      BY WithoutTrims, Zenon
    <3>2. IsTrimOf(pending', pending)
      BY <1>4, <3>1 DEF Pick
    <3> QED
      BY <2>6, <2>7, <3>2 DEF IsTrimOf
  <2> QED
    BY <1>1, <2>1, <2>3, <2>5, <2>8 DEF UploadInv
<1>5. CASE Accepted \/ Dismissed \/ StripMetadata \/ Failed
  <2>1. up.pc = "sending" /\ up \in Exchanging /\ pending' = pending
    BY <1>5 DEF Accepted, Dismissed, StripMetadata, Failed, IInv, TypeOK, Uploader, Idle,
               Exchanging
  <2>2. up'.endpoint = up.endpoint /\ up'.id = up.id
    BY <1>5, <2>1 DEF Accepted, Dismissed, StripMetadata, Failed, Exchanging
  <2> QED
    BY <1>1, <2>1, <2>2 DEF UploadInv, Exchange
<1>6. CASE Complete \/ Retry \/ StatementFails
  BY <1>2, <1>6 DEF Complete, Retry, StatementFails
<1> QED
  BY <1>2, <1>3, <1>4, <1>5, <1>6 DEF UploadStep

LEMMA UploadInvStep == IInv /\ UploadInv /\ [Next]_vars => UploadInv'
<1>1. IInv /\ UploadInv /\ Crash => UploadInv'
  BY DEF Crash, UploadInv, Idle
<1>2. IInv /\ UploadInv /\ (Tick \/ UNCHANGED vars) => UploadInv'
  BY UploadKept DEF Tick, vars, RowsKept
<1> QED
  BY <1>1, <1>2, ConfigKeepsRows, CaptureKeepsRows, UploadsKeepRows DEF Next

LEMMA UploadInvAlways == Spec => []UploadInv
BY UploadInit, UploadInvStep, InvAlways, PTL DEF Spec

------------------------------------------------------------------------------
\* The ways CodexRowsAreNotLost allows a row to leave.
LeavesInOrder(i) ==
    \/ <<pending[i].backend, i>> \in settled
    \/ pending[i].expires <= now
    \/ Cardinality(CodexRows(pending')) = TotalCap

\* That of a request sent while it was captured again for another backend.
IsRepeated(i) == i \in Requests /\ \E b \in Backends : <<b, i>> \in settled

\* An event is captured for one backend only.
CapturedOnce == Requests = {} \/ \A e, f \in Endpoints : Stored[e] = Stored[f]

CodexStepsKeepRows ==
    \A i \in CodexRows(pending) \ DOMAIN pending' :
        LeavesInOrder(i) \/ (~CapturedOnce /\ IsRepeated(i))

LEMMA TrimmedInOrder ==
  ASSUME TypeOK, CapInv, NEW q, IsTrimOf(q, pending), CodexRows(pending) \subseteq DOMAIN q,
         NEW id \in EventIds, NEW t, Capture(q, id, t),
         NEW i \in CodexRows(pending) \ DOMAIN pending'
  PROVE  LeavesInOrder(i)
<1>1. /\ i \in CodexRows(q) \ DOMAIN pending' /\ q[i] = pending[i]
      /\ i \in DOMAIN pending
  BY DEF IsTrimOf, CodexRows, HerdrRows
<1>2. q[i].expires <= t \/ Cardinality(CodexRows(pending')) = TotalCap
  BY <1>1, CaptureKeepsCaps
<1>3. t <= now /\ t \in Nat /\ now \in Nat
  BY DEF Capture, ClockReadings, TypeOK
<1>4. pending[i].expires \in Nat
  BY <1>1 DEF TypeOK, IsQueue, Row
<1> QED
  BY <1>1, <1>2, <1>3, <1>4 DEF LeavesInOrder

LEMMA CodexStep ==
  ASSUME OInv, CapInv, UploadInv, [Next]_vars
  PROVE  CodexStepsKeepRows
<1> SUFFICES ASSUME NEW i \in CodexRows(pending) \ DOMAIN pending'
             PROVE  LeavesInOrder(i) \/ (~CapturedOnce /\ IsRepeated(i))
  BY DEF CodexStepsKeepRows
<1>1. IInv /\ TypeOK /\ IsTrimOf(pending, pending)
  BY DEF OInv, IInv, IsTrimOf
<1>2. i \in DOMAIN pending /\ i \notin HerdrRows(pending)
  BY DEF CodexRows
<1>3. DOMAIN pending' # DOMAIN pending
  BY <1>2
<1>4. CASE Pick
  <2>1. i \in Expired(pending, now)
    BY <1>2, <1>4 DEF Pick, Without, Restrict
  <2> QED
    BY <2>1 DEF Expired, LeavesInOrder
<1>5. CASE HerdrOff
  BY <1>2, <1>5 DEF HerdrOff, Without, Restrict
<1>6. ASSUME NEW id \in EventIds, NEW t, HookCapture(id, t) \/ TestCapture(id, t)
      PROVE  LeavesInOrder(i)
  <2>1. Capture(pending, id, t)
    BY <1>6 DEF HookCapture, TestCapture
  <2>2. CodexRows(pending) \subseteq DOMAIN pending
    BY DEF CodexRows
  <2> QED
    BY <1>1, <2>1, <2>2, TrimmedInOrder
<1>7. ASSUME NEW s, NEW gone, NEW hint \in Hints, NEW t, HerdrReconcile(s, gone, hint, t)
      PROVE  LeavesInOrder(i)
  <2> DEFINE rest == Without(pending, gone)
  <2>1. gone \subseteq SessionRows(pending, s) /\ (pending' = rest \/ Capture(rest, hint, t))
    BY <1>7 DEF HerdrReconcile
  <2>2. IsTrimOf(rest, pending) /\ hint \in EventIds
    BY WithoutTrims, IdAssumption
  <2>3. DOMAIN rest = DOMAIN pending \ gone
    BY DEF Without, Restrict
  <2>4. CodexRows(pending) \subseteq DOMAIN rest
    BY <2>1, <2>3 DEF CodexRows, SessionRows
  <2> HIDE DEF rest
  <2>5. Capture(rest, hint, t)
    BY <2>1, <2>4
  <2> QED
    BY <1>1, <2>2, <2>4, <2>5, TrimmedInOrder
<1>8. CASE Complete
  <2>1. i = up.id /\ up.pc = "done"
    BY <1>2, <1>8 DEF Complete, Without, Restrict
  <2>2. up \in Exchanging
    BY <1>1, <2>1 DEF TypeOK, Uploader, Idle, Exchanging
  <2>3. /\ <<Stored[up.endpoint], i>> \in settled
        /\ up.endpoint \in Endpoints /\ Stored[up.endpoint] \in Backends
    BY <2>1, <2>2, EndpointAssumption DEF OInv, DoneIsSettled, Exchange, Exchanging
  <2>4. CASE i \notin Requests
    <3>1. pending[i].backend = Stored[up.endpoint]
      BY <1>2, <2>1, <2>4 DEF UploadInv
    <3> QED
      BY <2>3, <3>1 DEF LeavesInOrder
  <2>5. CASE CapturedOnce /\ i \in Requests
    <3>1. \A e, f \in Endpoints : Stored[e] = Stored[f]
      BY <2>5 DEF CapturedOnce
    <3>2. <<pending[i].backend, i>> \in captured
      BY <1>1, <1>2, <2>1
      DEF UploadInv, IInv, BindingInvariant, RowsStayWhereCaptured
    <3>3. PICK e \in Endpoints : pending[i].backend = Stored[e]
      BY <1>1, <3>2 DEF IInv, BindingInvariant, StoredNames
    <3>4. pending[i].backend = Stored[up.endpoint]
      BY <2>3, <3>1, <3>3
    <3> QED
      BY <2>3, <3>4 DEF LeavesInOrder
  <2> QED
    BY <2>3, <2>4, <2>5 DEF IsRepeated
<1>9. CASE ConfigStep
  BY <1>3, <1>9 DEF ConfigStep, Load, Apply, Migrate, SwitchSave, Enroll, SwitchBind, BindRows
<1>10. CASE \/ Snapshot \/ Accepted \/ Dismissed \/ StripMetadata \/ Failed \/ Retry
            \/ StatementFails \/ Crash \/ Tick \/ UNCHANGED vars
  BY <1>3, <1>10 DEF Snapshot, Accepted, Dismissed, StripMetadata, Failed, Retry, Postpone,
                     StatementFails, Crash, Tick, vars
<1>11. CASE CaptureStep
  BY <1>5, <1>6, <1>7, <1>11 DEF CaptureStep
<1>12. CASE UploadStep
  BY <1>4, <1>8, <1>10, <1>12 DEF UploadStep
<1> QED
  BY <1>9, <1>10, <1>11, <1>12 DEF Next

\* A Codex row leaves the queue only when its backend has settled it, when it
\* has expired, or when it gives way to as many Codex rows as the table holds;
\* and, where there are several backends, when it is that of a request which
\* one of them has settled.
THEOREM CodexRowsLeave == Spec => [][CodexStepsKeepRows]_vars
<1>1. OInv /\ CapInv /\ UploadInv /\ [Next]_vars => [CodexStepsKeepRows]_vars
  BY CodexStep
<1> QED
  BY <1>1, OInvAlways, CapInvAlways, UploadInvAlways, PTL DEF Spec

\* So none is lost where no event is captured for two backends (queue.go:131-150,
\* 180-214).
THEOREM CodexRowsKept ==
  ASSUME CapturedOnce
  PROVE  Spec => CodexRowsAreNotLost
<1>1. [CodexStepsKeepRows]_vars
        => [\A i \in CodexRows(pending) \ DOMAIN pending' :
              \/ <<pending[i].backend, i>> \in settled
              \/ pending[i].expires <= now
              \/ Cardinality(CodexRows(pending')) = TotalCap]_vars
  BY DEF CodexStepsKeepRows, LeavesInOrder
<1> QED
  BY <1>1, CodexRowsLeave, PTL DEF CodexRowsAreNotLost
==============================================================================
