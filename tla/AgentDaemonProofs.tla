--------------------------- MODULE AgentDaemonProofs ---------------------------
(***************************************************************************)
(* What holds of AgentDaemon for any number of daemons, hooks, visitors,   *)
(* hints and bindings, any slots and channels, any agents, and any texts   *)
(* and limits of them: its types, that an accepted event is queued, that a *)
(* hint is filed as Herdr's, that the uploader loses no wake-up, that      *)
(* baselines are kept, and that a listening daemon keeps its address.      *)
(***************************************************************************)
EXTENDS AgentDaemon, PositionsProofs

\* The path names a daemon only while it listens there.
PathInv == path \in Daemons => Up(path) /\ daemon[path].listening

\* Only a hook sends events, and what is answered next is in the queue.
ReplyInv ==
    /\ \A c \in Clients : conn[c].message.kind = "event" => c \in Hooks
    /\ \A c \in Clients : conn[c].pc = "reply" => c \in Hooks /\ rows[c].state # "none"

\* A row that was retried is nobody's news.
LaterInv == \A i \in DOMAIN rows : rows[i].state = "later" => rows[i].by = "none"

\* What the uploader finds to be so when it has returned from a pass, it still
\* finds when it waits.
RestInv ==
    \A d \in Daemons :
        Up(d) /\ daemon[d].uploader \in {"return", "wait"} /\ ~daemon[d].wake => Announced(d)

\* A baseline is owed by a daemon that runs, which has it in its channel or map.
BaselineInv ==
    \A e \in Daemons, k \in Keys : <<e, k>> \in owed =>
        /\ Up(e)
        /\ \/ [key |-> k, baseline |-> TRUE] \in ToSet(daemon[e].channel)
           \/ IsBaseline(daemon[e].dirty, k)

\* What is being uploaded is in the queue, or has been there.
SendInv ==
    \A d \in Daemons : daemon[d].uploader = "send" =>
        daemon[d].id \in DOMAIN rows /\ rows[daemon[d].id].state # "none"

IInv ==
    /\ TypeOK /\ PathInv /\ ReplyInv /\ LaterInv /\ RestInv /\ BaselineInv /\ SendInv
    /\ AcceptedIsQueued /\ HintsAreFiledAsHerdr

------------------------------------------------------------------------------
(* Texts. *)

Visible == Runes \ {"format", "control"}

\* A text of these in which every space is between two that are none.
Clean(t) ==
    /\ t \in Seq(Visible)
    /\ \A i \in DOMAIN t : t[i] = "space" => i - 1 \in Solid(t) /\ i + 1 \in Solid(t)

Marked(t, kinds) == {i \in DOMAIN t : t[i] \in kinds}

LEMMA MarkedCounted ==
  ASSUME NEW t \in Seq(Runes), NEW kinds
  PROVE  /\ IsFiniteSet(Marked(t, kinds))
         /\ Cardinality(Marked(t, kinds)) \in Nat
<1>1. IsFiniteSet(1..Len(t))
  BY FS_Interval
<1>2. Marked(t, kinds) \subseteq 1..Len(t)
  BY DEF Marked
<1> QED
  BY <1>1, <1>2, FS_Subset, FS_CardinalityType

LEMMA BytesAre ==
  /\ \A t : Bytes(t) = Len(t) + 2 * Cardinality(Marked(t, {"wide", "format"}))
  /\ \A t : JsonWidth(t) = Bytes(t) + 5 * Cardinality(Marked(t, {"escaped", "control"}))
BY Zenon DEF Bytes, JsonWidth, Marked

LEMMA BytesType ==
  ASSUME NEW t \in Seq(Runes)
  PROVE  /\ Bytes(t) \in Nat /\ Len(t) <= Bytes(t)
         /\ JsonWidth(t) \in Nat /\ Bytes(t) <= JsonWidth(t)
<1>1. /\ Cardinality(Marked(t, {"wide", "format"})) \in Nat
      /\ Cardinality(Marked(t, {"escaped", "control"})) \in Nat
  BY MarkedCounted
<1> QED
  BY <1>1, BytesAre

LEMMA NoBytes == Bytes(<<>>) = 0
<1>1. Marked(<<>>, {"wide", "format"}) = {}
  BY DEF Marked
<1>2. Cardinality(Marked(<<>>, {"wide", "format"})) = 0
  BY <1>1, FS_EmptySet
<1>3. Len(<<>>) = 0
  OBVIOUS
<1> QED
  BY <1>2, <1>3, BytesAre

\* A shorter text with no more of the marked characters has no more bytes.
LEMMA FewerBytes ==
  ASSUME NEW t \in Seq(Runes), NEW r \in Seq(Runes), Len(r) <= Len(t),
         Cardinality(Marked(r, {"wide", "format"})) <= Cardinality(Marked(t, {"wide", "format"}))
  PROVE  Bytes(r) <= Bytes(t)
<1>1. /\ Cardinality(Marked(t, {"wide", "format"})) \in Nat
      /\ Cardinality(Marked(r, {"wide", "format"})) \in Nat
  BY MarkedCounted
<1> QED
  BY <1>1, BytesAre

\* What is chosen from a text has no more bytes.
LEMMA ChosenBytes ==
  ASSUME NEW t \in Seq(Runes), NEW kept \in SUBSET DOMAIN t
  PROVE  /\ Chosen(t, kept) \in Seq(Runes)
         /\ Bytes(Chosen(t, kept)) <= Bytes(t)
<1> DEFINE r == Chosen(t, kept)
           K == {"wide", "format"}
<1>1. r \in Seq(Runes)
  BY ChosenRanked
<1>2. PICK rank : Ranks(t, kept, rank)
  BY ChosenRanked
<1>3. /\ rank \in [kept -> DOMAIN r]
      /\ \A i, j \in kept : i < j => rank[i] < rank[j]
      /\ \A k \in DOMAIN r : \E i \in kept : rank[i] = k /\ r[k] = t[i]
  BY <1>2 DEF Ranks
<1> HIDE DEF r
<1> DEFINE From(k, i) == i \in kept /\ rank[i] = k /\ r[k] = t[i]
           back == [k \in DOMAIN r |-> CHOOSE i : From(k, i)]
<1>4. \A k \in DOMAIN r : back[k] \in kept /\ rank[back[k]] = k /\ r[k] = t[back[k]]
  <2> TAKE k \in DOMAIN r
  <2>1. \E i : From(k, i)
    BY <1>3
  <2> HIDE DEF From
  <2>2. From(k, back[k])
    BY <2>1, Zenon
  <2> QED BY <2>2 DEF From
<1> HIDE DEF back
<1>5. DOMAIN r = 1..Len(r) /\ Len(r) \in Nat /\ DOMAIN t = 1..Len(t) /\ Len(t) \in Nat
  BY <1>1
<1>6. /\ IsFiniteSet(1..Len(t)) /\ Cardinality(1..Len(t)) = Len(t)
      /\ IsFiniteSet(1..Len(r)) /\ Cardinality(1..Len(r)) = Len(r)
  <2>1. \A n \in Nat : IsFiniteSet(1..n) /\ Cardinality(1..n) = n
    <3> TAKE n \in Nat
    <3> QED BY FS_Interval
  <2> QED BY <1>5, <2>1
<1>7. Len(r) <= Len(t)
  <2>1. SUFFICES ASSUME Len(t) < Len(r) PROVE FALSE
    BY <1>5
  <2> DEFINE F == [k \in 1..Len(r) |-> back[k]]
  <2>2. F \in [1..Len(r) -> 1..Len(t)]
    BY <1>4, <1>5
  <2>3. \A i, j \in 1..Len(r) : i # j => F[i] # F[j]
    BY <1>4, <1>5
  <2> HIDE DEF F
  <2>4. \E i, j \in 1..Len(r) : i # j /\ F[i] = F[j]
    BY <1>6, <2>1, <2>2, FS_PigeonHole
  <2> QED BY <2>3, <2>4
<1>8. Cardinality(Marked(r, K)) <= Cardinality(Marked(t, K))
  <2> DEFINE A == Marked(r, K)
             B == Marked(t, K)
  <2>1. /\ IsFiniteSet(A) /\ Cardinality(A) \in Nat
        /\ IsFiniteSet(B) /\ Cardinality(B) \in Nat
    BY <1>1, MarkedCounted
  <2>2. SUFFICES ASSUME Cardinality(B) < Cardinality(A) PROVE FALSE
    BY <2>1
  <2> DEFINE F == [k \in A |-> back[k]]
  <2>3. F \in [A -> B]
    BY <1>4 DEF Marked
  <2>4. \A i, j \in A : i # j => F[i] # F[j]
    BY <1>4 DEF Marked
  <2> HIDE DEF F, A, B
  <2>5. \E i, j \in A : i # j /\ F[i] = F[j]
    BY <2>1, <2>2, <2>3, FS_PigeonHole
  <2> QED BY <2>4, <2>5
<1>9. Bytes(r) <= Bytes(t)
  BY <1>1, <1>7, <1>8, FewerBytes
<1> QED
  BY <1>1, <1>9 DEF r

\* Up to later positions there are no fewer bytes.
LEMMA PrefixBytes ==
  ASSUME NEW t \in Seq(Runes), NEW i \in 0..Len(t), NEW j \in 0..Len(t), i <= j
  PROVE  /\ SubSeq(t, 1, i) \in Seq(Runes)
         /\ Bytes(SubSeq(t, 1, i)) <= Bytes(SubSeq(t, 1, j))
<1> DEFINE K == {"wide", "format"}
<1>1. /\ SubSeq(t, 1, i) \in Seq(Runes) /\ Len(SubSeq(t, 1, i)) = i
      /\ SubSeq(t, 1, j) \in Seq(Runes) /\ Len(SubSeq(t, 1, j)) = j
      /\ \A k \in 1..i : SubSeq(t, 1, i)[k] = t[k]
      /\ \A k \in 1..j : SubSeq(t, 1, j)[k] = t[k]
  OBVIOUS
<1>2. Marked(SubSeq(t, 1, i), K) \subseteq Marked(SubSeq(t, 1, j), K)
  BY <1>1 DEF Marked
<1>3. Cardinality(Marked(SubSeq(t, 1, i), K)) <= Cardinality(Marked(SubSeq(t, 1, j), K))
  BY <1>1, <1>2, MarkedCounted, FS_Subset
<1> QED
  BY <1>1, <1>3, FewerBytes
\* The prefix of a text that is cut off is the longest with so many bytes.
LEMMA CutBytes ==
  ASSUME NEW t \in Seq(Runes), NEW max \in Nat
  PROVE  /\ Cut(t, max) \in Seq(Runes) /\ Bytes(Cut(t, max)) <= max
         /\ Len(Cut(t, max)) <= Len(t)
         /\ \A i \in DOMAIN Cut(t, max) : Cut(t, max)[i] = t[i]
         /\ Bytes(t) <= max => Cut(t, max) = t
<1> DEFINE kept == {i \in DOMAIN t : Bytes(SubSeq(t, 1, i)) <= max}
           r == Cut(t, max)
<1>1. \A i \in kept : \A j \in DOMAIN t : j <= i => j \in kept
  <2> TAKE i \in kept
  <2> TAKE j \in DOMAIN t
  <2> HAVE j <= i
  <2>1. Bytes(SubSeq(t, 1, j)) <= Bytes(SubSeq(t, 1, i))
    BY PrefixBytes
  <2>2. Bytes(SubSeq(t, 1, j)) \in Nat /\ Bytes(SubSeq(t, 1, i)) \in Nat
    <3>1. SubSeq(t, 1, j) \in Seq(Runes) /\ SubSeq(t, 1, i) \in Seq(Runes)
      OBVIOUS
    <3> QED BY <3>1, BytesType
  <2> QED BY <2>1, <2>2
<1>2. r = Chosen(t, kept) /\ kept \in SUBSET DOMAIN t
  BY DEF Cut
<1>3. \A i \in kept : Bytes(SubSeq(t, 1, i)) <= max
  OBVIOUS
<1>4. Bytes(t) <= max => kept = DOMAIN t
  <2> SUFFICES ASSUME Bytes(t) <= max, NEW i \in DOMAIN t
               PROVE  Bytes(SubSeq(t, 1, i)) <= max
    OBVIOUS
  <2> DEFINE p == SubSeq(t, 1, i)
  <2>1. SubSeq(t, 1, Len(t)) = t /\ p \in Seq(Runes)
    OBVIOUS
  <2>2. Bytes(p) <= Bytes(SubSeq(t, 1, Len(t)))
    BY PrefixBytes
  <2> HIDE DEF p
  <2>3. Bytes(p) <= Bytes(t)
    BY <2>1, <2>2
  <2>4. Bytes(p) \in Nat /\ Bytes(t) \in Nat
    BY <2>1, BytesType
  <2>5. Bytes(p) <= max
    BY <2>3, <2>4
  <2> QED BY <2>5 DEF p
<1> HIDE DEF kept, r
<1>5. r \in Seq(Runes)
  BY <1>2, ChosenBytes
<1>6. kept = 1..Len(r) /\ \A i \in kept : r[i] = t[i]
  BY <1>1, <1>2, ChosenPrefix
<1>7. Len(r) \in Nat /\ DOMAIN r = 1..Len(r) /\ Len(r) <= Len(t)
  BY <1>2, <1>5, <1>6
<1>8. Bytes(r) <= max
  <2>1. CASE Len(r) = 0
    BY <1>5, <2>1, NoBytes
  <2>2. CASE Len(r) # 0
    <3>1. Len(r) \in kept
      BY <1>6, <1>7, <2>2
    <3> DEFINE n == Len(r)
               p == SubSeq(t, 1, n)
    <3>2. n \in 1..Len(t) /\ n \in DOMAIN t
      BY <1>7, <2>2
    <3>3. p \in Seq(Runes) /\ Len(p) = n /\ \A i \in 1..n : p[i] = t[i]
      BY <3>2
    <3> HIDE DEF p
    <3>4. r = p
      BY <1>5, <1>6, <1>7, <3>3
    <3> QED BY <1>3, <3>1, <3>4 DEF p
  <2> QED BY <2>1, <2>2
<1>9. Bytes(t) <= max => r = t
  BY <1>2, <1>4, ChosenAll
<1> QED
  BY <1>5, <1>6, <1>7, <1>8, <1>9 DEF r

\* What collapsing leaves is of the same characters, with single spaces inside.
LEMMA CollapseSpaces ==
  ASSUME NEW T, NEW t \in Seq(T)
  PROVE  /\ Collapse(t) \in Seq(T)
         /\ \A i \in DOMAIN Collapse(t) : Collapse(t)[i] = "space" =>
               i - 1 \in Solid(Collapse(t)) /\ i + 1 \in Solid(Collapse(t))
<1> DEFINE kept == Solid(t) \cup {i \in DOMAIN t : i - 1 \in Solid(t)
                                                  /\ \E j \in Solid(t) : j > i}
           r == Collapse(t)
<1>1. r = Chosen(t, kept) /\ kept \in SUBSET DOMAIN t
  BY DEF Collapse, Solid
<1>2. Solid(t) \subseteq kept /\ \A i \in Solid(t) : t[i] # "space"
  BY DEF Solid
<1>3. \A i \in kept : i \in Nat /\ (t[i] = "space" => i - 1 \in Solid(t) /\ \E j \in Solid(t) : j > i)
  BY DEF Solid
<1> HIDE DEF kept, r
<1>4. r \in Seq(T)
  BY <1>1, ChosenRanked
<1>5. PICK rank : Ranks(t, kept, rank)
  BY <1>1, ChosenRanked
<1>6. /\ \A i \in kept : rank[i] \in DOMAIN r /\ r[rank[i]] = t[i]
      /\ \A i, j \in kept : i < j => rank[i] < rank[j]
      /\ \A k \in DOMAIN r : \E i \in kept : rank[i] = k
  BY <1>1, <1>5 DEF Ranks
<1>7. Len(r) \in Nat /\ DOMAIN r = 1..Len(r)
  BY <1>4
<1>8. ASSUME NEW i \in DOMAIN r, r[i] = "space"
      PROVE  i - 1 \in Solid(r) /\ i + 1 \in Solid(r)
  <2>1. PICK p \in kept : rank[p] = i /\ t[p] = "space"
    BY <1>6, <1>8
  <2>2. p - 1 \in Solid(t) /\ p - 1 \in kept /\ p - 1 \in Nat /\ p \in Nat
    BY <1>2, <1>3, <2>1
  <2>3. PICK q \in Solid(t) : q > p
    BY <1>3, <2>1
  <2>4. q \in kept /\ q \in Nat
    BY <1>2, <1>3, <2>3
  <2>5. rank[p - 1] \in 1..Len(r) /\ rank[q] \in 1..Len(r) /\ i \in 1..Len(r)
    BY <1>6, <1>7, <2>2, <2>4
  <2>6. rank[p - 1] < i /\ i < rank[q]
    <3>1. p - 1 < p /\ p < q
      BY <2>2, <2>3, <2>4
    <3>2. rank[p - 1] < rank[p] /\ rank[p] < rank[q]
      BY <1>6, <2>2, <2>4, <3>1
    <3> QED BY <2>1, <3>2
  <2>7. i - 1 \in DOMAIN r /\ i + 1 \in DOMAIN r
    BY <1>7, <2>5, <2>6
  <2>8. rank[p - 1] = i - 1
    <3>1. PICK x \in kept : rank[x] = i - 1
      BY <1>6, <2>7
    <3>2. x \in Nat
      BY <1>3
    <3>3. ~(p < x) /\ x # p
      BY <1>6, <2>1, <2>5, <3>1
    <3>4. x <= p - 1
      BY <2>2, <3>2, <3>3
    <3>5. x < p - 1 => i - 1 < rank[p - 1]
      BY <1>6, <2>2, <3>1
    <3>6. x = p - 1
      BY <2>2, <2>5, <2>6, <3>2, <3>4, <3>5
    <3> QED BY <3>1, <3>6
  <2>9. r[i - 1] # "space"
    <3>1. r[rank[p - 1]] = t[p - 1]
      BY <1>6, <2>2
    <3> QED BY <1>2, <2>2, <2>8, <3>1
  <2>10. r[i + 1] # "space"
    <3>1. PICK x \in kept : rank[x] = i + 1
      BY <1>6, <2>7
    <3>2. SUFFICES ASSUME t[x] = "space" PROVE FALSE
      BY <1>6, <3>1
    <3>3. x \in Nat /\ x - 1 \in Solid(t) /\ x - 1 \in kept /\ x - 1 \in Nat
      BY <1>2, <1>3, <3>2
    <3>4. ~(x < p) /\ x # p
      BY <1>6, <2>1, <2>5, <3>1
    <3>5. x - 1 # p
      BY <1>2, <2>1, <3>3
    <3>6. p < x - 1
      BY <2>2, <3>3, <3>4, <3>5
    <3>7. i < rank[x - 1] /\ rank[x - 1] < i + 1
      <4>1. x - 1 < x
        BY <3>3
      <4>2. rank[p] < rank[x - 1] /\ rank[x - 1] < rank[x]
        BY <1>6, <3>3, <3>6, <4>1
      <4> QED BY <2>1, <3>1, <4>2
    <3>8. rank[x - 1] \in Nat
      BY <1>6, <1>7, <3>3
    <3> QED BY <2>5, <3>7, <3>8
  <2> QED BY <2>7, <2>9, <2>10 DEF Solid
<1> QED
  BY <1>4, <1>8 DEF r
LEMMA VisibleText == \A t \in Seq(Visible) : t \in Seq(Runes)
BY DEF Visible

LEMMA VisibleIsText == ASSUME NEW t \in Seq(Visible) PROVE t \in Seq(Runes)
BY VisibleText

LEMMA TrimBytes ==
  ASSUME NEW t \in Seq(Runes)
  PROVE  /\ Trim(t) \in Seq(Runes) /\ Bytes(Trim(t)) <= Bytes(t)
         /\ t \in Seq(Visible) => Trim(t) \in Seq(Visible)
<1> DEFINE kept == {i \in DOMAIN t : /\ \E j \in Solid(t) : j <= i
                                    /\ \E j \in Solid(t) : j >= i}
<1>1. Trim(t) = Chosen(t, kept) /\ kept \in SUBSET DOMAIN t
  BY DEF Trim
<1> HIDE DEF kept
<1>2. Chosen(t, kept) \in Seq(Runes) /\ Bytes(Chosen(t, kept)) <= Bytes(t)
  BY <1>1, ChosenBytes
<1>3. t \in Seq(Visible) => Chosen(t, kept) \in Seq(Visible)
  BY <1>1, ChosenRanked
<1> QED
  BY <1>1, <1>2, <1>3

\* Of a text that has no blank before its spaces only the end is trimmed.
LEMMA TrimEnd ==
  ASSUME NEW t \in Seq(Visible), \A i \in DOMAIN t : t[i] = "space" => i - 1 \in Solid(t)
  PROVE  Clean(Trim(t))
<1> DEFINE kept == {i \in DOMAIN t : /\ \E j \in Solid(t) : j <= i
                                    /\ \E j \in Solid(t) : j >= i}
           r == Trim(t)
<1>1. r = Chosen(t, kept) /\ kept \in SUBSET DOMAIN t
  BY DEF Trim
<1>2. \A i \in DOMAIN t : \E j \in Solid(t) : j <= i
  BY DEF Solid
<1>3. \A i \in DOMAIN t : i \in kept <=> \E j \in Solid(t) : j >= i
  BY <1>2
<1>4. \A j \in Solid(t) : j \in kept /\ j \in Nat /\ t[j] # "space"
  BY <1>3 DEF Solid
<1> HIDE DEF kept, r
<1>5. \A i \in kept : \A j \in DOMAIN t : j <= i => j \in kept
  BY <1>1, <1>3, <1>4
<1>6. r \in Seq(Visible)
  BY <1>1, ChosenRanked
<1>7. kept = 1..Len(r) /\ \A i \in kept : r[i] = t[i]
  BY <1>1, <1>5, ChosenPrefix
<1>8. DOMAIN r = kept
  BY <1>6, <1>7
<1>9. ASSUME NEW i \in DOMAIN r, r[i] = "space"
      PROVE  i - 1 \in Solid(r) /\ i + 1 \in Solid(r)
  <2>1. i \in kept /\ i \in DOMAIN t /\ t[i] = "space" /\ i \in Nat
    BY <1>1, <1>7, <1>8, <1>9
  <2>2. i - 1 \in Solid(t) /\ i - 1 \in kept
    BY <1>4, <2>1
  <2>3. i - 1 \in Solid(r)
    BY <1>4, <1>7, <1>8, <2>2 DEF Solid
  <2>4. PICK j \in Solid(t) : j >= i
    BY <1>3, <2>1
  <2>5. j >= i + 1 /\ j \in kept
    BY <1>4, <2>1, <2>4
  <2>6. i + 1 \in kept /\ i + 1 \in DOMAIN t
    BY <1>1, <1>7, <2>1, <2>5
  <2>7. t[i + 1] # "space"
    <3>1. SUFFICES ASSUME t[i + 1] = "space" PROVE FALSE
      OBVIOUS
    <3>2. (i + 1) - 1 \in Solid(t)
      BY <2>6, <3>1
    <3>3. i \in Solid(t)
      BY <2>1, <3>2
    <3> QED BY <1>4, <2>1, <3>3
  <2>8. i + 1 \in Solid(r)
    BY <1>7, <1>8, <2>6, <2>7 DEF Solid
  <2> QED BY <2>3, <2>8
<1>10. Clean(r)
  BY <1>6, <1>9 DEF Clean
<1> QED
  BY <1>10 DEF r

\* What is displayed has no more bytes than it may, and nothing invisible.
LEMMA Displayed ==
  ASSUME NEW t \in Seq(Runes), NEW max \in Nat
  PROVE  DisplayText(t, max) \in Seq(Visible) /\ Bytes(DisplayText(t, max)) <= max
<1> DEFINE c == Collapse(t)
           kept == {i \in DOMAIN c : c[i] \notin {"format", "control"}}
           s == Strip(c)
           p == Cut(s, max)
<1>1. DisplayText(t, max) = Trim(p)
  BY DEF DisplayText
<1>2. c \in Seq(Runes)
  BY CollapseSpaces
<1>3. s = Chosen(c, kept) /\ kept \in SUBSET DOMAIN c
  BY DEF Strip
<1>4. \A i \in kept : c[i] \in Visible
  BY <1>2 DEF Visible
<1> HIDE DEF c, kept, s
<1>5. s \in Seq(Visible)
  <2>1. s \in Seq(Runes) /\ \A k \in DOMAIN s : \E i \in kept : s[k] = c[i]
    BY <1>2, <1>3, ChosenIsOf
  <2>2. \A k \in DOMAIN s : s[k] \in Visible
    BY <1>4, <2>1
  <2> QED BY <2>1, <2>2
<1>6. s \in Seq(Runes)
  BY <1>5, VisibleIsText
<1>7. /\ p \in Seq(Runes) /\ Bytes(p) <= max
      /\ Len(p) <= Len(s) /\ \A i \in DOMAIN p : p[i] = s[i]
  BY <1>6, CutBytes
<1> HIDE DEF p
<1>8. p \in Seq(Visible)
  BY <1>5, <1>7
<1>9. /\ Trim(p) \in Seq(Visible) /\ Bytes(Trim(p)) <= Bytes(p)
      /\ Bytes(Trim(p)) \in Nat /\ Bytes(p) \in Nat
  BY <1>7, <1>8, TrimBytes, BytesType
<1> QED
  BY <1>1, <1>7, <1>9

LEMMA StripNothing == ASSUME NEW t \in Seq(Visible) PROVE Strip(t) = t
<1>1. \A i \in DOMAIN t : t[i] \in Visible
  OBVIOUS
<1>2. {i \in DOMAIN t : t[i] \notin {"format", "control"}} = DOMAIN t
  BY <1>1 DEF Visible
<1> QED
  BY <1>2, ChosenAll DEF Strip

\* Once nothing is invisible, what is displayed is clean.
LEMMA DisplayedTwice ==
  ASSUME NEW t \in Seq(Visible), NEW max \in Nat
  PROVE  Clean(DisplayText(t, max))
<1> DEFINE c == Collapse(t)
           p == Cut(c, max)
<1>1. /\ c \in Seq(Visible)
      /\ \A i \in DOMAIN c : c[i] = "space" => i - 1 \in Solid(c)
  BY CollapseSpaces
<1>2. DisplayText(t, max) = Trim(p)
  <2>1. Strip(c) = c
    BY <1>1, StripNothing
  <2> QED BY <2>1 DEF DisplayText
<1> HIDE DEF c
<1>3. c \in Seq(Runes)
  BY <1>1, VisibleIsText
<1>4. /\ p \in Seq(Runes)
      /\ Len(p) <= Len(c) /\ \A i \in DOMAIN p : p[i] = c[i]
  BY <1>3, CutBytes
<1> HIDE DEF p
<1>5. p \in Seq(Visible)
  BY <1>1, <1>4
<1>6. ASSUME NEW i \in DOMAIN p, p[i] = "space"
      PROVE  i - 1 \in Solid(p)
  <2>1. i \in DOMAIN c /\ c[i] = "space"
    BY <1>3, <1>4, <1>6
  <2>2. i - 1 \in DOMAIN c /\ c[i - 1] # "space"
    BY <1>1, <2>1 DEF Solid
  <2>3. i - 1 \in DOMAIN p
    BY <1>3, <1>4, <2>2
  <2> QED BY <1>4, <2>2, <2>3 DEF Solid
<1>7. Clean(Trim(p))
  BY <1>5, <1>6, TrimEnd
<1> QED
  BY <1>2, <1>7

\* And what is clean and short enough is displayed as it is.
LEMMA DisplayedAsIs ==
  ASSUME NEW t, Clean(t), NEW max \in Nat, Bytes(t) <= max
  PROVE  DisplayText(t, max) = t
<1>1. /\ t \in Seq(Visible) /\ t \in Seq(Runes)
      /\ \A i \in DOMAIN t : t[i] = "space" => i - 1 \in Solid(t) /\ i + 1 \in Solid(t)
  BY VisibleText DEF Clean
<1>2. Collapse(t) = t
  <2>1. \A i \in DOMAIN t : i \in Solid(t) \/ (i - 1 \in Solid(t) /\ \E j \in Solid(t) : j > i)
    <3> SUFFICES ASSUME NEW i \in DOMAIN t, t[i] = "space"
                 PROVE  i - 1 \in Solid(t) /\ \E j \in Solid(t) : j > i
      BY DEF Solid
    <3>1. i + 1 \in Solid(t) /\ i + 1 > i
      BY <1>1
    <3> QED BY <1>1, <3>1
  <2>2. Solid(t) \cup {i \in DOMAIN t : i - 1 \in Solid(t) /\ \E j \in Solid(t) : j > i}
           = DOMAIN t
    BY <2>1 DEF Solid
  <2> QED BY <1>1, <2>2, ChosenAll DEF Collapse
<1>3. Strip(t) = t
  BY <1>1, StripNothing
<1>4. Cut(t, max) = t
  BY <1>1, CutBytes
<1>5. Trim(t) = t
  <2>1. \A i \in DOMAIN t : (\E j \in Solid(t) : j <= i) /\ (\E j \in Solid(t) : j >= i)
    <3> TAKE i \in DOMAIN t
    <3>1. CASE t[i] = "space"
      <4>1. i - 1 \in Solid(t) /\ i - 1 <= i /\ i + 1 \in Solid(t) /\ i + 1 >= i
        BY <1>1, <3>1
      <4> QED BY <4>1
    <3>2. CASE t[i] # "space"
      BY <1>1, <3>2 DEF Solid
    <3> QED BY <3>1, <3>2
  <2>2. {i \in DOMAIN t : /\ \E j \in Solid(t) : j <= i
                          /\ \E j \in Solid(t) : j >= i} = DOMAIN t
    BY <2>1
  <2> QED BY <1>1, <2>2, ChosenAll DEF Trim
<1> QED
  BY <1>2, <1>3, <1>4, <1>5 DEF DisplayText
------------------------------------------------------------------------------
(* Metadata. *)

\* Metadata of texts in T, as they are once the session's name is checked.
MetadataOf(T) ==
    [session: SessionNames \ {"invalid"}, status: Statuses, workspace: T, shown: [Fields -> T]]

Tidy(m) ==
    /\ Clean(m.workspace) /\ Bytes(m.workspace) <= WorkspaceLimit
    /\ \A f \in Fields : Clean(m.shown[f]) /\ Bytes(m.shown[f]) <= Limit[f]

LEMMA LimitNumbers ==
  /\ IsFiniteSet(Fields) /\ WorkspaceLimit \in Nat /\ WorkspaceBudget \in Nat
  /\ Budget \in Nat /\ Fixed \in Nat /\ Overhead \in Nat /\ NameBytes \in Nat
BY LimitAssumption

LEMMA FieldBytesType ==
  ASSUME NEW t \in Seq(Visible)
  PROVE  FieldBytes(t) \in Nat /\ Bytes(t) <= FieldBytes(t)
<1>1. Bytes(t) \in Nat /\ JsonWidth(t) \in Nat /\ Bytes(t) <= JsonWidth(t)
  BY VisibleIsText, BytesType
<1>2. Overhead \in Nat
  BY LimitAssumption
<1>3. CASE t = <<>>
  BY <1>3, NoBytes DEF FieldBytes
<1>4. CASE t # <<>>
  BY <1>1, <1>2, <1>4 DEF FieldBytes
<1> QED
  BY <1>3, <1>4

\* The size of metadata is a number, and no less than that of any text in it.
LEMMA JsonBytesType ==
  ASSUME NEW m \in MetadataOf(Seq(Visible))
  PROVE  /\ JsonBytes(m) \in Nat
         /\ \A f \in Fields : Bytes(m.shown[f]) <= JsonBytes(m)
<1> DEFINE part(f) == {f} \X (1..FieldBytes(m.shown[f]))
           parts == {part(f) : f \in Fields}
           name == IF m.session = "" THEN 0 ELSE Overhead + NameBytes
<1>1. JsonBytes(m) = Fixed + name + FieldBytes(m.workspace) + Cardinality(UNION parts)
  BY Zenon DEF JsonBytes
<1>2. m.workspace \in Seq(Visible) /\ \A f \in Fields : m.shown[f] \in Seq(Visible)
  BY DEF MetadataOf
<1>3. /\ FieldBytes(m.workspace) \in Nat
      /\ \A f \in Fields : /\ FieldBytes(m.shown[f]) \in Nat
                           /\ Bytes(m.shown[f]) <= FieldBytes(m.shown[f])
                           /\ Bytes(m.shown[f]) \in Nat
  BY <1>2, FieldBytesType, VisibleIsText, BytesType
<1>4. Fixed \in Nat /\ name \in Nat
  <2>1. name \in {0, Overhead + NameBytes}
    OBVIOUS
  <2> HIDE DEF name
  <2> QED BY <2>1, LimitNumbers
<1>5. \A f \in Fields : IsFiniteSet(part(f)) /\ Cardinality(part(f)) = FieldBytes(m.shown[f])
  <2> TAKE f \in Fields
  <2> DEFINE n == FieldBytes(m.shown[f])
  <2>1. n \in Nat
    BY <1>3
  <2> HIDE DEF n
  <2>2. IsFiniteSet(1..n) /\ Cardinality(1..n) = n
    BY <2>1, FS_Interval
  <2>3. IsFiniteSet({f}) /\ Cardinality({f}) = 1
    BY FS_Singleton
  <2>4. /\ IsFiniteSet({f} \X (1..n))
        /\ Cardinality({f} \X (1..n)) = Cardinality({f}) * Cardinality(1..n)
    BY <2>2, <2>3, FS_Product, Zenon
  <2>5. Cardinality({f} \X (1..n)) = n
    BY <2>1, <2>2, <2>3, <2>4
  <2> QED BY <2>4, <2>5 DEF n
<1> HIDE DEF part
<1>6. IsFiniteSet(parts)
  <2>1. PICK s \in Seq(Fields) : \A f \in Fields : \E n \in 1..Len(s) : s[n] = f
    BY LimitNumbers DEF IsFiniteSet
  <2> DEFINE r == [n \in 1..Len(s) |-> part(s[n])]
  <2>2. r \in Seq(parts) /\ Len(r) = Len(s)
    OBVIOUS
  <2>3. \A p \in parts : \E n \in 1..Len(r) : r[n] = p
    BY <2>1, <2>2
  <2> HIDE DEF r, parts
  <2> QED BY <2>2, <2>3 DEF IsFiniteSet
<1>7. IsFiniteSet(UNION parts)
  BY <1>5, <1>6, FS_UNION
<1> HIDE DEF name
<1>8. Cardinality(UNION parts) \in Nat
  BY <1>7, FS_CardinalityType
<1>9. \A f \in Fields : FieldBytes(m.shown[f]) <= Cardinality(UNION parts)
  <2> TAKE f \in Fields
  <2>1. part(f) \subseteq UNION parts
    OBVIOUS
  <2>2. Cardinality(part(f)) <= Cardinality(UNION parts)
    BY <1>7, <2>1, FS_Subset
  <2> QED BY <1>5, <2>2
<1> HIDE DEF parts
<1>10. JsonBytes(m) \in Nat /\ Cardinality(UNION parts) <= JsonBytes(m)
  BY <1>1, <1>3, <1>4, <1>8
<1>11. ASSUME NEW f \in Fields PROVE Bytes(m.shown[f]) <= JsonBytes(m)
  <2>1. /\ FieldBytes(m.shown[f]) \in Nat /\ Bytes(m.shown[f]) \in Nat
        /\ Bytes(m.shown[f]) <= FieldBytes(m.shown[f])
        /\ FieldBytes(m.shown[f]) <= Cardinality(UNION parts)
    BY <1>3, <1>9
  <2> QED BY <1>8, <1>10, <2>1
<1> QED
  BY <1>10, <1>11

\* Without texts to display metadata fits, once its workspace does.
LEMMA EmptyFits ==
  ASSUME NEW m \in MetadataOf(Seq(Visible)), JsonWidth(m.workspace) <= WorkspaceBudget,
         \A f \in Fields : m.shown[f] = <<>>
  PROVE  Fits(m)
<1> DEFINE parts == {{f} \X (1..FieldBytes(m.shown[f])) : f \in Fields}
           name == IF m.session = "" THEN 0 ELSE Overhead + NameBytes
<1>1. JsonBytes(m) = Fixed + name + FieldBytes(m.workspace) + Cardinality(UNION parts)
  BY Zenon DEF JsonBytes
<1>2. UNION parts = {}
  <2>1. \A f \in Fields : {f} \X (1..FieldBytes(m.shown[f])) = {}
    BY DEF FieldBytes
  <2> QED BY <2>1
<1>3. Cardinality(UNION parts) = 0
  BY <1>2, FS_EmptySet
<1>4. name \in Nat /\ name <= NameBytes + Overhead
  <2>1. name \in {0, Overhead + NameBytes}
    OBVIOUS
  <2> HIDE DEF name
  <2> QED BY <2>1, LimitNumbers
<1>5. JsonWidth(m.workspace) \in Nat
  <2>1. m.workspace \in Seq(Visible)
    BY DEF MetadataOf
  <2> QED BY <2>1, VisibleIsText, BytesType
<1>6. /\ FieldBytes(m.workspace) \in Nat
      /\ FieldBytes(m.workspace) <= WorkspaceBudget + Overhead
  BY <1>5, LimitAssumption DEF FieldBytes
<1> HIDE DEF parts, name
<1> QED
  BY <1>1, <1>3, <1>4, <1>6, LimitAssumption, BudgetAssumption DEF Fits

\* A round of the loop.
LEMMA HalveStep ==
  ASSUME NEW m \in MetadataOf(Seq(Visible))
  PROVE  /\ Halve(m) \in MetadataOf(Seq(Visible))
         /\ Halve(m).session = m.session /\ Halve(m).status = m.status
         /\ JsonWidth(Halve(m).workspace) <= WorkspaceBudget
         /\ \A f \in Fields : 2 * Bytes(Halve(m).shown[f]) <= Bytes(m.shown[f])
         /\ Tidy(m) => Tidy(Halve(m))
<1> DEFINE w == IF JsonWidth(m.workspace) > WorkspaceBudget THEN <<>> ELSE m.workspace
           half(f) == DisplayText(m.shown[f], Bytes(m.shown[f]) \div 2)
           h == Halve(m)
<1>1. m.workspace \in Seq(Visible) /\ \A f \in Fields : m.shown[f] \in Seq(Visible)
  BY DEF MetadataOf
<1>2. /\ h.session = m.session /\ h.status = m.status /\ h.workspace = w
      /\ h.shown = [f \in Fields |-> half(f)]
      /\ h = [session |-> h.session, status |-> h.status, workspace |-> h.workspace,
              shown |-> h.shown]
  <2>1. h = [m EXCEPT !.workspace = w, !.shown = [f \in Fields |-> half(f)]]
    BY DEF Halve
  <2> HIDE DEF h, w, half
  <2> QED BY <2>1 DEF MetadataOf
<1>3. w \in Seq(Visible) /\ JsonWidth(w) <= WorkspaceBudget
  <2>1. JsonWidth(m.workspace) \in Nat /\ WorkspaceBudget \in Nat
    BY <1>1, VisibleIsText, BytesType, LimitAssumption
  <2>2. <<>> \in Seq(Visible) /\ JsonWidth(<<>>) = 0
    <3>1. Marked(<<>>, {"escaped", "control"}) = {}
      BY DEF Marked
    <3>2. Cardinality(Marked(<<>>, {"escaped", "control"})) = 0
      BY <3>1, FS_EmptySet
    <3> QED BY <3>2, NoBytes, BytesAre
  <2> QED BY <1>1, <2>1, <2>2
<1>4. ASSUME NEW f \in Fields
      PROVE  /\ half(f) \in Seq(Visible) /\ Clean(half(f))
             /\ 2 * Bytes(half(f)) <= Bytes(m.shown[f])
             /\ Bytes(half(f)) \in Nat /\ Bytes(m.shown[f]) \in Nat
  <2> DEFINE t == m.shown[f]
             b == Bytes(t) \div 2
  <2>1. t \in Seq(Visible) /\ t \in Seq(Runes)
    BY <1>1, VisibleText
  <2>2. Bytes(t) \in Nat
    BY <2>1, BytesType
  <2>3. b \in Nat /\ 2 * b <= Bytes(t)
    BY <2>2
  <2> HIDE DEF t, b
  <2>4. /\ DisplayText(t, b) \in Seq(Visible) /\ Bytes(DisplayText(t, b)) <= b
        /\ Clean(DisplayText(t, b))
    BY <2>1, <2>3, Displayed, DisplayedTwice
  <2>5. Bytes(DisplayText(t, b)) \in Nat
    BY <2>4, VisibleIsText, BytesType
  <2>6. 2 * Bytes(DisplayText(t, b)) <= Bytes(t)
    BY <2>2, <2>3, <2>4, <2>5
  <2> QED BY <2>2, <2>4, <2>5, <2>6 DEF t, b
<1> HIDE DEF w, half
<1>5. h \in MetadataOf(Seq(Visible))
  <2>1. h.session \in SessionNames \ {"invalid"} /\ h.status \in Statuses
    BY <1>2 DEF MetadataOf
  <2>2. h.workspace \in Seq(Visible) /\ h.shown \in [Fields -> Seq(Visible)]
    BY <1>2, <1>3, <1>4
  <2> HIDE DEF h
  <2> QED BY <1>2, <2>1, <2>2 DEF MetadataOf
<1>6. \A f \in Fields : h.shown[f] = half(f)
  BY <1>2
<1>7. ASSUME Tidy(m) PROVE Tidy(h)
  <2>1. Clean(w) /\ Bytes(w) <= WorkspaceLimit
    <3>1. Clean(<<>>)
      BY DEF Clean
    <3> QED BY <1>7, <3>1, NoBytes, LimitAssumption DEF w, Tidy
  <2>2. \A f \in Fields : Bytes(half(f)) <= Limit[f]
    <3> TAKE f \in Fields
    <3>1. Limit[f] \in Nat /\ Bytes(m.shown[f]) <= Limit[f]
      BY <1>7, LimitAssumption DEF Tidy
    <3> QED BY <1>4, <3>1
  <2> HIDE DEF h
  <2> QED BY <1>2, <1>4, <1>6, <2>1, <2>2 DEF Tidy
<1> HIDE DEF h
<1>8. JsonWidth(h.workspace) <= WorkspaceBudget
  BY <1>2, <1>3
<1>9. \A f \in Fields : 2 * Bytes(h.shown[f]) <= Bytes(m.shown[f])
  BY <1>4, <1>6
<1> QED
  BY <1>2, <1>5, <1>7, <1>8, <1>9 DEF h
\* The rounds are defined one from the other.
LEMMA HalvingsAre ==
  ASSUME NEW m, NEW N \in Nat, N = JsonBytes(m) + 1
  PROVE  /\ DOMAIN Halvings(m) = 0..N
         /\ Halvings(m)[0] = m
         /\ \A n \in 0..N - 1 : Halvings(m)[n + 1] = Halve(Halvings(m)[n])
<1> DEFINE Upto(h, top) == h = [n \in 0..top |-> IF n = 0 THEN m ELSE Halve(h[n - 1])]
           S == {n \in 0..N : \E h : Upto(h, n)}
<1>1. 0 \in S
  <2> DEFINE h == [n \in 0..0 |-> m]
  <2>1. Upto(h, 0)
    OBVIOUS
  <2> HIDE DEF Upto, h
  <2> QED BY <2>1
<1>2. ASSUME NEW n \in 0..N - 1, n \in S PROVE n + 1 \in S
  <2>1. PICK h : Upto(h, n)
    BY <1>2
  <2> DEFINE g == [k \in 0..n + 1 |-> IF k <= n THEN h[k] ELSE Halve(h[n])]
  <2>2. \A k \in 0..n + 1 : g[k] = IF k = 0 THEN m ELSE Halve(g[k - 1])
    <3> TAKE k \in 0..n + 1
    <3>1. CASE k = 0
      <4>1. g[0] = h[0] /\ h[0] = m
        BY <2>1
      <4> QED BY <3>1, <4>1
    <3>2. CASE k # 0 /\ k <= n
      <4>1. g[k] = h[k] /\ g[k - 1] = h[k - 1]
        BY <3>2
      <4>2. h[k] = Halve(h[k - 1])
        BY <2>1, <3>2
      <4> HIDE DEF g
      <4> QED BY <3>2, <4>1, <4>2
    <3>3. CASE k = n + 1
      <4>1. g[n + 1] = Halve(h[n]) /\ g[n] = h[n]
        OBVIOUS
      <4> HIDE DEF g
      <4> QED BY <3>3, <4>1
    <3> QED BY <3>1, <3>2, <3>3
  <2>3. Upto(g, n + 1)
    <3>1. g = [k \in 0..n + 1 |-> g[k]]
      OBVIOUS
    <3> HIDE DEF g
    <3> QED BY <2>2, <3>1
  <2> HIDE DEF Upto, g
  <2> QED BY <2>3
<1>3. N \in S
  <2> HIDE DEF S
  <2>1. \A n \in 0..N : n \in S
    BY <1>1, <1>2, AllReached
  <2> QED BY <2>1
<1>4. PICK h : Upto(h, N)
  BY <1>3
<1>5. Upto(Halvings(m), N)
  BY <1>4 DEF Halvings
<1> QED
  BY <1>5
\* After n rounds a display field has lost n bytes, or all it had.
LEMMA RoundKeeps ==
  ASSUME NEW m \in MetadataOf(Seq(Visible)), NEW n \in 0..JsonBytes(m) + 1
  PROVE  LET h == Halvings(m)[n]
         IN  /\ h \in MetadataOf(Seq(Visible)) /\ h.session = m.session /\ h.status = m.status
             /\ Tidy(m) => Tidy(h)
             /\ \A f \in Fields : Bytes(h.shown[f]) = 0 \/ Bytes(h.shown[f]) + n <= JsonBytes(m)
             /\ n # 0 => JsonWidth(h.workspace) <= WorkspaceBudget
<1> DEFINE N == JsonBytes(m) + 1
           Kept(h, k) ==
             /\ h \in MetadataOf(Seq(Visible)) /\ h.session = m.session /\ h.status = m.status
             /\ Tidy(m) => Tidy(h)
             /\ \A f \in Fields : Bytes(h.shown[f]) = 0 \/ Bytes(h.shown[f]) + k <= JsonBytes(m)
             /\ k # 0 => JsonWidth(h.workspace) <= WorkspaceBudget
           S == {k \in 0..N : Kept(Halvings(m)[k], k)}
<1>1. JsonBytes(m) \in Nat /\ N \in Nat /\ \A f \in Fields : Bytes(m.shown[f]) <= JsonBytes(m)
  BY JsonBytesType
<1>2. /\ Halvings(m)[0] = m
      /\ \A k \in 0..N - 1 : Halvings(m)[k + 1] = Halve(Halvings(m)[k])
  BY <1>1, HalvingsAre
<1>3. \A h \in MetadataOf(Seq(Visible)) : \A f \in Fields : Bytes(h.shown[f]) \in Nat
  <2> TAKE h \in MetadataOf(Seq(Visible))
  <2> TAKE f \in Fields
  <2>1. h.shown[f] \in Seq(Visible)
    BY DEF MetadataOf
  <2> QED BY <2>1, VisibleIsText, BytesType
<1>4. Kept(m, 0)
  BY <1>1, <1>3
<1>5. ASSUME NEW k \in 0..N - 1, NEW h, Kept(h, k)
      PROVE  Kept(Halve(h), k + 1)
  <2> DEFINE r == Halve(h)
  <2>1. /\ r \in MetadataOf(Seq(Visible))
        /\ r.session = h.session /\ r.status = h.status
        /\ JsonWidth(r.workspace) <= WorkspaceBudget
        /\ \A f \in Fields : 2 * Bytes(r.shown[f]) <= Bytes(h.shown[f])
        /\ Tidy(h) => Tidy(r)
    BY <1>5, HalveStep
  <2> HIDE DEF r
  <2>2. ASSUME NEW f \in Fields
        PROVE  Bytes(r.shown[f]) = 0 \/ Bytes(r.shown[f]) + (k + 1) <= JsonBytes(m)
    <3>1. Bytes(r.shown[f]) \in Nat /\ Bytes(h.shown[f]) \in Nat
      BY <1>3, <1>5, <2>1
    <3>2. /\ 2 * Bytes(r.shown[f]) <= Bytes(h.shown[f])
          /\ Bytes(h.shown[f]) = 0 \/ Bytes(h.shown[f]) + k <= JsonBytes(m)
      BY <1>5, <2>1
    <3> QED BY <1>1, <3>1, <3>2
  <2>3. Kept(r, k + 1)
    BY <1>5, <2>1, <2>2
  <2> QED BY <2>3 DEF r
<1> HIDE DEF Kept
<1>6. 0 \in S
  BY <1>1, <1>2, <1>4
<1>7. \A k \in 0..N - 1 : k \in S => k + 1 \in S
  BY <1>1, <1>2, <1>5
<1> HIDE DEF S, N
<1>8. \A k \in 0..N : k \in S
  BY <1>1, <1>6, <1>7, AllReached
<1>9. Kept(Halvings(m)[n], n)
  BY <1>8 DEF S, N
<1> QED
  BY <1>9, Zenon DEF Kept

\* The loop ends, with metadata that fits and that is what it was if that did.
LEMMA FittedIs ==
  ASSUME NEW m \in MetadataOf(Seq(Visible))
  PROVE  /\ Fitted(m) \in MetadataOf(Seq(Visible)) /\ Fits(Fitted(m))
         /\ Fitted(m).status = m.status
         /\ Tidy(m) => Tidy(Fitted(m))
         /\ Fits(m) => Fitted(m) = m
<1> DEFINE N == JsonBytes(m) + 1
           h == Halvings(m)
           fit == {n \in 0..N : Fits(h[n])}
           First(n) == n \in 0..N /\ Fits(h[n]) /\ \A k \in 0..n - 1 : ~Fits(h[k])
           k == FirstFit(h)
<1>1. JsonBytes(m) \in Nat /\ N \in Nat
  BY JsonBytesType
<1>2. DOMAIN h = 0..N /\ h[0] = m
  BY <1>1, HalvingsAre
<1>3. Fits(h[N])
  <2> DEFINE e == h[N]
  <2>1. /\ e \in MetadataOf(Seq(Visible)) /\ JsonWidth(e.workspace) <= WorkspaceBudget
        /\ \A f \in Fields : Bytes(e.shown[f]) = 0 \/ Bytes(e.shown[f]) + N <= JsonBytes(m)
    BY <1>1, RoundKeeps
  <2> HIDE DEF e
  <2>2. ASSUME NEW f \in Fields PROVE e.shown[f] = <<>>
    <3>1. e.shown[f] \in Seq(Visible)
      BY <2>1 DEF MetadataOf
    <3>2. Bytes(e.shown[f]) \in Nat /\ Len(e.shown[f]) <= Bytes(e.shown[f])
      BY <3>1, VisibleIsText, BytesType
    <3>3. Len(e.shown[f]) = 0
      BY <1>1, <2>1, <3>1, <3>2
    <3> QED BY <3>1, <3>3
  <2>3. Fits(e)
    BY <2>1, <2>2, EmptyFits
  <2> QED BY <2>3 DEF e
<1>4. \E n : First(n)
  <2>1. fit \in SUBSET (0..N) /\ fit # {}
    BY <1>1, <1>3
  <2>2. PICK n \in fit : \A x \in fit : n <= x
    <3> HIDE DEF fit, N
    <3> QED BY <1>1, <2>1, LeastNumber
  <2>3. First(n)
    BY <1>1, <2>2
  <2> HIDE DEF First
  <2> QED BY <2>3
<1>5. First(k)
  <2>1. k = CHOOSE n : First(n)
    BY <1>2, Zenon DEF FirstFit
  <2> HIDE DEF k, First
  <2> QED BY <1>4, <2>1
<1>6. Fitted(m) = h[k]
  BY DEF Fitted
<1> HIDE DEF k
<1>7. /\ h[k] \in MetadataOf(Seq(Visible)) /\ h[k].status = m.status
      /\ Tidy(m) => Tidy(h[k])
  BY <1>5, RoundKeeps
<1>8. Fits(m) => k = 0
  BY <1>1, <1>2, <1>5
<1> HIDE DEF h
<1> QED
  BY <1>2, <1>5, <1>6, <1>7, <1>8
\* Metadata as it is before it is normalised.
RawMetadata(T) ==
    [session: SessionNames, status: Statuses, workspace: T, shown: [Fields -> T]]

Bounded(m) ==
    [session |-> IF m.session = "invalid" THEN "" ELSE m.session,
     status |-> m.status,
     workspace |-> DisplayText(m.workspace, WorkspaceLimit),
     shown |-> [f \in Fields |-> DisplayText(m.shown[f], Limit[f])]]

LEMMA BoundedIs ==
  ASSUME NEW m \in RawMetadata(Seq(Runes))
  PROVE  /\ Bounded(m) \in MetadataOf(Seq(Visible)) /\ Bounded(m).status = m.status
         /\ m \in RawMetadata(Seq(Visible)) => Tidy(Bounded(m))
<1> DEFINE b == Bounded(m)
<1>1. /\ m.workspace \in Seq(Runes) /\ \A f \in Fields : m.shown[f] \in Seq(Runes)
      /\ WorkspaceLimit \in Nat /\ \A f \in Fields : Limit[f] \in Nat
  BY LimitAssumption DEF RawMetadata
<1>2. /\ DisplayText(m.workspace, WorkspaceLimit) \in Seq(Visible)
      /\ Bytes(DisplayText(m.workspace, WorkspaceLimit)) <= WorkspaceLimit
      /\ \A f \in Fields : /\ DisplayText(m.shown[f], Limit[f]) \in Seq(Visible)
                           /\ Bytes(DisplayText(m.shown[f], Limit[f])) <= Limit[f]
  BY <1>1, Displayed
<1>3. /\ b.status = m.status
      /\ b.workspace = DisplayText(m.workspace, WorkspaceLimit)
      /\ \A f \in Fields : b.shown[f] = DisplayText(m.shown[f], Limit[f])
  BY DEF Bounded
<1>4. b \in MetadataOf(Seq(Visible))
  <2>1. (IF m.session = "invalid" THEN "" ELSE m.session) \in SessionNames \ {"invalid"}
    BY DEF RawMetadata, SessionNames
  <2>2. m.status \in Statuses
    BY DEF RawMetadata
  <2>3. [f \in Fields |-> DisplayText(m.shown[f], Limit[f])] \in [Fields -> Seq(Visible)]
    BY <1>2
  <2> QED BY <1>2, <2>1, <2>2, <2>3 DEF Bounded, MetadataOf
<1>5. ASSUME m \in RawMetadata(Seq(Visible)) PROVE Tidy(b)
  <2>1. m.workspace \in Seq(Visible) /\ \A f \in Fields : m.shown[f] \in Seq(Visible)
    BY <1>5 DEF RawMetadata
  <2>2. /\ Clean(DisplayText(m.workspace, WorkspaceLimit))
        /\ \A f \in Fields : Clean(DisplayText(m.shown[f], Limit[f]))
    BY <1>1, <2>1, DisplayedTwice
  <2> HIDE DEF b
  <2> QED BY <1>2, <1>3, <2>2 DEF Tidy
<1> QED
  BY <1>3, <1>4, <1>5

\* Normalising twice is enough: what it returns then, it does not change.
LEMMA NormalizedIs ==
  ASSUME NEW m \in RawMetadata(Seq(Runes))
  PROVE  /\ Normalized(m) \in MetadataOf(Seq(Visible)) /\ Normalized(m).status = m.status
         /\ Fits(Normalized(m))
         /\ m \in RawMetadata(Seq(Visible)) => Tidy(Normalized(m))
<1>1. Normalized(m) = Fitted(Bounded(m))
  BY Zenon DEF Normalized, Bounded
<1>2. /\ Bounded(m) \in MetadataOf(Seq(Visible)) /\ Bounded(m).status = m.status
      /\ m \in RawMetadata(Seq(Visible)) => Tidy(Bounded(m))
  BY BoundedIs
<1> QED
  BY <1>1, <1>2, FittedIs

LEMMA NormalizedAsIs ==
  ASSUME NEW m \in MetadataOf(Seq(Visible)), Tidy(m), Fits(m)
  PROVE  Normalized(m) = m
<1>1. Normalized(m) = Fitted(Bounded(m))
  BY Zenon DEF Normalized, Bounded
<1>2. /\ m = [session |-> m.session, status |-> m.status, workspace |-> m.workspace,
              shown |-> m.shown]
      /\ m.session # "invalid" /\ m.shown = [f \in Fields |-> m.shown[f]]
  BY DEF MetadataOf
<1>3. DisplayText(m.workspace, WorkspaceLimit) = m.workspace
  BY LimitAssumption, DisplayedAsIs DEF Tidy
<1>4. [f \in Fields |-> DisplayText(m.shown[f], Limit[f])] = m.shown
  <2>1. \A f \in Fields : DisplayText(m.shown[f], Limit[f]) = m.shown[f]
    BY LimitAssumption, DisplayedAsIs DEF Tidy
  <2> QED BY <1>2, <2>1
<1>5. Bounded(m) = m
  BY <1>2, <1>3, <1>4 DEF Bounded
<1> QED
  BY <1>1, <1>5, FittedIs

\* So a hint is valid whatever an agent shows, and is filed as one.
LEMMA HintIsFiled ==
  ASSUME NEW agent \in Agent, agent.status \in {"blocked", "idle", "done"},
         NEW name \in SessionNames \ {"invalid"}
  PROVE  FiledUnder(HintOf(agent, name)) = "herdr"
<1> DEFINE raw == [session |-> "", status |-> agent.status, workspace |-> agent.workspace,
                   shown |-> agent.shown]
           once == Metadata(agent)
           named == [once EXCEPT !.session = name]
           twice == Normalized(named)
           hint == HintOf(agent, name)
           target == [session |-> "id", pane |-> "id", thread |-> agent.thread, test |-> ""]
           type == IF agent.status = "blocked" THEN "attention_required" ELSE "progress_updated"
<1>1. raw \in RawMetadata(Seq(Runes)) /\ raw.status = agent.status
  BY DEF Agent, RawMetadata, SessionNames
<1>2. once \in MetadataOf(Seq(Visible)) /\ once.status = agent.status
  BY <1>1, NormalizedIs DEF Metadata
<1> HIDE DEF raw, once
<1>3. named \in RawMetadata(Seq(Visible)) /\ named.status = agent.status
  BY <1>2 DEF MetadataOf, RawMetadata
<1>4. named \in RawMetadata(Seq(Runes))
  <2>1. named.workspace \in Seq(Runes) /\ named.shown \in [Fields -> Seq(Runes)]
    BY <1>3, VisibleText DEF RawMetadata
  <2> HIDE DEF named
  <2> QED BY <1>3, <2>1 DEF RawMetadata
<1> HIDE DEF named
<1>5. /\ twice \in MetadataOf(Seq(Visible)) /\ twice.status = agent.status
      /\ Fits(twice) /\ Tidy(twice)
  BY <1>3, <1>4, NormalizedIs
<1> HIDE DEF twice
<1>6. twice = Normalized(twice)
  BY <1>5, NormalizedAsIs
<1>7. hint = Hint(agent, twice)
  BY DEF HintOf, twice, named, once
<1>8. /\ hint.version = 2 /\ hint.source = "herdr" /\ hint.metadata = twice
      /\ hint.thread = "" /\ hint.turn = "" /\ hint.request = ""
      /\ hint.type = type /\ hint.target = target
  <2>1. hint = [version |-> 2, source |-> "herdr", thread |-> "", turn |-> "", request |-> "",
                type |-> type, target |-> target, metadata |-> twice]
    BY <1>7, Zenon DEF Hint
  <2> HIDE DEF hint, type, target
  <2> QED BY <2>1
<1> HIDE DEF hint
<1>9. ValidFor(twice, hint.type)
  <2>1. /\ Announces("attention_required") = {"blocked"}
        /\ Announces("progress_updated") = {"idle", "done"}
    BY DEF Announces
  <2>2. CASE agent.status = "blocked"
    <3>1. hint.type = "attention_required"
      BY <1>8, <2>2
    <3> QED BY <1>5, <1>6, <2>1, <2>2, <3>1 DEF ValidFor
  <2>3. CASE agent.status \in {"idle", "done"}
    <3>1. hint.type = "progress_updated"
      BY <1>8, <2>3
    <3> QED BY <1>5, <1>6, <2>1, <2>3, <3>1 DEF ValidFor
  <2> QED BY <2>2, <2>3
<1>10. ValidMetadata(hint)
  BY <1>8, <1>9 DEF ValidMetadata, EventSource
<1>11. ValidHerdr(hint)
  <2>1. agent.thread \in {"", "id"}
    BY DEF Agent
  <2>2. /\ hint.target.session = "id" /\ hint.target.pane = "id" /\ hint.target.test = ""
        /\ hint.target.thread = agent.thread
    <3>1. /\ target.session = "id" /\ target.pane = "id" /\ target.test = ""
          /\ target.thread = agent.thread
      OBVIOUS
    <3> HIDE DEF target
    <3> QED BY <1>8, <3>1
  <2>3. hint.target # NoTarget
    <3>1. NoTarget.session = "none"
      BY DEF NoTarget
    <3> QED BY <2>2, <3>1
  <2>4. hint.type \in {"attention_required", "progress_updated"}
    BY <1>8
  <2>5. hint.type # "test_notification"
    BY <2>4
  <2> QED BY <1>8, <2>1, <2>2, <2>3, <2>4, <2>5 DEF ValidHerdr, ValidID, Optional
<1>12. FiledUnder(hint) = "herdr"
  BY <1>8, <1>10, <1>11 DEF FiledUnder, EventSource, Valid
<1> QED
  BY <1>12 DEF hint

------------------------------------------------------------------------------
(* The channel and the map of the Herdr loop. *)

\* A channel is a sequence of at most Buffer signals.
LEMMA ChannelIsSeq == Channel = {c \in Seq(Signal) : Len(c) <= Buffer}
<1>1. ASSUME NEW c \in Channel PROVE c \in Seq(Signal) /\ Len(c) <= Buffer
  <2>1. PICK m \in 0..Buffer : c \in [1..m -> Signal]
    BY DEF Channel, BoundedSeq, SeqOf
  <2> QED
    BY <2>1, SlotAssumption
<1>2. ASSUME NEW c \in Seq(Signal), Len(c) <= Buffer PROVE c \in Channel
  <2>1. Len(c) \in 0..Buffer /\ c \in [1..Len(c) -> Signal]
    BY <1>2, SlotAssumption
  <2> QED
    BY <2>1 DEF Channel, BoundedSeq, SeqOf
<1> QED
  BY <1>1, <1>2

\* One signal more, while there is room.
LEMMA ChannelAppend ==
  ASSUME NEW c \in Channel, Len(c) < Buffer, NEW s \in Signal
  PROVE  Append(c, s) \in Channel /\ ToSet(Append(c, s)) = ToSet(c) \cup {s}
<1>1. c \in Seq(Signal) /\ Len(c) \in Nat
  BY ChannelIsSeq
<1>2. Append(c, s) \in Seq(Signal) /\ Len(Append(c, s)) = Len(c) + 1
  BY <1>1
<1>3. Append(c, s) \in Channel
  BY <1>1, <1>2, ChannelIsSeq, SlotAssumption
<1>4. /\ DOMAIN Append(c, s) = DOMAIN c \cup {Len(c) + 1}
      /\ \A i \in DOMAIN c : Append(c, s)[i] = c[i]
      /\ Append(c, s)[Len(c) + 1] = s
  BY <1>1
<1>5. ToSet(Append(c, s)) = ToSet(c) \cup {s}
  BY <1>4 DEF ToSet
<1> QED
  BY <1>3, <1>5

\* The first signal is taken from a channel, the others stay.
LEMMA ChannelTail ==
  ASSUME NEW c \in Channel, c # <<>>
  PROVE  /\ Head(c) \in Signal /\ Tail(c) \in Channel
         /\ ToSet(c) \subseteq ToSet(Tail(c)) \cup {Head(c)}
<1>1. c \in Seq(Signal) /\ Len(c) \in Nat \ {0} /\ Len(c) <= Buffer
  BY ChannelIsSeq
<1>2. Head(c) \in Signal /\ Tail(c) \in Seq(Signal) /\ Len(Tail(c)) = Len(c) - 1
  BY <1>1
<1>3. Tail(c) \in Channel
  BY <1>1, <1>2, ChannelIsSeq, SlotAssumption
<1>4. ASSUME NEW i \in DOMAIN c PROVE c[i] \in ToSet(Tail(c)) \cup {Head(c)}
  <2>1. CASE i = 1
    BY <1>1, <2>1
  <2>2. CASE i # 1
    <3>1. i - 1 \in DOMAIN Tail(c) /\ Tail(c)[i - 1] = c[i]
      BY <1>1, <1>2, <2>2
    <3> QED
      BY <3>1 DEF ToSet
  <2> QED
    BY <2>1, <2>2
<1> QED
  BY <1>2, <1>3, <1>4 DEF ToSet

LEMMA EmptyChannel == <<>> \in Channel /\ ToSet(<<>>) = {}
<1>1. <<>> \in Seq(Signal) /\ Len(<<>>) = 0
  OBVIOUS
<1> QED
  BY <1>1, ChannelIsSeq, SlotAssumption DEF ToSet

\* A map is a function from some of the keys to flags.
LEMMA DirtyIsMap ==
  ASSUME NEW f PROVE f \in Dirty <=> DOMAIN f \subseteq Keys /\ f \in [DOMAIN f -> BOOLEAN]
BY DEF Dirty

LEMMA MergeDirty ==
  ASSUME NEW f \in Dirty, NEW s \in Signal
  PROVE  /\ Merge(f, s) \in Dirty
         /\ s.baseline => IsBaseline(Merge(f, s), s.key)
         /\ \A k : IsBaseline(f, k) => IsBaseline(Merge(f, s), k)
<1>1. DOMAIN f \subseteq Keys /\ f \in [DOMAIN f -> BOOLEAN]
  BY DirtyIsMap
<1>2. s.key \in Keys /\ s.baseline \in BOOLEAN
  BY DEF Signal
<1>3. DOMAIN Merge(f, s) = DOMAIN f \cup {s.key}
  BY DEF Merge
<1>4. Merge(f, s) \in [DOMAIN f \cup {s.key} -> BOOLEAN]
  BY <1>1, <1>2 DEF Merge, IsBaseline
<1>5. Merge(f, s) \in Dirty
  BY <1>1, <1>2, <1>3, <1>4, DirtyIsMap
<1> QED
  BY <1>3, <1>5 DEF Merge, IsBaseline

LEMMA DropDirty ==
  ASSUME NEW f \in Dirty, NEW k, NEW g, g = [other \in DOMAIN f \ {k} |-> f[other]]
  PROVE  /\ g \in Dirty
         /\ \A other : other # k /\ IsBaseline(f, other) => IsBaseline(g, other)
<1>1. DOMAIN f \subseteq Keys /\ f \in [DOMAIN f -> BOOLEAN]
  BY DirtyIsMap
<1>2. DOMAIN g \subseteq Keys /\ g \in [DOMAIN g -> BOOLEAN]
  BY <1>1
<1>3. g \in Dirty
  BY <1>2, DirtyIsMap
<1> QED
  BY <1>3 DEF IsBaseline

------------------------------------------------------------------------------
(* Types. *)

LEMMA OffType == Off \in Daemon
<1>1. NoKeys \in Dirty
  BY DirtyIsMap DEF NoKeys
<1> QED
  BY <1>1, EmptyChannel DEF Off, Daemon

LEMMA TypedInit == Init => TypeOK
<1> SUFFICES ASSUME Init PROVE TypeOK
  OBVIOUS
<1>1. daemon \in [Daemons -> Daemon]
  BY OffType DEF Init
<1>2. conn \in [Clients -> Connection] /\ Connected
  BY DEF Init, NoConnection, Connection, Message, Connected
<1>3. rows \in [Hooks \cup Hints -> Row]
  BY DEF Init, NoRow, Row
<1> QED
  BY <1>1, <1>2, <1>3 DEF Init, TypeOK

\* A daemon that goes on running keeps its connections.
LEMMA StillConnected ==
  ASSUME Connected, conn' = conn,
         \A d \in Daemons : Up(d) => Up(d)'
  PROVE  Connected'
BY DEF Connected, Up

\* What the connections become when a daemon drops some of them.
LEMMA Dropped ==
  ASSUME TypeOK, NEW d \in Daemons, NEW pcs, Drop(d, pcs)
  PROVE  /\ conn' \in [Clients -> Connection]
         /\ told' \in [Hooks -> {"nothing", "waiting", "accepted", "failed"}]
         /\ \A c \in Clients :
               \/ conn'[c] = NoConnection
               \/ conn'[c] = conn[c] /\ (conn[c].daemon # d \/ conn[c].pc \notin pcs)
         /\ \A c \in Clients :
               conn[c].daemon # d \/ conn[c].pc \notin pcs => conn'[c] = conn[c]
         /\ \A h \in Hooks : told'[h] = "accepted" => told[h] = "accepted"
<1>1. NoConnection \in Connection
  BY DEF NoConnection, Connection, Message
<1> QED
  BY <1>1 DEF Drop, TypeOK

\* A daemon d becomes r, and goes on if it runs.
Becomes(d, r) ==
    /\ r \in Daemon /\ (Up(d) => r.main \in {"serve", "drain"})
    /\ daemon' = [daemon EXCEPT ![d] = r]

LEMMA Become ==
  ASSUME TypeOK, NEW d \in Daemons, NEW r, Becomes(d, r)
  PROVE  /\ daemon' \in [Daemons -> Daemon]
         /\ daemon'[d] = r /\ \A e \in Daemons \ {d} : daemon'[e] = daemon[e]
         /\ \A e \in Daemons : Up(e) => Up(e)'
BY DEF TypeOK, Becomes, Up

\* When connections and rows stay, types stay.
LEMMA TypedBecome ==
  ASSUME TypeOK, NEW d \in Daemons, NEW r, Becomes(d, r),
         UNCHANGED <<conn, told, rows, owed>>, path' \in {path, d, "none"}
  PROVE  TypeOK'
<1>1. daemon' \in [Daemons -> Daemon] /\ \A e \in Daemons : Up(e) => Up(e)'
  BY Become
<1>2. Connected'
  BY <1>1, StillConnected DEF TypeOK
<1> QED
  BY <1>1, <1>2 DEF TypeOK

LEMMA TypedProcess ==
  ASSUME TypeOK, NEW d \in Daemons, ProcessStep(d)
  PROVE  TypeOK'
<1>0. daemon[d] \in Daemon
  BY DEF TypeOK
<1>1. CASE Start(d)
  <2>1. PICK a \in BOOLEAN : daemon' = [daemon EXCEPT ![d] = [Off EXCEPT !.main = "clear", !.active = a]]
    BY <1>1 DEF Start
  <2>2. [Off EXCEPT !.main = "clear", !.active = a] \in Daemon
    BY OffType DEF Daemon
  <2>3. Becomes(d, [Off EXCEPT !.main = "clear", !.active = a])
    BY <1>1, <2>1, <2>2 DEF Becomes, Start, At, Up
  <2> QED
    BY <1>1, <2>3, TypedBecome DEF Start
<1>2. CASE Clear(d)
  <2>1. [daemon[d] EXCEPT !.main = "bind"] \in Daemon
    BY <1>0 DEF Daemon
  <2>2. Becomes(d, [daemon[d] EXCEPT !.main = "bind"])
    BY <1>2, <2>1 DEF Becomes, Clear, At, Up, TypeOK
  <2> QED
    BY <1>2, <2>2, TypedBecome DEF Clear
<1>3. CASE Bind(d)
  <2> DEFINE r == [daemon[d] EXCEPT !.main = "serve", !.listening = TRUE,
                      !.uploader = "pass", !.enroller = "run", !.observer = "run"]
  <2>1. r \in Daemon /\ r.main = "serve"
    BY <1>0 DEF Daemon
  <2>2. CASE daemon' = [daemon EXCEPT ![d] = r] /\ path' = d
    <3>1. Becomes(d, r)
      BY <2>1, <2>2 DEF Becomes
    <3> QED
      BY <1>3, <2>2, <3>1, TypedBecome DEF Bind
  <2>3. CASE daemon' = [daemon EXCEPT ![d] = Off] /\ path' = path
    <3>1. Becomes(d, Off)
      BY <1>3, <2>3, OffType DEF Becomes, Bind, At, Up
    <3> QED
      BY <1>3, <2>3, <3>1, TypedBecome DEF Bind
  <2> QED
    BY <1>3, <2>2, <2>3 DEF Bind
<1>4. CASE Stop(d)
  <2>1. [daemon[d] EXCEPT !.cancelled = TRUE] \in Daemon
    BY <1>0 DEF Daemon
  <2>2. Becomes(d, [daemon[d] EXCEPT !.cancelled = TRUE])
    BY <1>0, <1>4, <2>1 DEF Becomes, Stop, Up, TypeOK, Daemon
  <2> QED
    BY <1>4, <2>2, TypedBecome DEF Stop
<1>5. CASE AcceptFails(d)
  <2>1. [daemon[d] EXCEPT !.main = "drain"] \in Daemon
    BY <1>0 DEF Daemon
  <2>2. Becomes(d, [daemon[d] EXCEPT !.main = "drain"])
    BY <1>0, <1>5, <2>1 DEF Becomes, AcceptFails, Up, TypeOK, Daemon
  <2> QED
    BY <1>5, <2>2, TypedBecome DEF AcceptFails
<1>6. CASE CloseListener(d)
  <2>1. [daemon[d] EXCEPT !.listening = FALSE] \in Daemon
    BY <1>0 DEF Daemon
  <2>2. Becomes(d, [daemon[d] EXCEPT !.listening = FALSE])
    BY <1>0, <1>6, <2>1 DEF Becomes, CloseListener, Up, TypeOK, Daemon
  <2>3. daemon' \in [Daemons -> Daemon] /\ \A e \in Daemons : Up(e) => Up(e)'
    BY <2>2, Become
  <2>4. Connected'
    BY <1>6, <2>3, Dropped DEF CloseListener, TypeOK, Connected, NoConnection, Up
  <2> QED
    BY <1>6, <2>3, <2>4, Dropped DEF CloseListener, TypeOK
<1>7. CASE Exit(d) \/ Kill(d)
  <2>1. /\ daemon' = [daemon EXCEPT ![d] = Off] /\ owed' \subseteq owed /\ rows' = rows
        /\ Drop(d, {"backlog", "read", "reply", "wake"})
        /\ path' \in {path, "none", "stale"}
    BY <1>7 DEF Exit, Kill
  <2>2. daemon' \in [Daemons -> Daemon] /\ (\A e \in Daemons \ {d} : Up(e) => Up(e)')
    BY <2>1, OffType DEF TypeOK, Up
  <2>3. ASSUME NEW c \in Clients, conn'[c].pc # "none"
        PROVE  conn'[c] = conn[c] /\ conn[c].daemon # d
    <3>1. conn[c].pc \in {"none", "backlog", "read", "reply", "wake"}
      BY DEF TypeOK, Connection
    <3> QED
      BY <2>1, <2>3, <3>1, Dropped DEF NoConnection
  <2>4. Connected'
    BY <2>2, <2>3 DEF TypeOK, Connected, Up
  <2> QED
    BY <2>1, <2>2, <2>4, Dropped DEF TypeOK
<1> QED
  BY <1>1, <1>2, <1>3, <1>4, <1>5, <1>6, <1>7 DEF ProcessStep

\* What is sent is a message, and only hooks send events.
LEMMA Messages ==
  /\ HookMessages \subseteq Message
  /\ VisitorMessages \subseteq Message
  /\ \A m \in VisitorMessages : m.kind # "event"
<1>1. HookMessages \subseteq Message
  BY DEF HookMessages, Message
<1>2. ASSUME NEW m \in VisitorMessages PROVE m \in Message /\ m.kind # "event"
  <2>1. CASE m \in [kind: {"other", "silent"}]
    BY <2>1 DEF Message
  <2>2. CASE m \notin [kind: {"other", "silent"}]
    <3>1. PICK k \in Keys, s \in Signals :
            ValidSignal(s) /\ m = [kind |-> "signal", key |-> k, baseline |-> s.baseline]
      BY <2>2 DEF VisitorMessages
    <3>2. s.baseline \in BOOLEAN
      <4>1. PICK t \in Triggers : s = NormalizeHerdrHook(t[1], t[2])
        BY DEF Signals
      <4>2. \/ s = [pane |-> "", baseline |-> TRUE]
            \/ s = [pane |-> t[2].pane, baseline |-> FALSE]
            \/ s = [pane |-> "none", baseline |-> FALSE]
        BY <4>1 DEF NormalizeHerdrHook, NoSignal
      <4>3. CASE s = [pane |-> "", baseline |-> TRUE]
        BY <4>3
      <4>4. ASSUME NEW p, s = [pane |-> p, baseline |-> FALSE] PROVE s.baseline \in BOOLEAN
        BY <4>4
      <4> QED
        BY <4>2, <4>3, <4>4
    <3> QED
      BY <3>1, <3>2 DEF Message
  <2> QED
    BY <2>1, <2>2
<1> QED
  BY <1>1, <1>2

\* A connection that is open belongs to a daemon that runs.
LEMMA Open ==
  ASSUME TypeOK, NEW c \in Clients, conn[c].pc # "none"
  PROVE  /\ conn[c].daemon \in Daemons /\ Up(conn[c].daemon)
         /\ daemon[conn[c].daemon] \in Daemon
BY DEF TypeOK, Connected, Up

\* An open connection goes on, or is closed.
LEMMA Moved ==
  ASSUME TypeOK, NEW c \in Clients, conn[c].pc # "none",
         NEW pc \in {"backlog", "read", "reply", "wake"},
         conn' = [conn EXCEPT ![c].pc = pc] \/ conn' = [conn EXCEPT ![c] = NoConnection],
         \A d \in Daemons : Up(d) => Up(d)'
  PROVE  conn' \in [Clients -> Connection] /\ Connected'
<1>1. NoConnection \in Connection /\ NoConnection.pc = "none"
  BY DEF NoConnection, Connection, Message
<1>2. [conn[c] EXCEPT !.pc = pc] \in Connection
  BY DEF TypeOK, Connection
<1>3. conn' \in [Clients -> Connection]
  BY <1>1, <1>2 DEF TypeOK
<1>4. ASSUME NEW x \in Clients
      PROVE  \/ conn'[x].pc = "none"
             \/ conn[x].pc # "none" /\ conn'[x].daemon = conn[x].daemon
  BY <1>1 DEF TypeOK, Connection
<1> QED
  BY <1>3, <1>4 DEF TypeOK, Connected, Up

LEMMA ToldType ==
  ASSUME TypeOK, NEW c, NEW answer \in {"accepted", "failed"}, Tell(c, answer)
  PROVE  told' \in [Hooks -> {"nothing", "waiting", "accepted", "failed"}]
BY DEF TypeOK, Tell

LEMMA Unheard ==
  ASSUME TypeOK, NEW c \in Clients, conn[c].pc # "none", CloseUnheard(c),
         \A d \in Daemons : Up(d) => Up(d)'
  PROVE  /\ conn' \in [Clients -> Connection] /\ Connected'
         /\ told' \in [Hooks -> {"nothing", "waiting", "accepted", "failed"}]
BY Moved, ToldType DEF CloseUnheard

LEMMA SameUp == ASSUME daemon' = daemon PROVE \A d \in Daemons : Up(d) => Up(d)'
BY DEF Up

LEMMA AddType ==
  ASSUME TypeOK, NEW d \in Daemons, NEW i \in Hooks \cup Hints,
         NEW source \in {"codex", "herdr"}, Add(d, i, source)
  PROVE  /\ rows' \in [Hooks \cup Hints -> Row]
         /\ rows'[i] = [state |-> "due", by |-> d, source |-> source]
         /\ \A j \in (Hooks \cup Hints) \ {i} : rows'[j] = rows[j]
<1>1. [state |-> "due", by |-> d, source |-> source] \in Row
  BY DEF Row
<1> QED
  BY <1>1 DEF TypeOK, Add

LEMMA TypedConnection ==
  ASSUME TypeOK, PathInv, ReplyInv, NEW c \in Clients, ConnectionStep(c)
  PROVE  TypeOK'
<1>1. ASSUME NEW m, Connect(c, m) PROVE TypeOK'
  <2>1. m \in Message /\ UNCHANGED <<path, daemon, rows, owed>>
    BY <1>1, Messages DEF Connect
  <2>2. CASE path \notin Daemons
    <3>1. conn' = conn /\ told' = [told EXCEPT ![c] = "failed"]
      BY <1>1, <2>2 DEF Connect
    <3> QED
      BY <2>1, <3>1, SameUp, StillConnected DEF TypeOK
  <2>3. CASE path \in Daemons
    <3>1. /\ conn' = [conn EXCEPT ![c] = [pc |-> "backlog", daemon |-> path, message |-> m]]
          /\ told' = [h \in Hooks |-> IF h = c THEN "waiting" ELSE told[h]]
      BY <1>1, <2>3 DEF Connect
    <3>2. [pc |-> "backlog", daemon |-> path, message |-> m] \in Connection /\ Up(path)
      BY <2>1, <2>3 DEF Connection, PathInv
    <3>3. conn' \in [Clients -> Connection] /\ Connected'
      BY <2>1, <2>3, <3>1, <3>2 DEF TypeOK, Connected, Up
    <3> QED
      BY <2>1, <3>1, <3>3 DEF TypeOK
  <2> QED
    BY <2>2, <2>3
<1>2. ASSUME NEW d \in Daemons, Accept(d, c) PROVE TypeOK'
  <2>1. conn[c].pc # "none" /\ UNCHANGED <<path, daemon, rows, owed>>
    BY <1>2 DEF Accept
  <2>2. CASE CloseUnheard(c)
    BY <2>1, <2>2, Unheard, SameUp DEF TypeOK
  <2>3. CASE conn' = [conn EXCEPT ![c].pc = "read"] /\ told' = told
    <3>1. conn' \in [Clients -> Connection] /\ Connected'
      BY <2>1, <2>3, Moved, SameUp
    <3> QED
      BY <2>1, <2>3, <3>1 DEF TypeOK
  <2> QED
    BY <1>2, <2>2, <2>3 DEF Accept
<1>3. CASE Refuse(c)
  BY <1>3, Unheard, SameUp DEF Refuse, TypeOK
<1>4. CASE TakeDirty(c)
  <2> DEFINE d == conn[c].daemon
             signal == [key |-> conn[c].message.key, baseline |-> conn[c].message.baseline]
  <2>1. d \in Daemons /\ daemon[d] \in Daemon /\ conn[c].pc # "none" /\ UNCHANGED <<path, rows>>
    BY <1>4, Open DEF TakeDirty
  <2>2. signal \in Signal
    BY <1>4 DEF TakeDirty, TypeOK, Connection, Message, Signal
  <2>3. daemon' \in [Daemons -> Daemon] /\ (\A e \in Daemons : Up(e) => Up(e)')
        /\ owed' \subseteq Daemons \X Keys
    <3>1. CASE UNCHANGED <<daemon, owed>>
      BY <3>1 DEF TypeOK, Up
    <3>2. CASE /\ Len(daemon[d].channel) < Buffer
               /\ daemon' = [daemon EXCEPT ![d].channel = Append(@, signal)]
               /\ owed' = IF signal.baseline THEN owed \cup {<<d, signal.key>>} ELSE owed
      <4>1. daemon[d].channel \in Channel
        BY <2>1 DEF Daemon
      <4>2. Append(daemon[d].channel, signal) \in Channel
        BY <2>2, <3>2, <4>1, ChannelAppend
      <4> DEFINE r == [daemon[d] EXCEPT !.channel = Append(daemon[d].channel, signal)]
      <4>3. r \in Daemon /\ r.main = daemon[d].main
        BY <2>1, <4>2 DEF Daemon
      <4>4. Becomes(d, r)
        BY <2>1, <3>2, <4>3 DEF Becomes, Up, TypeOK
      <4>5. owed' \subseteq Daemons \X Keys
        BY <2>1, <2>2, <3>2 DEF TypeOK, Signal
      <4> QED
        BY <2>1, <4>4, <4>5, Become
    <3> QED
      BY <1>4, <3>1, <3>2 DEF TakeDirty
  <2> QED
    BY <1>4, <2>1, <2>3, Unheard DEF TakeDirty, TypeOK
<1>5. CASE Commit(c)
  <2>1. /\ conn[c].pc # "none" /\ conn[c].daemon \in Daemons /\ c \in Hooks
        /\ UNCHANGED <<path, daemon, owed>>
    BY <1>5, Open DEF Commit, ReplyInv
  <2>2. CASE Add(conn[c].daemon, c, "codex") /\ conn' = [conn EXCEPT ![c].pc = "reply"] /\ told' = told
    <3>1. conn' \in [Clients -> Connection] /\ Connected'
      BY <2>1, <2>2, Moved, SameUp
    <3>2. rows' \in [Hooks \cup Hints -> Row]
      BY <2>1, <2>2, AddType
    <3> QED
      BY <2>1, <2>2, <3>1, <3>2 DEF TypeOK
  <2>3. CASE CloseUnheard(c) /\ rows' = rows
    BY <2>1, <2>3, Unheard, SameUp DEF TypeOK
  <2> QED
    BY <1>5, <2>2, <2>3 DEF Commit
<1>6. CASE Reply(c)
  <2>1. conn[c].pc # "none" /\ UNCHANGED <<path, daemon, rows, owed>>
    BY <1>6 DEF Reply
  <2>2. conn' \in [Clients -> Connection] /\ Connected'
    BY <1>6, <2>1, Moved, SameUp DEF Reply
  <2>3. told' \in [Hooks -> {"nothing", "waiting", "accepted", "failed"}]
    BY <1>6, ToldType DEF Reply
  <2> QED
    BY <2>1, <2>2, <2>3 DEF TypeOK
<1>7. CASE Wake(c)
  <2> DEFINE d == conn[c].daemon  r == [daemon[d] EXCEPT !.wake = TRUE]
  <2>1. conn[c].pc # "none" /\ d \in Daemons /\ daemon[d] \in Daemon
        /\ UNCHANGED <<path, told, rows, owed>>
    BY <1>7, Open DEF Wake
  <2>2. r \in Daemon /\ r.main = daemon[d].main
    BY <2>1 DEF Daemon
  <2>3. Becomes(d, r)
    BY <1>7, <2>1, <2>2 DEF Becomes, Up, TypeOK, Wake
  <2>4. daemon' \in [Daemons -> Daemon] /\ \A e \in Daemons : Up(e) => Up(e)'
    BY <2>1, <2>3, Become
  <2>5. conn' \in [Clients -> Connection] /\ Connected'
    BY <1>7, <2>1, <2>4, Moved DEF Wake
  <2> QED
    BY <2>1, <2>4, <2>5 DEF TypeOK
<1> QED
  BY <1>1, <1>2, <1>3, <1>4, <1>5, <1>6, <1>7 DEF ConnectionStep

\* A loop's step that leaves its daemon running.
LEMMA TypedLoop ==
  ASSUME TypeOK, NEW d \in Daemons, NEW r \in Daemon, r.main = daemon[d].main,
         daemon' = [daemon EXCEPT ![d] = r], UNCHANGED <<path, conn, told>>,
         rows' \in [Hooks \cup Hints -> Row], owed' \subseteq Daemons \X Keys
  PROVE  TypeOK'
<1>1. Becomes(d, r)
  BY DEF Becomes, Up
<1>2. daemon' \in [Daemons -> Daemon] /\ \A e \in Daemons : Up(e) => Up(e)'
  BY <1>1, Become
<1>3. Connected'
  BY <1>2, StillConnected DEF TypeOK
<1> QED
  BY <1>2, <1>3 DEF TypeOK

\* What an answered upload makes of the rows.
LEMMA AnsweredRows ==
  ASSUME TypeOK, NEW d \in Daemons, Answered(d)
  PROVE  /\ rows' \in [Hooks \cup Hints -> Row]
         /\ \A i \in Hooks \cup Hints :
               \/ rows'[i] = rows[i]
               \/ /\ rows'[i].by = "none" /\ rows'[i].state \in {"gone", "later"}
                  /\ i = daemon[d].id /\ rows'[i].source = rows[i].source
<1> DEFINE i == daemon[d].id
<1>1. PICK state \in {"gone", "later"} :
        \/ rows' = rows
        \/ rows' = [rows EXCEPT ![i].state = state, ![i].by = "none"]
  BY DEF Answered
<1>2. CASE rows' = rows
  BY <1>2 DEF TypeOK
<1>3. CASE rows' = [rows EXCEPT ![i].state = state, ![i].by = "none"]
  <2>1. ASSUME NEW j \in Hooks \cup Hints
        PROVE  /\ rows'[j] \in Row
               /\ \/ rows'[j] = rows[j]
                  \/ /\ rows'[j].by = "none" /\ rows'[j].state = state
                     /\ j = i /\ rows'[j].source = rows[j].source
    BY <1>3 DEF TypeOK, Row
  <2> QED
    BY <1>3, <2>1 DEF TypeOK
<1> QED
  BY <1>1, <1>2, <1>3

LEMMA TypedUpload ==
  ASSUME TypeOK, NEW d \in Daemons, UploadStep(d)
  PROVE  TypeOK'
<1>0. daemon[d] \in Daemon /\ daemon \in [Daemons -> Daemon]
  BY DEF TypeOK
<1>00. UNCHANGED <<rows, owed>> => rows' \in [Hooks \cup Hints -> Row] /\ owed' \subseteq Daemons \X Keys
  BY DEF TypeOK
<1>1. ASSUME NEW why \in {"empty", "inactive", "failed"}, Return(d, why)
      PROVE  \E r \in Daemon : r.main = daemon[d].main /\ daemon' = [daemon EXCEPT ![d] = r]
  <2> DEFINE r == [daemon[d] EXCEPT !.uploader = "return", !.why = why, !.id = "none"]
  <2>1. r \in Daemon /\ r.main = daemon[d].main
    BY <1>0 DEF Daemon
  <2>2. daemon' = [daemon EXCEPT ![d] = r]
    BY <1>0, <1>1 DEF Return
  <2> QED
    BY <2>1, <2>2
<1>2. CASE Pass(d)
  <2>1. \/ \E why \in {"empty", "inactive", "failed"} : Return(d, why)
        \/ \E i \in Due : daemon' = [daemon EXCEPT ![d].uploader = "send", ![d].id = i]
    BY <1>2 DEF Pass
  <2>2. CASE \E why \in {"empty", "inactive", "failed"} : Return(d, why)
    BY <1>00, <1>1, <1>2, <2>2, TypedLoop DEF Pass
  <2>3. ASSUME NEW i \in Due, daemon' = [daemon EXCEPT ![d].uploader = "send", ![d].id = i]
        PROVE  TypeOK'
    <3> DEFINE r == [daemon[d] EXCEPT !.uploader = "send", !.id = i]
    <3>1. i \in Hooks \cup Hints
      BY DEF Due, TypeOK
    <3>2. r \in Daemon /\ r.main = daemon[d].main
      BY <1>0, <3>1 DEF Daemon
    <3>3. daemon' = [daemon EXCEPT ![d] = r]
      BY <1>0, <2>3
    <3> QED
      BY <1>00, <1>2, <3>2, <3>3, TypedLoop DEF Pass
  <2> QED
    BY <2>1, <2>2, <2>3
<1>3. CASE Answered(d)
  <2> DEFINE r == [daemon[d] EXCEPT !.uploader = "pass", !.id = "none"]
  <2>1. \/ \E why \in {"empty", "inactive", "failed"} : Return(d, why)
        \/ daemon' = [daemon EXCEPT ![d].uploader = "pass", ![d].id = "none"]
    BY <1>3 DEF Answered
  <2>2. r \in Daemon /\ r.main = daemon[d].main
    BY <1>0 DEF Daemon
  <2>3. \E s \in Daemon : s.main = daemon[d].main /\ daemon' = [daemon EXCEPT ![d] = s]
    BY <1>0, <1>1, <2>1, <2>2
  <2>4. UNCHANGED <<path, conn, told, owed>>
    BY <1>3 DEF Answered
  <2> QED
    BY <1>3, <2>3, <2>4, AnsweredRows, TypedLoop DEF TypeOK
<1>4. ASSUME NEW state \in {"wait", "ended"}, daemon' = [daemon EXCEPT ![d].uploader = state],
             UNCHANGED <<path, conn, told, rows, owed>>
      PROVE  TypeOK'
  <2> DEFINE r == [daemon[d] EXCEPT !.uploader = state]
  <2>1. r \in Daemon /\ r.main = daemon[d].main
    BY <1>0 DEF Daemon
  <2>2. daemon' = [daemon EXCEPT ![d] = r]
    BY <1>0, <1>4
  <2> QED
    BY <1>00, <1>4, <2>1, <2>2, TypedLoop
<1>5. CASE WakeUp(d)
  <2>1. PICK wake \in {daemon[d].wake, FALSE} :
          daemon' = [daemon EXCEPT ![d].uploader = "pass", ![d].wake = wake]
    BY <1>5 DEF WakeUp
  <2>2. wake \in BOOLEAN
    BY <1>0 DEF Daemon
  <2> DEFINE r == [daemon[d] EXCEPT !.uploader = "pass", !.wake = wake]
  <2>3. r \in Daemon /\ r.main = daemon[d].main
    BY <1>0, <2>2 DEF Daemon
  <2>4. daemon' = [daemon EXCEPT ![d] = r]
    BY <1>0, <2>1
  <2> QED
    BY <1>00, <1>5, <2>3, <2>4, TypedLoop DEF WakeUp
<1> QED
  BY <1>2, <1>3, <1>4, <1>5 DEF UploadStep, Sleep, UploaderEnds

LEMMA TypedEnroll ==
  ASSUME TypeOK, NEW d \in Daemons, EnrollStep(d)
  PROVE  TypeOK'
<1>0. daemon[d] \in Daemon /\ daemon \in [Daemons -> Daemon]
  BY DEF TypeOK
<1>1. PICK r \in {[daemon[d] EXCEPT !.active = TRUE, !.enroller = "wake"],
                 [daemon[d] EXCEPT !.wake = TRUE, !.enroller = "run"],
                 [daemon[d] EXCEPT !.active = FALSE],
                 [daemon[d] EXCEPT !.enroller = "ended"]} :
        daemon' = [daemon EXCEPT ![d] = r] /\ UNCHANGED <<path, conn, told, rows, owed>>
  BY <1>0 DEF EnrollStep, Enrolled, EnrolledWakes, Unregistered, EnrollerEnds
<1>2. r \in Daemon /\ r.main = daemon[d].main
  <2>1. CASE r = [daemon[d] EXCEPT !.active = TRUE, !.enroller = "wake"]
    BY <1>0, <2>1 DEF Daemon
  <2>2. CASE r = [daemon[d] EXCEPT !.wake = TRUE, !.enroller = "run"]
    BY <1>0, <2>2 DEF Daemon
  <2>3. CASE r = [daemon[d] EXCEPT !.active = FALSE]
    BY <1>0, <2>3 DEF Daemon
  <2>4. CASE r = [daemon[d] EXCEPT !.enroller = "ended"]
    BY <1>0, <2>4 DEF Daemon
  <2> QED
    BY <2>1, <2>2, <2>3, <2>4
<1> QED
  BY <1>1, <1>2, TypedLoop DEF TypeOK

\* What an observation makes of the rows: at most one hint more, by this daemon.
LEMMA ObservedRows ==
  ASSUME TypeOK, NEW d \in Daemons, NEW k \in Keys, Observe(d, k)
  PROVE  /\ rows' \in [Hooks \cup Hints -> Row]
         /\ \A i \in Hooks \cup Hints :
               \/ rows'[i] = rows[i]
               \/ /\ i \in Hints /\ rows'[i].state = "due" /\ rows'[i].by = d
                  /\ rows'[i].source = "herdr" /\ daemon'[d].observer = "wake"
<1>1. CASE rows' = rows
  BY <1>1 DEF TypeOK
<1>2. CASE rows' # rows
  <2>1. PICK h \in Hints, source \in HintSources : Add(d, h, source)
    BY <1>2 DEF Observe
  <2>2. source = "herdr"
    BY AgentAssumption, HintIsFiled DEF HintSources
  <2>3. daemon' = [daemon EXCEPT ![d].dirty = [other \in DOMAIN @ \ {k} |-> @[other]],
                                 ![d].observer = "wake"]
    BY <1>2 DEF Observe
  <2>4. daemon'[d].observer = "wake"
    BY <2>3 DEF TypeOK, Daemon
  <2>5. /\ rows' \in [Hooks \cup Hints -> Row]
        /\ rows'[h] = [state |-> "due", by |-> d, source |-> source]
        /\ \A j \in (Hooks \cup Hints) \ {h} : rows'[j] = rows[j]
    BY <2>1, <2>2, AddType
  <2>6. rows'[h].state = "due" /\ rows'[h].by = d /\ rows'[h].source = "herdr"
    BY <2>2, <2>5
  <2> QED
    BY <2>4, <2>5, <2>6
<1> QED
  BY <1>1, <1>2

LEMMA TypedObserve ==
  ASSUME TypeOK, NEW d \in Daemons, ObserveStep(d)
  PROVE  TypeOK'
<1>0. /\ daemon[d] \in Daemon /\ daemon \in [Daemons -> Daemon]
      /\ daemon[d].channel \in Channel /\ daemon[d].dirty \in Dirty
  BY DEF TypeOK, Daemon
<1>1. CASE TakeSignal(d)
  <2> DEFINE s == Head(daemon[d].channel)
             room == Cardinality(DOMAIN daemon[d].dirty) < Buffer
             dirty == IF room THEN Merge(daemon[d].dirty, s) ELSE daemon[d].dirty
             r == [daemon[d] EXCEPT !.channel = Tail(daemon[d].channel), !.dirty = dirty]
  <2>1. s \in Signal /\ Tail(daemon[d].channel) \in Channel
    BY <1>0, <1>1, ChannelTail DEF TakeSignal
  <2>2. dirty \in Dirty
    BY <1>0, <2>1, MergeDirty
  <2>3. r \in Daemon /\ r.main = daemon[d].main
    BY <1>0, <2>1, <2>2 DEF Daemon
  <2>4. daemon' = [daemon EXCEPT ![d] = r]
    BY <1>0, <1>1 DEF TakeSignal
  <2>5. owed' \subseteq owed /\ UNCHANGED <<path, conn, told, rows>>
    BY <1>1 DEF TakeSignal
  <2> QED
    BY <2>3, <2>4, <2>5, TypedLoop DEF TypeOK
<1>2. ASSUME NEW k \in Keys, Observe(d, k) PROVE TypeOK'
  <2> DEFINE f == daemon[d].dirty  g == [other \in DOMAIN f \ {k} |-> f[other]]
  <2>1. PICK pc \in {"run", "wake"} :
          daemon' = [daemon EXCEPT ![d].dirty = [other \in DOMAIN @ \ {k} |-> @[other]],
                                   ![d].observer = pc]
    BY <1>2 DEF Observe
  <2> DEFINE r == [daemon[d] EXCEPT !.dirty = g, !.observer = pc]
  <2>2. g \in Dirty
    BY <1>0, DropDirty
  <2>3. r \in Daemon /\ r.main = daemon[d].main
    BY <1>0, <2>2 DEF Daemon
  <2>4. daemon' = [daemon EXCEPT ![d] = r]
    BY <1>0, <2>1
  <2>5. owed' \subseteq owed /\ UNCHANGED <<path, conn, told>>
    BY <1>2 DEF Observe
  <2> QED
    BY <1>2, <2>3, <2>4, <2>5, ObservedRows, TypedLoop DEF TypeOK
<1>3. CASE Discover(d) \/ ObserverWakes(d) \/ ObserverEnds(d)
  <2>1. PICK r \in {[daemon[d] EXCEPT !.observer = "wake"],
                   [daemon[d] EXCEPT !.wake = TRUE, !.observer = "run"],
                   [daemon[d] EXCEPT !.observer = "ended"]} :
          daemon' = [daemon EXCEPT ![d] = r] /\ UNCHANGED <<path, conn, told, rows, owed>>
    BY <1>0, <1>3 DEF Discover, ObserverWakes, ObserverEnds
  <2>2. r \in Daemon /\ r.main = daemon[d].main
    <3>1. CASE r = [daemon[d] EXCEPT !.observer = "wake"]
      BY <1>0, <3>1 DEF Daemon
    <3>2. CASE r = [daemon[d] EXCEPT !.wake = TRUE, !.observer = "run"]
      BY <1>0, <3>2 DEF Daemon
    <3>3. CASE r = [daemon[d] EXCEPT !.observer = "ended"]
      BY <1>0, <3>3 DEF Daemon
    <3> QED
      BY <3>1, <3>2, <3>3
  <2> QED
    BY <2>1, <2>2, TypedLoop DEF TypeOK
<1> QED
  BY <1>1, <1>2, <1>3 DEF ObserveStep

LEMMA TypedStep == TypeOK /\ PathInv /\ ReplyInv /\ [Next]_vars => TypeOK'
<1> SUFFICES ASSUME TypeOK, PathInv, ReplyInv, [Next]_vars PROVE TypeOK'
  OBVIOUS
<1>1. ASSUME NEW h \in Hooks, GiveUp(h) PROVE TypeOK'
  BY <1>1, SameUp, StillConnected DEF GiveUp, TypeOK
<1>2. ASSUME NEW i \in Hooks \cup Hints, Ripen(i) PROVE TypeOK'
  <2>1. [rows[i] EXCEPT !.state = "due"] \in Row
    BY DEF TypeOK, Row
  <2>2. rows' \in [Hooks \cup Hints -> Row] /\ UNCHANGED <<path, daemon, conn, told, owed>>
    BY <1>2, <2>1 DEF Ripen, TypeOK
  <2> QED
    BY <2>2, SameUp, StillConnected DEF TypeOK
<1>3. CASE UNCHANGED vars
  BY <1>3 DEF vars, TypeOK, Connected
<1> QED
  BY <1>1, <1>2, <1>3, TypedProcess, TypedConnection, TypedUpload, TypedEnroll, TypedObserve DEF Next

------------------------------------------------------------------------------
(* What steps leave alone. *)

LEMMA LoopKeeps ==
  ASSUME TypeOK, NEW d \in Daemons, UploadStep(d) \/ EnrollStep(d) \/ ObserveStep(d)
  PROVE  /\ UNCHANGED <<path, conn, told>>
         /\ \A e \in Daemons \ {d} : daemon'[e] = daemon[e]
         /\ daemon'[d].main = daemon[d].main /\ daemon'[d].listening = daemon[d].listening
<1>0. daemon \in [Daemons -> Daemon] /\ daemon[d] \in Daemon
  BY DEF TypeOK
<1>1. CASE UploadStep(d)
  <2>1. CASE Pass(d) \/ Answered(d)
    BY <1>0, <2>1 DEF Pass, Answered, Return, Daemon
  <2>2. CASE Sleep(d) \/ WakeUp(d) \/ UploaderEnds(d)
    BY <1>0, <2>2 DEF Sleep, WakeUp, UploaderEnds, Daemon
  <2> QED
    BY <1>1, <2>1, <2>2 DEF UploadStep
<1>2. CASE EnrollStep(d)
  BY <1>0, <1>2 DEF EnrollStep, Enrolled, EnrolledWakes, Unregistered, EnrollerEnds, Daemon
<1>3. CASE ObserveStep(d)
  <2>1. CASE TakeSignal(d)
    BY <1>0, <2>1 DEF TakeSignal, Daemon
  <2>2. CASE Discover(d) \/ ObserverWakes(d) \/ ObserverEnds(d)
    BY <1>0, <2>2 DEF Discover, ObserverWakes, ObserverEnds, Daemon
  <2>3. ASSUME NEW k \in Keys, Observe(d, k)
        PROVE  /\ UNCHANGED <<path, conn, told>>
               /\ \A e \in Daemons \ {d} : daemon'[e] = daemon[e]
               /\ daemon'[d].main = daemon[d].main /\ daemon'[d].listening = daemon[d].listening
    <3>1. PICK pc \in {"run", "wake"} :
            daemon' = [daemon EXCEPT ![d].dirty = [other \in DOMAIN @ \ {k} |-> @[other]],
                                     ![d].observer = pc]
      BY <2>3 DEF Observe
    <3> QED
      BY <1>0, <2>3, <3>1 DEF Observe, Daemon
  <2> QED
    BY <1>3, <2>1, <2>2, <2>3 DEF ObserveStep
<1> QED
  BY <1>1, <1>2, <1>3

LEMMA ConnectionKeeps ==
  ASSUME TypeOK, NEW c \in Clients, ConnectionStep(c)
  PROVE  /\ path' = path
         /\ \A e \in Daemons :
               /\ daemon'[e].main = daemon[e].main /\ daemon'[e].listening = daemon[e].listening
               /\ daemon'[e].uploader = daemon[e].uploader /\ daemon'[e].why = daemon[e].why
               /\ daemon'[e].active = daemon[e].active /\ daemon'[e].enroller = daemon[e].enroller
               /\ daemon'[e].observer = daemon[e].observer /\ daemon'[e].dirty = daemon[e].dirty
               /\ daemon[e].wake => daemon'[e].wake
         /\ \A x \in Clients \ {c} : conn'[x] = conn[x]
<1>0. daemon \in [Daemons -> Daemon] /\ conn \in [Clients -> Connection]
  BY DEF TypeOK
<1>1. ASSUME NEW m, Connect(c, m) PROVE UNCHANGED <<path, daemon>> /\ \A x \in Clients \ {c} : conn'[x] = conn[x]
  BY <1>0, <1>1 DEF Connect
<1>2. CASE TakeDirty(c)
  BY <1>0, <1>2 DEF TakeDirty, CloseUnheard, Daemon
<1>3. CASE Wake(c)
  BY <1>0, <1>3 DEF Wake, Daemon
<1>4. ASSUME (\E d \in Daemons : Accept(d, c)) \/ Refuse(c) \/ Commit(c) \/ Reply(c)
      PROVE  UNCHANGED <<path, daemon>> /\ \A x \in Clients \ {c} : conn'[x] = conn[x]
  BY <1>0, <1>4 DEF Accept, Refuse, Commit, Reply, CloseUnheard
<1> QED
  BY <1>1, <1>2, <1>3, <1>4 DEF ConnectionStep

------------------------------------------------------------------------------
(* The path. *)

LEMMA PathStep == TypeOK /\ PathInv /\ [Next]_vars => PathInv'
<1> SUFFICES ASSUME TypeOK, PathInv, [Next]_vars PROVE PathInv'
  OBVIOUS
<1>0. daemon \in [Daemons -> Daemon] /\ "none" \notin Daemons /\ "stale" \notin Daemons
  BY DaemonAssumption DEF TypeOK
<1>1. ASSUME NEW d \in Daemons, ProcessStep(d) PROVE PathInv'
  <2>1. CASE Start(d)
    BY <1>0, <2>1 DEF Start, PathInv, At, Up
  <2>2. CASE Clear(d)
    BY <1>0, <2>2 DEF Clear, PathInv
  <2>3. CASE Bind(d)
    <3>1. CASE path' = d
      <4>1. daemon' = [daemon EXCEPT ![d] = [@ EXCEPT !.main = "serve", !.listening = TRUE,
                              !.uploader = "pass", !.enroller = "run", !.observer = "run"]]
        BY <1>0, <2>3, <3>1 DEF Bind, PathInv, At, Up
      <4>2. daemon'[d].main = "serve" /\ daemon'[d].listening = TRUE
        BY <1>0, <4>1 DEF Daemon
      <4> QED
        BY <3>1, <4>2 DEF PathInv, Up
    <3>2. CASE path' # d
      BY <1>0, <2>3, <3>2 DEF Bind, PathInv, Up
    <3> QED
      BY <3>1, <3>2
  <2>4. CASE Stop(d)
    BY <1>0, <2>4 DEF Stop, PathInv, Up, Daemon
  <2>5. CASE CloseListener(d)
    BY <1>0, <2>5 DEF CloseListener, PathInv
  <2>6. CASE AcceptFails(d)
    BY <1>0, <2>6 DEF AcceptFails, PathInv, Up, Daemon
  <2>7. CASE Exit(d)
    BY <1>0, <2>7 DEF Exit, PathInv, Up
  <2>8. CASE Kill(d)
    BY <1>0, <2>8 DEF Kill, PathInv, Up
  <2> QED
    BY <1>1, <2>1, <2>2, <2>3, <2>4, <2>5, <2>6, <2>7, <2>8 DEF ProcessStep
<1>2. ASSUME NEW d \in Daemons, UploadStep(d) \/ EnrollStep(d) \/ ObserveStep(d) PROVE PathInv'
  BY <1>2, LoopKeeps DEF PathInv, Up
<1>3. ASSUME NEW c \in Clients, ConnectionStep(c) PROVE PathInv'
  BY <1>3, ConnectionKeeps DEF PathInv, Up
<1>4. ASSUME UNCHANGED <<path, daemon>> PROVE PathInv'
  BY <1>4 DEF PathInv, Up
<1> QED
  BY <1>1, <1>2, <1>3, <1>4 DEF Next, GiveUp, Ripen, vars

------------------------------------------------------------------------------
(* Rows and what hooks are told. *)

LEMMA ProcessKeepsRows ==
  ASSUME NEW d \in Daemons, ProcessStep(d)
  PROVE  rows' = rows
BY DEF ProcessStep, Start, Clear, Bind, Stop, CloseListener, AcceptFails, Exit, Kill

\* Connections and what is told, in a step of a process: some are dropped.
LEMMA ProcessDrops ==
  ASSUME TypeOK, NEW d \in Daemons, ProcessStep(d)
  PROVE  /\ \A c \in Clients : conn'[c] \in {conn[c], NoConnection}
         /\ \A c \in Clients : conn[c].daemon # d \/ (Up(d)' /\ conn[c].pc # "backlog") => conn'[c] = conn[c]
         /\ \A h \in Hooks : told'[h] = "accepted" => told[h] = "accepted"
<1>1. CASE Start(d) \/ Clear(d) \/ Bind(d) \/ Stop(d) \/ AcceptFails(d)
  BY <1>1 DEF Start, Clear, Bind, Stop, AcceptFails
<1>2. CASE CloseListener(d)
  BY <1>2, Dropped DEF CloseListener
<1>3. CASE Exit(d) \/ Kill(d)
  <2>1. Drop(d, {"backlog", "read", "reply", "wake"}) /\ ~Up(d)'
    BY <1>3 DEF Exit, Kill, Up, Off, TypeOK
  <2> QED
    BY <2>1, Dropped
<1> QED
  BY <1>1, <1>2, <1>3 DEF ProcessStep

\* A row that was queued is not forgotten: it is due, retried later, or gone.
LEMMA NoRowForgotten ==
  ASSUME TypeOK, ReplyInv, [Next]_vars, NEW i \in Hooks \cup Hints, rows[i].state # "none"
  PROVE  rows'[i].state # "none"
<1>1. ASSUME NEW d \in Daemons, ProcessStep(d) PROVE rows' = rows
  BY <1>1, ProcessKeepsRows
<1>2. ASSUME NEW d \in Daemons, UploadStep(d) PROVE rows'[i].state # "none"
  <2>1. CASE Answered(d)
    BY <2>1, AnsweredRows
  <2> QED
    BY <1>2, <2>1 DEF UploadStep, Pass, Sleep, WakeUp, UploaderEnds
<1>3. ASSUME NEW d \in Daemons, EnrollStep(d) PROVE rows' = rows
  BY <1>3 DEF EnrollStep, Enrolled, EnrolledWakes, Unregistered, EnrollerEnds
<1>4. ASSUME NEW d \in Daemons, ObserveStep(d) PROVE rows'[i].state # "none"
  <2>1. ASSUME NEW k \in Keys, Observe(d, k) PROVE rows'[i].state # "none"
    BY <2>1, ObservedRows
  <2> QED
    BY <1>4, <2>1 DEF ObserveStep, TakeSignal, Discover, ObserverWakes, ObserverEnds
<1>5. ASSUME NEW c \in Clients, ConnectionStep(c) PROVE rows'[i].state # "none"
  <2>1. CASE rows' = rows
    BY <2>1
  <2>2. CASE Commit(c) /\ rows' # rows
    <3>1. conn[c].daemon \in Daemons /\ c \in Hooks /\ Add(conn[c].daemon, c, "codex")
      BY <2>2, Open DEF Commit, ReplyInv
    <3>2. rows'[c] = [state |-> "due", by |-> conn[c].daemon, source |-> "codex"]
          /\ \A j \in (Hooks \cup Hints) \ {c} : rows'[j] = rows[j]
      BY <3>1, AddType
    <3>3. rows'[c].state = "due"
      BY <3>2
    <3> QED
      BY <3>2, <3>3
  <2> QED
    BY <1>5, <2>1, <2>2 DEF ConnectionStep, Connect, Accept, Refuse, TakeDirty, Reply, Wake
<1>6. ASSUME NEW h \in Hooks, GiveUp(h) PROVE rows' = rows
  BY <1>6 DEF GiveUp
<1>7. ASSUME NEW j \in Hooks \cup Hints, Ripen(j) PROVE rows'[i].state # "none"
  BY <1>7 DEF Ripen, TypeOK, Row
<1> QED
  BY <1>1, <1>2, <1>3, <1>4, <1>5, <1>6, <1>7 DEF Next, vars

\* What a step makes of a connection that is then answered, or that sends an event.
LEMMA ReplyStep == TypeOK /\ ReplyInv /\ [Next]_vars => ReplyInv'
<1> SUFFICES ASSUME TypeOK, ReplyInv, [Next]_vars, NEW x \in Clients
             PROVE  /\ conn'[x].message.kind = "event" => x \in Hooks
                    /\ conn'[x].pc = "reply" => x \in Hooks /\ rows'[x].state # "none"
  BY DEF ReplyInv
<1>0. conn \in [Clients -> Connection]
      /\ NoConnection.message.kind = "none" /\ NoConnection.pc = "none"
  BY DEF TypeOK, NoConnection
<1>1. CASE conn'[x] \in {conn[x], NoConnection}
  BY <1>0, <1>1, NoRowForgotten DEF ReplyInv
<1>2. ASSUME NEW c \in Clients, ConnectionStep(c), conn'[x] \notin {conn[x], NoConnection}
      PROVE  /\ conn'[x].message.kind = "event" => x \in Hooks
             /\ conn'[x].pc = "reply" => x \in Hooks /\ rows'[x].state # "none"
  <2>1. x = c
    BY <1>2, ConnectionKeeps
  <2>2. ASSUME NEW m, Connect(c, m)
        PROVE  conn'[c].pc = "backlog" /\ (conn'[c].message.kind = "event" => c \in Hooks)
    <3>1. conn'[c] = [pc |-> "backlog", daemon |-> path, message |-> m]
      BY <1>0, <1>2, <2>1, <2>2 DEF Connect
    <3>2. c \in Hooks \/ m \in VisitorMessages
      BY <2>2 DEF Connect
    <3> QED
      BY <3>1, <3>2, Messages
  <2>3. ASSUME NEW pc \in {"read", "wake"}, conn' = [conn EXCEPT ![c].pc = pc]
        PROVE  conn'[c].pc # "reply" /\ conn'[c].message = conn[c].message
    BY <1>0, <2>3 DEF Connection
  <2>4. ASSUME Commit(c), conn' = [conn EXCEPT ![c].pc = "reply"]
        PROVE  c \in Hooks /\ rows'[c].state # "none"
    <3>1. c \in Hooks /\ conn[c].daemon \in Daemons
      BY <2>4, Open DEF Commit, ReplyInv
    <3>2. CASE Add(conn[c].daemon, c, "codex")
      <4>1. rows'[c] = [state |-> "due", by |-> conn[c].daemon, source |-> "codex"]
        BY <3>1, <3>2, AddType
      <4> QED
        BY <3>1, <4>1
    <3>3. CASE CloseUnheard(c)
      BY <1>0, <1>2, <2>1, <3>3 DEF CloseUnheard
    <3> QED
      BY <2>4, <3>2, <3>3 DEF Commit
  <2>5. \/ \E m : Connect(c, m)
        \/ \E pc \in {"read", "wake"} : conn' = [conn EXCEPT ![c].pc = pc]
        \/ Commit(c) /\ conn' = [conn EXCEPT ![c].pc = "reply"]
        \/ conn' = [conn EXCEPT ![c] = NoConnection]
    BY <1>2 DEF ConnectionStep, Accept, Refuse, TakeDirty, Commit, Reply, Wake, CloseUnheard
  <2>6. CASE conn' = [conn EXCEPT ![c] = NoConnection]
    BY <1>0, <1>2, <2>1, <2>6
  <2> QED
    BY <2>1, <2>2, <2>3, <2>4, <2>5, <2>6 DEF ReplyInv
<1>3. ASSUME NEW d \in Daemons, ProcessStep(d) PROVE conn'[x] \in {conn[x], NoConnection}
  BY <1>3, ProcessDrops
<1>4. ASSUME NEW d \in Daemons, UploadStep(d) \/ EnrollStep(d) \/ ObserveStep(d) PROVE conn' = conn
  BY <1>4, LoopKeeps
<1> QED
  BY <1>1, <1>2, <1>3, <1>4 DEF Next, GiveUp, Ripen, vars

LEMMA AcceptedStep ==
  TypeOK /\ ReplyInv /\ AcceptedIsQueued /\ [Next]_vars => AcceptedIsQueued'
<1> SUFFICES ASSUME TypeOK, ReplyInv, AcceptedIsQueued, [Next]_vars,
                    NEW h \in Hooks, told'[h] = "accepted"
             PROVE  rows'[h].state # "none"
  BY DEF AcceptedIsQueued
<1>1. CASE told[h] = "accepted"
  BY <1>1, NoRowForgotten DEF AcceptedIsQueued
<1>2. CASE told[h] # "accepted"
  <2>1. ASSUME NEW d \in Daemons, ProcessStep(d) PROVE FALSE
    BY <1>2, <2>1, ProcessDrops
  <2>2. ASSUME NEW d \in Daemons, UploadStep(d) \/ EnrollStep(d) \/ ObserveStep(d) PROVE FALSE
    BY <1>2, <2>2, LoopKeeps
  <2>3. ASSUME NEW c \in Clients, ConnectionStep(c) PROVE Reply(c) /\ c = h
    BY <1>2, <2>3 DEF ConnectionStep, Connect, Accept, Refuse, TakeDirty, Commit, Reply, Wake,
                      CloseUnheard, Tell, TypeOK
  <2>4. ASSUME NEW g \in Hooks, GiveUp(g) PROVE FALSE
    BY <1>2, <2>4 DEF GiveUp, TypeOK
  <2>5. ASSUME NEW i \in Hooks \cup Hints, Ripen(i) PROVE FALSE
    BY <1>2, <2>5 DEF Ripen
  <2>6. PICK c \in Clients : ConnectionStep(c)
    BY <1>2, <2>1, <2>2, <2>4, <2>5 DEF Next, vars
  <2>7. conn[h].pc = "reply" /\ rows' = rows
    BY <2>3, <2>6 DEF Reply
  <2> QED
    BY <2>7 DEF ReplyInv, Clients
<1> QED
  BY <1>1, <1>2

\* An upload is of the row it was of, or of one that is due.
LEMMA UploadOf ==
  ASSUME TypeOK, [Next]_vars, NEW e \in Daemons, daemon'[e].uploader = "send"
  PROVE  \/ daemon[e].uploader = "send" /\ daemon'[e].id = daemon[e].id
         \/ daemon'[e].id \in Due
<1> DEFINE Same == daemon[e].uploader = "send" /\ daemon'[e].id = daemon[e].id
<1>0. daemon \in [Daemons -> Daemon] /\ daemon[e] \in Daemon
  BY DEF TypeOK
<1>1. CASE daemon'[e] = daemon[e]
  BY <1>1
<1>2. ASSUME NEW d \in Daemons, ProcessStep(d), daemon'[e] # daemon[e] PROVE Same
  <2>1. e = d
    BY <1>0, <1>2 DEF ProcessStep, Start, Clear, Bind, Stop, CloseListener, AcceptFails, Exit, Kill
  <2>2. CASE Clear(d) \/ Stop(d) \/ CloseListener(d) \/ AcceptFails(d)
    BY <1>0, <2>1, <2>2 DEF Clear, Stop, CloseListener, AcceptFails, Daemon
  <2>3. CASE Start(d)
    <3>1. PICK a \in BOOLEAN : daemon' = [daemon EXCEPT ![d] = [Off EXCEPT !.main = "clear", !.active = a]]
      BY <2>3 DEF Start
    <3>2. daemon'[d].uploader = "off"
      BY <1>0, <3>1 DEF Off
    <3> QED BY <2>1, <3>2
  <2>4. CASE Bind(d) \/ Exit(d) \/ Kill(d)
    <3>1. daemon' = [daemon EXCEPT ![d] = Off] => daemon'[d].uploader = "off"
      BY <1>0 DEF Off
    <3>2. daemon' = [daemon EXCEPT ![d] = [@ EXCEPT !.main = "serve", !.listening = TRUE,
                          !.uploader = "pass", !.enroller = "run", !.observer = "run"]]
          => daemon'[d].uploader = "pass"
      BY <1>0 DEF Daemon
    <3> QED BY <2>1, <2>4, <3>1, <3>2 DEF Bind, Exit, Kill
  <2> QED BY <1>2, <2>2, <2>3, <2>4 DEF ProcessStep
<1>3. ASSUME NEW d \in Daemons, UploadStep(d), daemon'[e] # daemon[e]
      PROVE  daemon'[e].id \in Due
  <2>1. e = d
    BY <1>3, LoopKeeps
  <2>2. ASSUME NEW why, Return(d, why) PROVE FALSE
    <3>1. daemon'[d].uploader = "return"
      BY <1>0, <2>2 DEF Return, Daemon
    <3> QED BY <2>1, <3>1
  <2>3. CASE Pass(d)
    <3>1. PICK i \in Due : daemon' = [daemon EXCEPT ![d].uploader = "send", ![d].id = i]
      BY <2>2, <2>3 DEF Pass
    <3>2. daemon'[d].id = i
      BY <1>0, <3>1 DEF Daemon
    <3> QED BY <2>1, <3>2
  <2>4. CASE Answered(d)
    <3>1. daemon' = [daemon EXCEPT ![d].uploader = "pass", ![d].id = "none"]
      BY <2>2, <2>4 DEF Answered
    <3>2. daemon'[d].uploader = "pass"
      BY <1>0, <3>1 DEF Daemon
    <3> QED BY <2>1, <3>2
  <2>5. CASE Sleep(d) \/ WakeUp(d) \/ UploaderEnds(d)
    BY <1>0, <2>1, <2>5 DEF Sleep, WakeUp, UploaderEnds, Daemon
  <2> QED BY <1>3, <2>3, <2>4, <2>5 DEF UploadStep
<1>4. ASSUME NEW d \in Daemons, EnrollStep(d) PROVE Same
  BY <1>0, <1>4 DEF EnrollStep, Enrolled, EnrolledWakes, Unregistered, EnrollerEnds, Daemon
<1>5. ASSUME NEW d \in Daemons, ObserveStep(d) PROVE Same
  <2>1. CASE TakeSignal(d)
    BY <1>0, <2>1 DEF TakeSignal, Daemon
  <2>2. CASE Discover(d) \/ ObserverWakes(d) \/ ObserverEnds(d)
    BY <1>0, <2>2 DEF Discover, ObserverWakes, ObserverEnds, Daemon
  <2>3. ASSUME NEW k \in Keys, Observe(d, k) PROVE Same
    <3>1. PICK pc \in {"run", "wake"} :
            daemon' = [daemon EXCEPT ![d].dirty = [other \in DOMAIN @ \ {k} |-> @[other]],
                                     ![d].observer = pc]
      BY <2>3 DEF Observe
    <3> QED BY <1>0, <3>1 DEF Daemon
  <2> QED BY <1>5, <2>1, <2>2, <2>3 DEF ObserveStep
<1>6. ASSUME NEW c \in Clients, ConnectionStep(c) PROVE Same
  <2>1. CASE daemon' = daemon
    BY <2>1
  <2>2. CASE TakeDirty(c)
    BY <1>0, <2>2 DEF TakeDirty, CloseUnheard, Daemon
  <2>3. CASE Wake(c)
    BY <1>0, <2>3 DEF Wake, Daemon
  <2> QED
    BY <1>6, <2>1, <2>2, <2>3 DEF ConnectionStep, Connect, Accept, Refuse, Commit, Reply
<1> QED
  BY <1>1, <1>2, <1>3, <1>4, <1>5, <1>6 DEF Next, GiveUp, Ripen, vars

LEMMA SendStep == TypeOK /\ TypeOK' /\ ReplyInv /\ SendInv /\ [Next]_vars => SendInv'
<1> SUFFICES ASSUME TypeOK, TypeOK', ReplyInv, SendInv, [Next]_vars,
                    NEW e \in Daemons, daemon'[e].uploader = "send"
             PROVE  daemon'[e].id \in DOMAIN rows' /\ rows'[daemon'[e].id].state # "none"
  BY DEF SendInv
<1> DEFINE i == daemon'[e].id
<1>1. i \in Hooks \cup Hints /\ rows[i].state # "none"
  BY UploadOf DEF SendInv, Due, TypeOK
<1> HIDE DEF i
<1>2. rows'[i].state # "none"
  BY <1>1, NoRowForgotten
<1> QED
  BY <1>1, <1>2 DEF i, TypeOK

\* A hint is filed when it is queued, and keeps its source.
LEMMA FiledStep ==
  TypeOK /\ ReplyInv /\ SendInv /\ HintsAreFiledAsHerdr /\ [Next]_vars => HintsAreFiledAsHerdr'
<1> SUFFICES ASSUME TypeOK, ReplyInv, SendInv, HintsAreFiledAsHerdr, [Next]_vars,
                    NEW h \in Hints, rows'[h].state # "none"
             PROVE  rows'[h].source = "herdr"
  BY DEF HintsAreFiledAsHerdr
<1>0. h \in Hooks \cup Hints /\ h \notin Hooks
  BY ClientAssumption
<1>1. CASE rows'[h] = rows[h]
  BY <1>1 DEF HintsAreFiledAsHerdr
<1>2. ASSUME NEW d \in Daemons, UploadStep(d), rows'[h] # rows[h]
      PROVE  rows'[h].source = "herdr"
  <2>1. Answered(d)
    BY <1>2 DEF UploadStep, Pass, Sleep, WakeUp, UploaderEnds
  <2>2. h = daemon[d].id /\ rows'[h].source = rows[h].source
    BY <1>0, <1>2, <2>1, AnsweredRows
  <2>3. rows[h].state # "none"
    BY <2>1, <2>2 DEF Answered, Uploading, SendInv
  <2> QED BY <2>2, <2>3 DEF HintsAreFiledAsHerdr
<1>3. ASSUME NEW d \in Daemons, ObserveStep(d), rows'[h] # rows[h]
      PROVE  rows'[h].source = "herdr"
  <2>1. PICK k \in Keys : Observe(d, k)
    BY <1>3 DEF ObserveStep, TakeSignal, Discover, ObserverWakes, ObserverEnds
  <2> QED BY <1>0, <1>3, <2>1, ObservedRows
<1>4. ASSUME NEW d \in Daemons, ProcessStep(d) \/ EnrollStep(d) PROVE rows' = rows
  BY <1>4, ProcessKeepsRows DEF EnrollStep, Enrolled, EnrolledWakes, Unregistered, EnrollerEnds
<1>5. ASSUME NEW c \in Clients, ConnectionStep(c) PROVE rows'[h] = rows[h]
  <2>1. CASE rows' = rows
    BY <2>1
  <2>2. CASE Commit(c) /\ rows' # rows
    <3>1. conn[c].daemon \in Daemons /\ c \in Hooks /\ Add(conn[c].daemon, c, "codex")
      BY <2>2, Open DEF Commit, ReplyInv
    <3> QED BY <1>0, <3>1, AddType
  <2> QED
    BY <1>5, <2>1, <2>2 DEF ConnectionStep, Connect, Accept, Refuse, TakeDirty, Reply, Wake
<1>6. ASSUME NEW j \in Hooks \cup Hints, Ripen(j) PROVE rows'[h].source = "herdr"
  <2>1. rows[h].state # "none" /\ rows'[h].source = rows[h].source
    BY <1>0, <1>6 DEF Ripen, TypeOK, Row
  <2> QED BY <2>1 DEF HintsAreFiledAsHerdr
<1> QED
  BY <1>1, <1>2, <1>3, <1>4, <1>5, <1>6 DEF Next, GiveUp, vars

\* How a row may change, and who hears of it.
LEMMA RowChange ==
  ASSUME TypeOK, ReplyInv, LaterInv, [Next]_vars, NEW i \in Hooks \cup Hints,
         rows'[i] # rows[i]
  PROVE  \/ rows'[i].by = "none"
         \/ /\ i \in Hooks /\ conn'[i].pc = "reply" /\ conn'[i].daemon = rows'[i].by
            /\ rows'[i].state = "due" /\ rows'[i].by \in Daemons
         \/ /\ i \in Hints /\ rows'[i].state = "due" /\ rows'[i].by \in Daemons
            /\ daemon'[rows'[i].by].observer = "wake"
<1>1. ASSUME NEW d \in Daemons, ProcessStep(d) PROVE FALSE
  BY <1>1, ProcessKeepsRows
<1>2. ASSUME NEW d \in Daemons, UploadStep(d) PROVE rows'[i].by = "none"
  <2>1. Answered(d)
    BY <1>2 DEF UploadStep, Pass, Sleep, WakeUp, UploaderEnds
  <2> QED
    BY <2>1, AnsweredRows
<1>3. ASSUME NEW d \in Daemons, EnrollStep(d) PROVE FALSE
  BY <1>3 DEF EnrollStep, Enrolled, EnrolledWakes, Unregistered, EnrollerEnds
<1>4. ASSUME NEW d \in Daemons, ObserveStep(d)
      PROVE  /\ i \in Hints /\ rows'[i].state = "due" /\ rows'[i].by = d
             /\ daemon'[d].observer = "wake"
  <2>1. PICK k \in Keys : Observe(d, k)
    BY <1>4 DEF ObserveStep, TakeSignal, Discover, ObserverWakes, ObserverEnds
  <2> QED
    BY <2>1, ObservedRows
<1>5. ASSUME NEW c \in Clients, ConnectionStep(c)
      PROVE  /\ i \in Hooks /\ conn'[i].pc = "reply" /\ conn'[i].daemon = rows'[i].by
             /\ rows'[i].state = "due" /\ rows'[i].by \in Daemons
  <2>1. Commit(c) /\ Add(conn[c].daemon, c, "codex") /\ conn' = [conn EXCEPT ![c].pc = "reply"]
    BY <1>5 DEF ConnectionStep, Connect, Accept, Refuse, TakeDirty, Commit, Reply, Wake
  <2>2. conn[c].daemon \in Daemons /\ c \in Hooks
    BY <2>1, Open DEF Commit, ReplyInv
  <2>3. rows'[c] = [state |-> "due", by |-> conn[c].daemon, source |-> "codex"]
        /\ \A j \in (Hooks \cup Hints) \ {c} : rows'[j] = rows[j]
    BY <2>1, <2>2, AddType
  <2>4. i = c /\ rows'[i].state = "due" /\ rows'[i].by = conn[c].daemon
    BY <2>3
  <2>5. conn'[c].pc = "reply" /\ conn'[c].daemon = conn[c].daemon
    BY <2>1 DEF TypeOK, Connection
  <2> QED
    BY <2>2, <2>4, <2>5
<1>6. ASSUME NEW h \in Hooks, GiveUp(h) PROVE FALSE
  BY <1>6 DEF GiveUp
<1>7. ASSUME NEW j \in Hooks \cup Hints, Ripen(j) PROVE rows'[i].by = "none"
  BY <1>7 DEF Ripen, LaterInv, TypeOK, Row
<1> QED
  BY <1>1, <1>2, <1>3, <1>4, <1>5, <1>6, <1>7 DEF Next, vars

LEMMA LaterStep == TypeOK /\ TypeOK' /\ ReplyInv /\ LaterInv /\ [Next]_vars => LaterInv'
<1> SUFFICES ASSUME TypeOK, TypeOK', ReplyInv, LaterInv, [Next]_vars,
                    NEW i \in Hooks \cup Hints, rows'[i].state = "later"
             PROVE  rows'[i].by = "none"
  BY DEF LaterInv, TypeOK
<1> QED
  BY RowChange DEF LaterInv, TypeOK

------------------------------------------------------------------------------
(* No wake-up is lost. *)

\* The uploader of d has looked, and nothing has called it back so far.
Rests(d) == Up(d) /\ daemon[d].uploader \in {"return", "wait"} /\ ~daemon[d].wake

\* Whoever had a wake-up before him still has it.
Holds(e) ==
    /\ \A h \in Hooks : conn[h].pc \in {"reply", "wake"} /\ conn[h].daemon = e =>
          conn'[h].pc \in {"reply", "wake"} /\ conn'[h].daemon = e
    /\ daemon[e].observer = "wake" => daemon'[e].observer = "wake"
    /\ daemon[e].enroller = "wake" => daemon'[e].enroller = "wake"

\* A daemon that has rested before the step and holds on is still announced to.
LEMMA StillAnnounced ==
  ASSUME TypeOK, TypeOK', ReplyInv, LaterInv, RestInv, [Next]_vars, NEW e \in Daemons,
         Rests(e), Holds(e), daemon'[e].why = daemon[e].why,
         daemon'[e].active => daemon[e].active \/ daemon'[e].enroller = "wake"
  PROVE  Announced(e)'
<1>0. Announced(e)
  BY DEF RestInv, Rests
<1>1. ASSUME daemon'[e].why = "empty", NEW i \in Due', rows'[i].by = e
      PROVE  AboutToWake(e, i)'
  <2>1. i \in Hooks \cup Hints /\ rows'[i].state = "due"
    BY DEF Due, TypeOK
  <2>2. CASE rows'[i] = rows[i]
    <3>1. i \in Due /\ AboutToWake(e, i)
      BY <1>0, <1>1, <2>1, <2>2 DEF Due, TypeOK, Announced
    <3> QED
      BY <2>1, <3>1 DEF AboutToWake, Holds
  <2>3. CASE rows'[i] # rows[i]
    BY <1>1, <2>1, <2>3, RowChange, DaemonAssumption, ClientAssumption DEF AboutToWake
  <2> QED
    BY <2>2, <2>3
<1>2. daemon'[e].why = "inactive" => ~daemon'[e].active \/ daemon'[e].enroller = "wake"
  BY <1>0 DEF Announced, Holds
<1> QED
  BY <1>1, <1>2 DEF Announced

\* Daemons that take no part in a step keep what they have.
LEMMA OthersAnnounced ==
  ASSUME TypeOK, TypeOK', ReplyInv, LaterInv, RestInv, [Next]_vars, NEW e \in Daemons,
         daemon'[e] = daemon[e], Rests(e)',
         \A h \in Hooks : conn[h].pc \in {"reply", "wake"} /\ conn[h].daemon = e =>
            conn'[h].pc \in {"reply", "wake"} /\ conn'[h].daemon = e
  PROVE  Announced(e)'
<1>1. Rests(e) /\ Holds(e)
  BY DEF Rests, Holds, Up
<1> QED
  BY <1>1, StillAnnounced

LEMMA RestProcess ==
  ASSUME TypeOK, TypeOK', ReplyInv, LaterInv, RestInv, NEW d \in Daemons, ProcessStep(d),
         NEW e \in Daemons, Rests(e)'
  PROVE  Announced(e)'
<1>0. [Next]_vars
  BY DEF Next
<1>1. CASE e # d
  <2>1. daemon'[e] = daemon[e]
    BY <1>1 DEF ProcessStep, Start, Clear, Bind, Stop, CloseListener, AcceptFails, Exit, Kill, TypeOK
  <2>2. \A h \in Hooks : conn[h].daemon = e => conn'[h] = conn[h]
    BY <1>1, ProcessDrops DEF Clients
  <2> QED
    BY <1>0, <2>1, <2>2, OthersAnnounced
<1>2. CASE e = d
  <2>1. CASE Stop(d) \/ CloseListener(d) \/ AcceptFails(d)
    <3>1. /\ daemon'[d].uploader = daemon[d].uploader /\ daemon'[d].why = daemon[d].why
          /\ daemon'[d].wake = daemon[d].wake /\ daemon'[d].active = daemon[d].active
          /\ daemon'[d].enroller = daemon[d].enroller /\ daemon'[d].observer = daemon[d].observer
          /\ Up(d)' => Up(d)
      BY <2>1 DEF Stop, CloseListener, AcceptFails, TypeOK, Daemon, Up, At
    <3>2. \A h \in Hooks : conn[h].pc \in {"reply", "wake"} => conn'[h] = conn[h]
      BY <1>2, ProcessDrops DEF Clients, Rests
    <3>3. Rests(e) /\ Holds(e)
      BY <1>2, <3>1, <3>2 DEF Rests, Holds
    <3> QED
      BY <1>0, <1>2, <3>1, <3>3, StillAnnounced
  <2>2. CASE Start(d) \/ Clear(d) \/ Bind(d) \/ Exit(d) \/ Kill(d)
    <3>1. ~(Up(d)' /\ daemon'[d].uploader \in {"return", "wait"})
      <4>0. daemon \in [Daemons -> Daemon] /\ Off.main = "off"
        BY DEF TypeOK, Off
      <4>1. CASE Start(d)
        <5>1. PICK a \in BOOLEAN : daemon' = [daemon EXCEPT ![d] = [Off EXCEPT !.main = "clear", !.active = a]]
          BY <4>1 DEF Start
        <5>2. daemon'[d].main = "clear"
          BY <4>0, <5>1 DEF Off
        <5> QED
          BY <5>2 DEF Up
      <4>2. CASE Clear(d)
        BY <4>0, <4>2 DEF Clear, Up, Daemon
      <4>3. CASE Bind(d)
        <5>1. daemon' = [daemon EXCEPT ![d] = Off] => daemon'[d].main = "off"
          BY <4>0
        <5>2. daemon' = [daemon EXCEPT ![d] = [@ EXCEPT !.main = "serve", !.listening = TRUE,
                              !.uploader = "pass", !.enroller = "run", !.observer = "run"]]
              => daemon'[d].uploader = "pass"
          BY <4>0 DEF Daemon
        <5> QED
          BY <4>3, <5>1, <5>2 DEF Bind, Up
      <4>4. CASE Exit(d) \/ Kill(d)
        BY <4>0, <4>4 DEF Exit, Kill, Up
      <4> QED
        BY <2>2, <4>1, <4>2, <4>3, <4>4
    <3> QED
      BY <1>2, <3>1 DEF Rests
  <2> QED
    BY <2>1, <2>2 DEF ProcessStep
<1> QED
  BY <1>1, <1>2

LEMMA RestConnection ==
  ASSUME TypeOK, TypeOK', ReplyInv, LaterInv, RestInv, NEW c \in Clients, ConnectionStep(c),
         NEW e \in Daemons, Rests(e)'
  PROVE  Announced(e)'
<1>0. [Next]_vars
  BY DEF Next
<1>1. /\ Rests(e) /\ daemon'[e].why = daemon[e].why /\ daemon'[e].active = daemon[e].active
      /\ daemon'[e].enroller = daemon[e].enroller /\ daemon'[e].observer = daemon[e].observer
  BY ConnectionKeeps DEF Rests, Up
<1>2. ASSUME conn[c].pc \in {"reply", "wake"}, conn[c].daemon = e
      PROVE  conn'[c].pc \in {"reply", "wake"} /\ conn'[c].daemon = e
  <2>1. ~Wake(c)
    BY <1>2 DEF Wake, Rests, TypeOK, Daemon
  <2>2. Reply(c)
    BY <1>2, <2>1 DEF ConnectionStep, Connect, Accept, Refuse, TakeDirty, Commit
  <2> QED
    BY <1>2, <2>2 DEF Reply, TypeOK, Connection
<1>3. Holds(e)
  BY <1>1, <1>2, ConnectionKeeps DEF Holds, Clients
<1> QED
  BY <1>0, <1>1, <1>3, StillAnnounced

LEMMA RestUpload ==
  ASSUME TypeOK, TypeOK', ReplyInv, LaterInv, RestInv, NEW d \in Daemons, UploadStep(d),
         NEW e \in Daemons, Rests(e)'
  PROVE  Announced(e)'
<1>0. [Next]_vars /\ daemon \in [Daemons -> Daemon] /\ conn' = conn
  BY LoopKeeps DEF Next, TypeOK
<1>1. CASE e # d
  BY <1>0, <1>1, LoopKeeps, OthersAnnounced
<1>2. CASE e = d
  <2>1. ASSUME NEW why, Return(d, why)
        PROVE  daemon'[d].why = why /\ daemon'[d].active = daemon[d].active
    BY <1>0, <2>1 DEF Return, Daemon
  <2>2. CASE Pass(d)
    <3>1. CASE Return(d, "failed")
      BY <1>2, <2>1, <3>1 DEF Announced
    <3>2. CASE Return(d, "inactive") /\ ~daemon[d].active
      BY <1>2, <2>1, <3>2 DEF Announced
    <3>3. CASE Return(d, "empty") /\ Due = {}
      <4>1. Due' = {}
        BY <2>2, <3>3 DEF Pass, Due
      <4> QED
        BY <1>2, <2>1, <3>3, <4>1 DEF Announced
    <3>4. ASSUME NEW i, daemon' = [daemon EXCEPT ![d].uploader = "send", ![d].id = i] PROVE FALSE
      <4>1. daemon'[d].uploader = "send"
        BY <1>0, <3>4 DEF Daemon
      <4> QED
        BY <1>2, <4>1 DEF Rests
    <3> QED
      BY <2>2, <3>1, <3>2, <3>3, <3>4 DEF Pass
  <2>3. CASE Answered(d)
    <3>1. CASE Return(d, "failed")
      BY <1>2, <2>1, <3>1 DEF Announced
    <3>2. CASE daemon' = [daemon EXCEPT ![d].uploader = "pass", ![d].id = "none"]
      <4>1. daemon'[d].uploader = "pass"
        BY <1>0, <3>2 DEF Daemon
      <4> QED
        BY <1>2, <4>1 DEF Rests
    <3> QED
      BY <2>3, <3>1, <3>2 DEF Answered
  <2>4. CASE Sleep(d)
    <3>1. /\ Up(d) /\ daemon[d].uploader = "return" /\ daemon'[d].wake = daemon[d].wake
          /\ daemon'[d].why = daemon[d].why /\ daemon'[d].active = daemon[d].active
          /\ daemon'[d].enroller = daemon[d].enroller /\ daemon'[d].observer = daemon[d].observer
      BY <1>0, <2>4 DEF Sleep, Uploading, Daemon
    <3>2. Rests(e) /\ Holds(e)
      BY <1>0, <1>2, <3>1 DEF Rests, Holds
    <3> QED
      BY <1>0, <1>2, <3>1, <3>2, StillAnnounced
  <2>5. CASE WakeUp(d)
    <3>1. daemon'[d].uploader = "pass"
      BY <1>0, <2>5 DEF WakeUp, Daemon
    <3> QED
      BY <1>2, <3>1 DEF Rests
  <2>6. CASE UploaderEnds(d)
    <3>1. daemon'[d].uploader = "ended"
      BY <1>0, <2>6 DEF UploaderEnds, Daemon
    <3> QED
      BY <1>2, <3>1 DEF Rests
  <2> QED
    BY <2>2, <2>3, <2>4, <2>5, <2>6 DEF UploadStep
<1> QED
  BY <1>1, <1>2

LEMMA RestEnroll ==
  ASSUME TypeOK, TypeOK', ReplyInv, LaterInv, RestInv, NEW d \in Daemons, EnrollStep(d),
         NEW e \in Daemons, Rests(e)'
  PROVE  Announced(e)'
<1>0. [Next]_vars /\ daemon \in [Daemons -> Daemon] /\ conn' = conn
  BY LoopKeeps DEF Next, TypeOK
<1>1. CASE e # d
  BY <1>0, <1>1, LoopKeeps, OthersAnnounced
<1>2. CASE e = d
  <2>1. CASE EnrolledWakes(d)
    <3>1. daemon'[d].wake = TRUE
      BY <1>0, <2>1 DEF EnrolledWakes, Daemon
    <3> QED
      BY <1>2, <3>1 DEF Rests
  <2>2. CASE Enrolled(d) \/ Unregistered(d) \/ EnrollerEnds(d)
    <3>1. /\ daemon'[d].main = daemon[d].main /\ daemon'[d].uploader = daemon[d].uploader
          /\ daemon'[d].wake = daemon[d].wake /\ daemon'[d].why = daemon[d].why
          /\ daemon'[d].observer = daemon[d].observer /\ daemon[d].enroller = "run"
      BY <1>0, <2>2 DEF Enrolled, Unregistered, EnrollerEnds, Enrolling, Daemon
    <3>2. daemon'[d].active => daemon[d].active \/ daemon'[d].enroller = "wake"
      BY <1>0, <2>2 DEF Enrolled, Unregistered, EnrollerEnds, Daemon
    <3>3. Rests(e) /\ Holds(e)
      BY <1>0, <1>2, <3>1 DEF Rests, Holds, Up
    <3> QED
      BY <1>0, <1>2, <3>1, <3>2, <3>3, StillAnnounced
  <2> QED
    BY <2>1, <2>2 DEF EnrollStep
<1> QED
  BY <1>1, <1>2

LEMMA RestObserve ==
  ASSUME TypeOK, TypeOK', ReplyInv, LaterInv, RestInv, NEW d \in Daemons, ObserveStep(d),
         NEW e \in Daemons, Rests(e)'
  PROVE  Announced(e)'
<1>0. [Next]_vars /\ daemon \in [Daemons -> Daemon] /\ conn' = conn
  BY LoopKeeps DEF Next, TypeOK
<1>1. CASE e # d
  BY <1>0, <1>1, LoopKeeps, OthersAnnounced
<1>2. CASE e = d
  <2>1. CASE ObserverWakes(d)
    <3>1. daemon'[d].wake = TRUE
      BY <1>0, <2>1 DEF ObserverWakes, Daemon
    <3> QED
      BY <1>2, <3>1 DEF Rests
  <2>2. CASE ~ObserverWakes(d)
    <3> DEFINE Same ==
                 /\ daemon[d].observer = "run"
                 /\ daemon'[d].main = daemon[d].main /\ daemon'[d].uploader = daemon[d].uploader
                 /\ daemon'[d].wake = daemon[d].wake /\ daemon'[d].why = daemon[d].why
                 /\ daemon'[d].active = daemon[d].active
                 /\ daemon'[d].enroller = daemon[d].enroller
    <3>1. ASSUME TakeSignal(d) \/ Discover(d) \/ ObserverEnds(d) PROVE Same
      BY <1>0, <3>1 DEF TakeSignal, Discover, ObserverEnds, Observing, Daemon
    <3>2. ASSUME NEW k \in Keys, Observe(d, k) PROVE Same
      <4>1. PICK pc \in {"run", "wake"} :
              daemon' = [daemon EXCEPT ![d].dirty = [other \in DOMAIN @ \ {k} |-> @[other]],
                                       ![d].observer = pc]
        BY <3>2 DEF Observe
      <4> QED
        BY <1>0, <3>2, <4>1 DEF Observe, Observing, Daemon
    <3>3. Same
      BY <2>2, <3>1, <3>2 DEF ObserveStep
    <3>4. Rests(e) /\ Holds(e)
      BY <1>0, <1>2, <3>3 DEF Rests, Holds, Up
    <3> QED
      BY <1>0, <1>2, <3>3, <3>4, StillAnnounced
  <2> QED
    BY <2>1, <2>2
<1> QED
  BY <1>1, <1>2

LEMMA RestStep ==
  TypeOK /\ TypeOK' /\ ReplyInv /\ LaterInv /\ RestInv /\ [Next]_vars => RestInv'
<1> SUFFICES ASSUME TypeOK, TypeOK', ReplyInv, LaterInv, RestInv, [Next]_vars,
                    NEW e \in Daemons, Rests(e)'
             PROVE  Announced(e)'
  BY DEF RestInv, Rests
<1>1. CASE daemon' = daemon /\ conn' = conn
  BY <1>1, OthersAnnounced
<1> QED
  BY <1>1, RestProcess, RestConnection, RestUpload, RestEnroll, RestObserve
     DEF Next, GiveUp, Ripen, vars

------------------------------------------------------------------------------
(* Baselines. *)

\* The signal that asks for a baseline of k.
Asked(k) == [key |-> k, baseline |-> TRUE]
Remembered(e, k) == Asked(k) \in ToSet(daemon[e].channel) \/ IsBaseline(daemon[e].dirty, k)

LEMMA BaselineInit == Init => BaselineInv
BY DEF Init, BaselineInv

\* What stays owed by a daemon that goes on, and keeps its channel and map, is kept.
LEMMA StillRemembered ==
  ASSUME BaselineInv, NEW e \in Daemons, NEW k \in Keys, <<e, k>> \in owed,
         daemon'[e].main = daemon[e].main, daemon'[e].channel = daemon[e].channel,
         daemon'[e].dirty = daemon[e].dirty
  PROVE  Up(e)' /\ Remembered(e, k)'
BY DEF BaselineInv, Remembered, Asked, Up

LEMMA BaselineProcess ==
  ASSUME TypeOK, BaselineInv, NEW d \in Daemons, ProcessStep(d),
         NEW e \in Daemons, NEW k \in Keys, <<e, k>> \in owed'
  PROVE  Up(e)' /\ Remembered(e, k)'
<1>0. daemon \in [Daemons -> Daemon]
  BY DEF TypeOK
<1>1. <<e, k>> \in owed
  BY DEF ProcessStep, Start, Clear, Bind, Stop, CloseListener, AcceptFails, Exit, Kill
<1>2. CASE e # d
  <2>1. daemon'[e] = daemon[e]
    BY <1>2, <1>0 DEF ProcessStep, Start, Clear, Bind, Stop, CloseListener, AcceptFails, Exit, Kill
  <2> QED
    BY <1>1, <2>1, StillRemembered
<1>3. CASE e = d
  <2>1. Up(d)
    BY <1>1, <1>3 DEF BaselineInv
  <2>2. ~Start(d) /\ ~Clear(d) /\ ~Bind(d)
    BY <2>1 DEF Start, Clear, Bind, At, Up
  <2>3. CASE Exit(d) \/ Kill(d)
    <3>1. owed' = {o \in owed : o[1] # d}
      BY <2>3 DEF Exit, Kill
    <3> QED
      BY <1>3, <3>1
  <2>4. CASE Stop(d) \/ CloseListener(d) \/ AcceptFails(d)
    <3>1. /\ daemon'[d].channel = daemon[d].channel /\ daemon'[d].dirty = daemon[d].dirty
          /\ Up(d)'
      BY <1>0, <2>1, <2>4 DEF Stop, CloseListener, AcceptFails, Daemon, Up, At
    <3> QED
      BY <1>1, <1>3, <3>1 DEF BaselineInv, Remembered, Asked
  <2> QED
    BY <2>2, <2>3, <2>4 DEF ProcessStep
<1> QED
  BY <1>2, <1>3

LEMMA BaselineConnection ==
  ASSUME TypeOK, BaselineInv, NEW c \in Clients, ConnectionStep(c),
         NEW e \in Daemons, NEW k \in Keys, <<e, k>> \in owed'
  PROVE  Up(e)' /\ Remembered(e, k)'
<1>0. daemon \in [Daemons -> Daemon]
  BY DEF TypeOK
<1>1. CASE ~TakeDirty(c)
  <2>1. <<e, k>> \in owed /\ daemon'[e].channel = daemon[e].channel
    BY <1>0, <1>1 DEF ConnectionStep, Connect, Accept, Refuse, Commit, Reply, Wake, Daemon
  <2> QED
    BY <2>1, ConnectionKeeps, StillRemembered
<1>2. CASE TakeDirty(c)
  <2> DEFINE d == conn[c].daemon
             signal == [key |-> conn[c].message.key, baseline |-> conn[c].message.baseline]
  <2>1. d \in Daemons /\ Up(d) /\ daemon[d].channel \in Channel
    BY <1>2, Open DEF TakeDirty, Daemon
  <2>2. signal \in Signal
    BY <1>2 DEF TakeDirty, TypeOK, Connection, Message, Signal
  <2>3. CASE UNCHANGED <<daemon, owed>>
    BY <2>3, StillRemembered
  <2>4. CASE /\ Len(daemon[d].channel) < Buffer
             /\ daemon' = [daemon EXCEPT ![d].channel = Append(@, signal)]
             /\ owed' = IF signal.baseline THEN owed \cup {<<d, signal.key>>} ELSE owed
    <3> HIDE DEF d, signal
    <3>1. /\ daemon'[d].channel = Append(daemon[d].channel, signal)
          /\ daemon'[d].dirty = daemon[d].dirty /\ daemon'[d].main = daemon[d].main
      BY <1>0, <2>1, <2>4 DEF Daemon
    <3>2. ToSet(daemon'[d].channel) = ToSet(daemon[d].channel) \cup {signal}
      BY <2>1, <2>2, <2>4, <3>1, ChannelAppend
    <3>3. CASE e # d
      <4>1. <<e, k>> \in owed /\ daemon'[e] = daemon[e]
        BY <1>0, <2>4, <3>3
      <4> QED
        BY <4>1, StillRemembered
    <3>4. CASE e = d /\ <<e, k>> \in owed
      BY <3>1, <3>2, <3>4 DEF BaselineInv, Remembered, Asked, Up
    <3>5. CASE e = d /\ <<e, k>> \notin owed
      <4>1. signal.baseline /\ k = signal.key
        BY <2>4, <3>5
      <4>2. signal = Asked(k)
        BY <2>2, <4>1 DEF Signal, Asked
      <4> QED
        BY <2>1, <3>1, <3>2, <3>5, <4>2 DEF Remembered, Up
    <3> QED
      BY <3>3, <3>4, <3>5
  <2> QED
    BY <1>2, <2>3, <2>4 DEF TakeDirty
<1> QED
  BY <1>1, <1>2

LEMMA BaselineObserve ==
  ASSUME TypeOK, BaselineInv, NEW d \in Daemons, ObserveStep(d),
         NEW e \in Daemons, NEW k \in Keys, <<e, k>> \in owed'
  PROVE  Up(e)' /\ Remembered(e, k)'
<1>0. /\ daemon \in [Daemons -> Daemon]
      /\ daemon[d].channel \in Channel /\ daemon[d].dirty \in Dirty
  BY DEF TypeOK, Daemon
<1>1. <<e, k>> \in owed
  BY DEF ObserveStep, TakeSignal, Observe, Discover, ObserverWakes, ObserverEnds
<1>2. CASE e # d
  BY <1>1, <1>2, LoopKeeps, StillRemembered
<1>3. CASE e = d
  <2>0. Up(d)' /\ Remembered(d, k)
    BY <1>1, <1>3, LoopKeeps DEF BaselineInv, Remembered, Asked, Up
  <2>1. CASE TakeSignal(d)
    <3> DEFINE s == Head(daemon[d].channel)
               room == Cardinality(DOMAIN daemon[d].dirty) < Buffer
               dirty == IF room THEN Merge(daemon[d].dirty, s) ELSE daemon[d].dirty
    <3>1. /\ daemon'[d].channel = Tail(daemon[d].channel)
          /\ daemon'[d].dirty = dirty
      BY <1>0, <2>1 DEF TakeSignal, Daemon
    <3>2. /\ s \in Signal
          /\ ToSet(daemon[d].channel) \subseteq ToSet(Tail(daemon[d].channel)) \cup {s}
      BY <1>0, <2>1, ChannelTail DEF TakeSignal
    <3>3. CASE Asked(k) \in ToSet(Tail(daemon[d].channel))
      BY <1>3, <2>0, <3>1, <3>3 DEF Remembered
    <3>4. IsBaseline(daemon[d].dirty, k) => IsBaseline(dirty, k)
      BY <1>0, <3>2, MergeDirty
    <3>5. CASE IsBaseline(daemon[d].dirty, k)
      BY <1>3, <2>0, <3>1, <3>4, <3>5 DEF Remembered
    <3>6. CASE s = Asked(k) /\ ~IsBaseline(daemon[d].dirty, k)
      <4>1. s.key = k /\ s.baseline
        BY <3>6 DEF Asked
      <4>2. room
        BY <1>3, <2>1, <3>6, <4>1 DEF TakeSignal
      <4>3. IsBaseline(dirty, k)
        BY <1>0, <3>2, <4>1, <4>2, MergeDirty
      <4> QED
        BY <1>3, <2>0, <3>1, <4>3 DEF Remembered
    <3> QED
      BY <2>0, <3>2, <3>3, <3>5, <3>6 DEF Remembered
  <2>2. ASSUME NEW j \in Keys, Observe(d, j) PROVE Up(e)' /\ Remembered(e, k)'
    <3> DEFINE f == daemon[d].dirty  g == [other \in DOMAIN f \ {j} |-> f[other]]
    <3>1. PICK pc \in {"run", "wake"} :
            daemon' = [daemon EXCEPT ![d].dirty = [other \in DOMAIN @ \ {j} |-> @[other]],
                                     ![d].observer = pc]
      BY <2>2 DEF Observe
    <3>2. daemon'[d].channel = daemon[d].channel /\ daemon'[d].dirty = g
      BY <1>0, <3>1 DEF Daemon
    <3>3. CASE Asked(k) \in ToSet(daemon[d].channel)
      BY <1>3, <2>0, <3>2, <3>3 DEF Remembered
    <3>4. CASE IsBaseline(f, k)
      <4>1. k # j
        BY <1>3, <2>2, <3>4 DEF Observe, IsBaseline
      <4>2. IsBaseline(g, k)
        BY <1>0, <3>4, <4>1, DropDirty
      <4> QED
        BY <1>3, <2>0, <3>2, <4>2 DEF Remembered
    <3> QED
      BY <2>0, <3>3, <3>4 DEF Remembered
  <2>3. CASE Discover(d) \/ ObserverWakes(d) \/ ObserverEnds(d)
    <3>1. daemon'[d].channel = daemon[d].channel /\ daemon'[d].dirty = daemon[d].dirty
      BY <1>0, <2>3 DEF Discover, ObserverWakes, ObserverEnds, Daemon
    <3> QED
      BY <1>3, <2>0, <3>1 DEF Remembered
  <2> QED
    BY <2>1, <2>2, <2>3 DEF ObserveStep
<1> QED
  BY <1>2, <1>3

LEMMA BaselineStep == TypeOK /\ BaselineInv /\ [Next]_vars => BaselineInv'
<1> SUFFICES ASSUME TypeOK, BaselineInv, [Next]_vars,
                    NEW e \in Daemons, NEW k \in Keys, <<e, k>> \in owed'
             PROVE  Up(e)' /\ Remembered(e, k)'
  BY DEF BaselineInv, Remembered, Asked
<1>1. ASSUME NEW d \in Daemons, UploadStep(d) \/ EnrollStep(d)
      PROVE  Up(e)' /\ Remembered(e, k)'
  <2>0. daemon \in [Daemons -> Daemon]
    BY DEF TypeOK
  <2>1. CASE UploadStep(d)
    <3>1. /\ daemon'[d].channel = daemon[d].channel /\ daemon'[d].dirty = daemon[d].dirty
          /\ owed' = owed
      BY <2>0, <2>1 DEF UploadStep, Pass, Answered, Sleep, WakeUp, UploaderEnds, Return, Daemon
    <3> QED
      BY <2>1, <3>1, LoopKeeps, StillRemembered
  <2>2. CASE EnrollStep(d)
    <3>1. /\ daemon'[d].channel = daemon[d].channel /\ daemon'[d].dirty = daemon[d].dirty
          /\ owed' = owed
      BY <2>0, <2>2 DEF EnrollStep, Enrolled, EnrolledWakes, Unregistered, EnrollerEnds, Daemon
    <3> QED
      BY <2>2, <3>1, LoopKeeps, StillRemembered
  <2> QED
    BY <1>1, <2>1, <2>2
<1>2. ASSUME UNCHANGED <<daemon, owed>> PROVE Up(e)' /\ Remembered(e, k)'
  BY <1>2, StillRemembered
<1> QED
  BY <1>1, <1>2, BaselineProcess, BaselineConnection, BaselineObserve DEF Next, GiveUp, Ripen, vars

------------------------------------------------------------------------------
(* The theorems. *)

LEMMA IInit == Init => IInv
<1> SUFFICES ASSUME Init PROVE IInv
  OBVIOUS
<1>1. PathInv
  BY DaemonAssumption DEF Init, PathInv
<1>2. ReplyInv /\ AcceptedIsQueued
  BY DEF Init, ReplyInv, AcceptedIsQueued, NoConnection
<1>3. LaterInv /\ HintsAreFiledAsHerdr
  BY DEF Init, LaterInv, HintsAreFiledAsHerdr, NoRow
<1>4. RestInv /\ SendInv
  BY DEF Init, RestInv, SendInv, Off, Up
<1> QED
  BY <1>1, <1>2, <1>3, <1>4, TypedInit, BaselineInit DEF IInv

LEMMA IStep == IInv /\ [Next]_vars => IInv'
BY TypedStep, PathStep, ReplyStep, AcceptedStep, LaterStep, RestStep, BaselineStep,
   SendStep, FiledStep DEF IInv

LEMMA Inductive == Spec => []IInv
BY IInit, IStep, PTL DEF Spec

\* Every variable keeps its type; an open connection belongs to a daemon that runs.
THEOREM DaemonTyped == Spec => []TypeOK
<1>1. IInv => TypeOK
  BY DEF IInv
<1> QED
  BY <1>1, Inductive, PTL

\* What a hook was told to be accepted is in the queue, or has been there
\* (daemon.go:170-174).
THEOREM AcceptedStays == Spec => []AcceptedIsQueued
<1>1. IInv => AcceptedIsQueued
  BY DEF IInv
<1> QED
  BY <1>1, Inductive, PTL

\* Every hint is filed as Herdr's, whatever texts its agent shows, how long they are
\* and what characters are in them: the second normalisation returns what a third
\* would not change (herdr_metadata.go:25-78, 94-106, herdr_state.go:139-141).
THEOREM HintsFiled == Spec => []HintsAreFiledAsHerdr
<1>1. IInv => HintsAreFiledAsHerdr
  BY DEF IInv
<1> QED
  BY <1>1, Inductive, PTL

\* The uploader never sleeps through a wake-up (daemon.go:174-178, 203-208).
THEOREM WakeupsArrive == Spec => []NoLostWakeup
<1>1. IInv => NoLostWakeup
  BY DEF IInv, RestInv, NoLostWakeup, Uploading
<1> QED
  BY <1>1, Inductive, PTL

\* No accepted baseline is lost to a later signal (herdr_state.go:245-248).
THEOREM BaselinesStay == Spec => []BaselinesAreKept
<1>1. ASSUME IInv, NEW o \in owed
      PROVE  \/ [key |-> o[2], baseline |-> TRUE] \in ToSet(daemon[o[1]].channel)
             \/ IsBaseline(daemon[o[1]].dirty, o[2])
  <2>1. PICK e \in Daemons, k \in Keys : o = <<e, k>>
    BY <1>1 DEF IInv, TypeOK
  <2> QED
    BY <1>1, <2>1 DEF IInv, BaselineInv
<1>2. IInv => BaselinesAreKept
  BY <1>1 DEF BaselinesAreKept
<1> QED
  BY <1>2, Inductive, PTL

\* A listening daemon loses its address only to one that starts or listens too
\* (daemon.go:54, 69-72, ipc.go:84-97).
THEOREM AddressStays == Spec => AddressIsKept
<1> DEFINE Kept1(d) == path = d /\ daemon[d].listening /\ daemon'[d].listening =>
              \/ path' = d
              \/ \E e \in Daemons \ {d} : At(e, "clear") \/ daemon[e].listening
<1>1. ASSUME IInv, [Next]_vars, NEW d \in Daemons PROVE Kept1(d)
  <2> SUFFICES ASSUME path = d, daemon'[d].listening, path' # d
               PROVE  \E e \in Daemons \ {d} : At(e, "clear") \/ daemon[e].listening
    OBVIOUS
  <2>0. daemon \in [Daemons -> Daemon] /\ Up(d) /\ d # "none"
    BY <1>1, DaemonAssumption DEF IInv, TypeOK, PathInv
  <2>1. PICK e \in Daemons : ProcessStep(e)
    BY <1>1, LoopKeeps, ConnectionKeeps DEF IInv, Next, GiveUp, Ripen, vars
  <2>2. Clear(e) \/ CloseListener(e) \/ Exit(e) \/ Kill(e)
    BY <2>0, <2>1 DEF ProcessStep, Start, Bind, Stop, AcceptFails
  <2>3. CASE Clear(e)
    BY <2>0, <2>3 DEF Clear, At, Up
  <2>4. CASE CloseListener(e)
    <3>1. daemon'[e].listening = FALSE
      BY <2>0, <2>4 DEF CloseListener, Daemon
    <3> QED
      BY <2>4, <3>1 DEF CloseListener
  <2>5. CASE Exit(e)
    BY <2>0, <2>5 DEF Exit, Off
  <2>6. CASE Kill(e)
    BY <2>0, <2>6 DEF Kill, Off
  <2> QED
    BY <2>2, <2>3, <2>4, <2>5, <2>6
<1>2. IInv /\ [Next]_vars => [\A d \in Daemons : Kept1(d)]_vars
  BY <1>1
<1> QED
  BY <1>2, Inductive, PTL DEF Spec, AddressIsKept
==============================================================================
