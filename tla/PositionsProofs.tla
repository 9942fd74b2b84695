---------------------------- MODULE PositionsProofs ----------------------------
(***************************************************************************)
(* What is chosen from a sequence, and how to argue by the least member of *)
(* a set of numbers.                                                       *)
(***************************************************************************)
EXTENDS Positions, FiniteSetTheorems, TLAPS

\* The rank of each position among those that are chosen.
UpTo(kept, i) == {j \in kept : j <= i}
Ranks(s, kept, rank) ==
    /\ rank \in [kept -> DOMAIN Chosen(s, kept)]
    /\ \A i, j \in kept : i < j => rank[i] < rank[j]
    /\ \A k \in DOMAIN Chosen(s, kept) : \E i \in kept : rank[i] = k
    /\ \A i \in kept : Chosen(s, kept)[rank[i]] = s[i]
    /\ \A i \in kept : rank[i] = Cardinality(UpTo(kept, i))

\* What is chosen from a sequence is a sequence of what was at those positions,
\* each at its rank.
LEMMA ChosenRanked ==
  ASSUME NEW T, NEW s \in Seq(T), NEW kept \in SUBSET DOMAIN s
  PROVE  Chosen(s, kept) \in Seq(T) /\ \E rank : Ranks(s, kept, rank)
<1> DEFINE n == Cardinality(kept)
           rank == [i \in kept |-> Cardinality(UpTo(kept, i))]
           r == Chosen(s, kept)
<1>1. kept \subseteq 1..Len(s) /\ Len(s) \in Nat /\ \A i \in kept : i \in Nat /\ s[i] \in T
  OBVIOUS
<1>2. IsFiniteSet(kept)
  BY <1>1, FS_Interval, FS_Subset
<1>3. n \in Nat /\ n = Cardinality(kept)
  BY <1>2, FS_CardinalityType
<1>4. \A i \in kept : UpTo(kept, i) \subseteq kept /\ i \in UpTo(kept, i)
  BY <1>1 DEF UpTo
<1>5. \A i, j \in kept : i < j => UpTo(kept, i) \subseteq UpTo(kept, j) /\ j \notin UpTo(kept, i)
  BY <1>1 DEF UpTo
<1> HIDE DEF n
<1>6. \A i \in kept : /\ IsFiniteSet(UpTo(kept, i)) /\ Cardinality(UpTo(kept, i)) \in 1..n
  <2> TAKE i \in kept
  <2>1. /\ IsFiniteSet(UpTo(kept, i)) /\ Cardinality(UpTo(kept, i)) <= n
    BY <1>2, <1>4, FS_Subset DEF n
  <2>2. Cardinality(UpTo(kept, i)) \in Nat /\ Cardinality(UpTo(kept, i)) # 0
    BY <1>4, <2>1, FS_CardinalityType, FS_EmptySet
  <2> QED BY <1>3, <2>1, <2>2
<1>7. \A i, j \in kept : i < j => rank[i] < rank[j]
  <2> SUFFICES ASSUME NEW i \in kept, NEW j \in kept, i < j
               PROVE  Cardinality(UpTo(kept, i)) < Cardinality(UpTo(kept, j))
    OBVIOUS
  <2>1. /\ Cardinality(UpTo(kept, i)) <= Cardinality(UpTo(kept, j))
        /\ Cardinality(UpTo(kept, i)) # Cardinality(UpTo(kept, j))
    BY <1>4, <1>5, <1>6, FS_Subset
  <2> QED BY <1>3, <1>6, <2>1
<1>8. \A i, j \in kept : i # j => rank[i] # rank[j]
  <2>1. \A i, j \in kept : i # j => i < j \/ j < i
    BY <1>1
  <2>2. \A i \in kept : rank[i] \in Nat
    BY <1>3, <1>6
  <2> HIDE DEF rank
  <2> QED BY <1>7, <2>1, <2>2
<1>9. rank \in [kept -> 1..n]
  BY <1>6
<1>10. ASSUME NEW k \in 1..n
       PROVE  \E i \in kept : rank[i] = k
  <2>1. SUFFICES ASSUME \A i \in kept : rank[i] # k PROVE FALSE
    OBVIOUS
  <2> DEFINE all == 1..n
             left == all \ {k}
  <2>2. IsFiniteSet(all) /\ Cardinality(all) = n /\ k \in all
    BY <1>3, FS_Interval
  <2>3. rank \in [kept -> left]
    BY <1>9, <2>1
  <2> HIDE DEF rank, all
  <2>4. IsFiniteSet(left) /\ Cardinality(left) = n - 1
    BY <2>2, FS_RemoveElement
  <2>5. Cardinality(left) < Cardinality(kept)
    BY <1>3, <2>4
  <2> HIDE DEF left
  <2>6. \E i, j \in kept : i # j /\ rank[i] = rank[j]
    BY <1>2, <2>3, <2>4, <2>5, FS_PigeonHole
  <2> QED BY <1>8, <2>6
<1>11. r = [k \in 1..n |-> s[CHOOSE i \in kept : Cardinality(UpTo(kept, i)) = k]]
  BY DEF Chosen, UpTo, n
<1>12. DOMAIN r = 1..n
  BY <1>11
<1>13. \A i \in kept : r[rank[i]] = s[i]
  <2> TAKE i \in kept
  <2>1. /\ rank[i] \in 1..n
        /\ r[rank[i]] = s[CHOOSE j \in kept : Cardinality(UpTo(kept, j)) = rank[i]]
    BY <1>9, <1>11
  <2>2. \A j \in kept : Cardinality(UpTo(kept, j)) = rank[i] => j = i
    BY <1>8
  <2>3. (CHOOSE j \in kept : Cardinality(UpTo(kept, j)) = rank[i]) \in {i}
    <3>1. \E j \in kept : Cardinality(UpTo(kept, j)) = rank[i]
      OBVIOUS
    <3> HIDE DEF rank
    <3> QED BY <2>2, <3>1
  <2> QED BY <2>1, <2>3
<1>14. \A i \in kept : rank[i] = Cardinality(UpTo(kept, i))
  OBVIOUS
<1> HIDE DEF r, rank
<1>15. r \in Seq(T)
  <2>1. \A k \in 1..n : r[k] \in T
    BY <1>1, <1>10, <1>13
  <2>2. r = [k \in 1..n |-> r[k]]
    BY <1>11
  <2> QED BY <1>3, <2>1, <2>2
<1> QED
  BY <1>7, <1>9, <1>10, <1>12, <1>13, <1>14, <1>15 DEF r, Ranks

LEMMA ChosenIsOf ==
  ASSUME NEW T, NEW s \in Seq(T), NEW kept \in SUBSET DOMAIN s
  PROVE  /\ Chosen(s, kept) \in Seq(T)
         /\ \A k \in DOMAIN Chosen(s, kept) : \E i \in kept : Chosen(s, kept)[k] = s[i]
<1>1. PICK rank : Ranks(s, kept, rank)
  BY ChosenRanked
<1>2. /\ \A k \in DOMAIN Chosen(s, kept) : \E i \in kept : rank[i] = k
      /\ \A i \in kept : Chosen(s, kept)[rank[i]] = s[i]
  BY <1>1 DEF Ranks
<1>3. \A k \in DOMAIN Chosen(s, kept) : \E i \in kept : Chosen(s, kept)[k] = s[i]
  BY <1>2
<1> QED
  BY <1>3, ChosenRanked

\* All positions up to one of them: a prefix, of the sequence's own elements.
LEMMA ChosenPrefix ==
  ASSUME NEW T, NEW s \in Seq(T), NEW kept \in SUBSET DOMAIN s,
         \A i \in kept : \A j \in DOMAIN s : j <= i => j \in kept
  PROVE  /\ kept = 1..Len(Chosen(s, kept))
         /\ \A i \in kept : Chosen(s, kept)[i] = s[i]
<1> DEFINE r == Chosen(s, kept)
<1>1. \A i \in kept : UpTo(kept, i) = 1..i /\ i \in Nat
  BY DEF UpTo
<1>2. \A i \in Nat : Cardinality(1..i) = i
  <2> TAKE i \in Nat
  <2> QED BY FS_Interval
<1>3. PICK rank : Ranks(s, kept, rank)
  BY ChosenRanked
<1>4. r \in Seq(T)
  BY ChosenRanked
<1>5. \A i \in kept : rank[i] = i /\ i \in DOMAIN r /\ r[i] = s[i]
  BY <1>1, <1>2, <1>3 DEF Ranks
<1>6. \A k \in DOMAIN r : k \in kept
  BY <1>3, <1>5 DEF Ranks
<1> HIDE DEF r
<1>7. kept = DOMAIN r
  BY <1>5, <1>6
<1> QED
  BY <1>4, <1>5, <1>7 DEF r

\* All positions there are: the sequence itself.
LEMMA ChosenAll ==
  ASSUME NEW T, NEW s \in Seq(T)
  PROVE  Chosen(s, DOMAIN s) = s
<1> DEFINE r == Chosen(s, DOMAIN s)
<1>1. r \in Seq(T)
  BY ChosenIsOf
<1>2. DOMAIN s = 1..Len(r) /\ \A i \in DOMAIN s : r[i] = s[i]
  BY ChosenPrefix
<1> HIDE DEF r
<1>3. r = s
  BY <1>1, <1>2
<1> QED
  BY <1>3 DEF r

------------------------------------------------------------------------------
(* Numbers. *)

\* Some numbers up to a bound have a least one.
LEMMA LeastNumber ==
  ASSUME NEW N \in Nat, NEW S \in SUBSET (0..N), S # {}
  PROVE  \E x \in S : \A y \in S : x <= y
<1> DEFINE s == [i \in 1..N + 1 |-> i]
           kept == {i \in 1..N + 1 : i - 1 \in S}
           r == Chosen(s, kept)
<1>1. s \in Seq(Nat) /\ kept \subseteq DOMAIN s
  OBVIOUS
<1>2. \A x \in S : x + 1 \in kept
  OBVIOUS
<1>3. \A i \in kept : i \in Nat /\ i - 1 \in S
  OBVIOUS
<1> HIDE DEF s, kept
<1>4. r \in Seq(Nat)
  BY <1>1, ChosenIsOf
<1>5. PICK rank : Ranks(s, kept, rank)
  BY <1>1, ChosenRanked
<1> USE DEF Ranks
<1>6. Len(r) \in Nat /\ DOMAIN r = 1..Len(r)
  BY <1>4
<1>7. 1 \in DOMAIN r
  <2>1. PICK x \in S : TRUE
    OBVIOUS
  <2>2. rank[x + 1] \in DOMAIN r
    BY <1>2, <1>5
  <2> QED BY <1>6, <2>2
<1>8. PICK i \in kept : rank[i] = 1
  BY <1>5, <1>7
<1>9. \A j \in kept : i <= j
  <2> SUFFICES ASSUME NEW j \in kept, j < i PROVE FALSE
    BY <1>3
  <2>1. rank[j] < 1 /\ rank[j] \in DOMAIN r
    BY <1>5, <1>8
  <2> QED BY <1>6, <2>1
<1>10. \A y \in S : i - 1 <= y
  BY <1>2, <1>3, <1>9
<1> QED
  BY <1>3, <1>10

\* What holds of zero, and of the next number whenever of one, holds up to N.
LEMMA AllReached ==
  ASSUME NEW N \in Nat, NEW S, 0 \in S, \A n \in 0..N - 1 : n \in S => n + 1 \in S
  PROVE  \A n \in 0..N : n \in S
<1> DEFINE missing == {n \in 0..N : n \notin S}
<1>1. SUFFICES ASSUME missing # {} PROVE FALSE
  OBVIOUS
<1>2. PICK n \in missing : \A m \in missing : n <= m
  <2>1. missing \in SUBSET (0..N)
    OBVIOUS
  <2> HIDE DEF missing
  <2> QED BY <1>1, <2>1, LeastNumber
<1>3. n \in 0..N /\ n # 0 /\ n - 1 \in 0..N - 1 /\ n - 1 \notin missing
  BY <1>2
<1> QED
  BY <1>2, <1>3
==============================================================================
