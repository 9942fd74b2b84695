-------------------------- MODULE AgentRemovalProofs --------------------------
(***************************************************************************)
(* What holds of AgentRemoval for any commands of others, and any number   *)
(* of setups, failures and edits of the hooks file: its types, that no     *)
(* hook, plugin or service is left that would run an agent which is not    *)
(* there, that a removal which has ended leaves nothing behind, and that   *)
(* the hooks of others stay as they are.                                   *)
(***************************************************************************)
EXTENDS AgentRemoval, PositionsProofs

------------------------------------------------------------------------------
(* Hooks files. *)

\* No hook in the file runs the agent.
Free(file) == \A e \in Events : ~ContainsCommand(file.groups[e], Mine)
IsFree(groups) == ~ContainsCommand(groups, Mine)
Groups == Seq(Group(Handlers))

LEMMA NewGroupTyped == \A h \in Handlers : NewGroup(h) \in Group(Handlers)
BY DEF NewGroup, Group

LEMMA MalformedTyped == Malformed \in Group(Handlers)
BY DEF Malformed, Group

LEMMA NoFileTyped == Absent \in File(Handlers) /\ Broken \in File(Handlers)
                     /\ Free(Absent) /\ Free(Broken)
BY DEF Absent, Broken, NoGroups, File, Free, ContainsCommand, Events

LEMMA InstallTyped ==
  ASSUME NEW file \in File(Handlers)
  PROVE  Install(file, Mine) \in File(Handlers)
<1>1. \A e \in Events : file.groups[e] \in Groups
  BY DEF File, Groups
<1>2. NewGroup(Mine) \in Group(Handlers)
  BY NewGroupTyped DEF Handlers
<1>3. \A e \in Events : Append(file.groups[e], NewGroup(Mine)) \in Groups
  BY <1>1, <1>2 DEF Groups
<1> QED
  BY <1>1, <1>3 DEF Install, Document, File, Groups

LEMMA RemoveCommandFrees ==
  ASSUME NEW groups \in Groups
  PROVE  RemoveCommand(groups, Mine) \in Groups /\ IsFree(RemoveCommand(groups, Mine))
<1> DEFINE without(handlers) == Chosen(handlers, {j \in DOMAIN handlers : handlers[j] # Mine})
           cleaned == [i \in DOMAIN groups |->
                          [groups[i] EXCEPT !.handlers = without(groups[i].handlers)]]
           kept == {i \in DOMAIN groups : cleaned[i].handlers # <<>>}
           r == Chosen(cleaned, kept)
<1>1. r = RemoveCommand(groups, Mine)
  BY DEF RemoveCommand
<1>2. \A i \in DOMAIN groups : groups[i] \in Group(Handlers)
  BY DEF Groups
<1>3. ASSUME NEW handlers \in Seq(Handlers)
      PROVE  without(handlers) \in Seq(Handlers)
             /\ \A j \in DOMAIN without(handlers) : without(handlers)[j] # Mine
  <2> DEFINE others == {j \in DOMAIN handlers : handlers[j] # Mine}
             c == Chosen(handlers, others)
  <2>1. others \in SUBSET DOMAIN handlers /\ \A j \in others : handlers[j] # Mine
    OBVIOUS
  <2> HIDE DEF others
  <2>2. c \in Seq(Handlers) /\ \A k \in DOMAIN c : \E i \in others : c[k] = handlers[i]
    BY <2>1, ChosenIsOf
  <2>3. c = without(handlers)
    BY DEF others
  <2> HIDE DEF c
  <2> QED BY <2>1, <2>2, <2>3
<1> HIDE DEF without
<1>4. \A i \in DOMAIN groups : /\ cleaned[i] \in Group(Handlers)
                               /\ \A j \in DOMAIN cleaned[i].handlers : cleaned[i].handlers[j] # Mine
  BY <1>2, <1>3 DEF Group
<1>5. cleaned \in Groups /\ DOMAIN cleaned = DOMAIN groups
  <2>1. DOMAIN groups = 1..Len(groups) /\ Len(groups) \in Nat
    BY DEF Groups
  <2>2. cleaned = [i \in DOMAIN groups |-> cleaned[i]]
    OBVIOUS
  <2> HIDE DEF cleaned
  <2> QED BY <1>4, <2>1, <2>2 DEF Groups
<1>6. kept \in SUBSET DOMAIN cleaned
  BY <1>5
<1> HIDE DEF cleaned, kept
<1>7. r \in Groups /\ \A k \in DOMAIN r : \E i \in kept : r[k] = cleaned[i]
  BY <1>5, <1>6, ChosenIsOf DEF Groups
<1> HIDE DEF r
<1>8. IsFree(r)
  BY <1>4, <1>5, <1>6, <1>7 DEF IsFree, ContainsCommand
<1> QED
  BY <1>1, <1>7, <1>8

LEMMA UninstallFrees ==
  ASSUME NEW file \in File(Handlers)
  PROVE  Uninstall(file, Mine) \in File(Handlers) /\ Free(Uninstall(file, Mine))
<1>1. \A e \in Events : file.groups[e] \in Groups
  BY DEF File, Groups
<1>2. \A e \in Events : /\ RemoveCommand(file.groups[e], Mine) \in Groups
                        /\ ~ContainsCommand(RemoveCommand(file.groups[e], Mine), Mine)
  BY <1>1, RemoveCommandFrees DEF IsFree
<1> QED
  BY <1>1, <1>2 DEF Uninstall, Document, File, Groups, Free

\* Where others' commands are.
LEMMA OthersAtAre ==
  ASSUME NEW groups, NEW p
  PROVE  p \in OthersAt(groups, Mine) <=>
            \E i \in DOMAIN groups : \E j \in DOMAIN groups[i].handlers :
               p = <<i, j>> /\ groups[i].handlers[j] # Mine
BY DEF OthersAt

LEMMA SameAsBefore ==
  ASSUME NEW groups, NEW new, OthersAt(new, Mine) = OthersAt(groups, Mine),
         \A p \in OthersAt(groups, Mine) : RunsAt(new, p) = RunsAt(groups, p)
  PROVE  SameOthers(groups, new, Mine)
<1> DEFINE places == OthersAt(groups, Mine)
           f == [p \in places |-> p]
<1>1. f \in [places -> places] /\ \A p \in places : f[p] = p
  OBVIOUS
<1> HIDE DEF f
<1> QED
  BY <1>1 DEF SameOthers

\* An installation adds a group of its own, after those of others.
LEMMA InstallSpares ==
  ASSUME NEW file \in File(Handlers), NEW e \in Events
  PROVE  SameOthers(file.groups[e], Install(file, Mine).groups[e], Mine)
<1> DEFINE groups == file.groups[e]
           new == Install(file, Mine).groups[e]
           last == Len(groups) + 1
<1>1. groups \in Groups
  BY DEF File, Groups
<1>2. new = IF ContainsCommand(groups, Mine) THEN groups ELSE Append(groups, NewGroup(Mine))
  BY DEF Install, Document
<1> HIDE DEF groups, new
<1>3. SameOthers(groups, groups, Mine)
  BY SameAsBefore, Zenon
<1>4. ASSUME new = Append(groups, NewGroup(Mine))
      PROVE  SameOthers(groups, new, Mine)
  <2>1. /\ NewGroup(Mine) \in Group(Handlers) /\ NewGroup(Mine).handlers = <<Mine>>
    BY NewGroupTyped DEF NewGroup, Handlers
  <2>2. /\ DOMAIN groups = 1..Len(groups) /\ Len(groups) \in Nat /\ DOMAIN new = 1..last
        /\ \A i \in 1..Len(groups) : new[i] = groups[i]
        /\ new[last] = NewGroup(Mine)
    BY <1>1, <1>4, <2>1 DEF Groups
  <2>3. \A i \in DOMAIN new : i \in DOMAIN groups \/ i = last
    BY <2>2
  <2>4. \A j \in DOMAIN new[last].handlers : new[last].handlers[j] = Mine
    BY <2>1, <2>2
  <2>5. \A i \in DOMAIN groups : i \in DOMAIN new /\ new[i] = groups[i]
    BY <2>2
  <2>6. \A p : p \in OthersAt(new, Mine) <=> p \in OthersAt(groups, Mine)
    BY <2>3, <2>4, <2>5, OthersAtAre
  <2>7. \A p \in OthersAt(groups, Mine) : RunsAt(new, p) = RunsAt(groups, p)
    BY <2>5, OthersAtAre DEF RunsAt
  <2>8. OthersAt(new, Mine) = OthersAt(groups, Mine)
    BY <2>6
  <2> QED
    BY <2>7, <2>8, SameAsBefore, Zenon
<1> QED
  BY <1>2, <1>3, <1>4 DEF groups, new

\* A removal takes each handler of others to its rank in its group, and that group
\* to its rank among those that are left.
LEMMA RemoveCommandSpares ==
  ASSUME NEW groups \in Groups
  PROVE  SameOthers(groups, RemoveCommand(groups, Mine), Mine)
<1> DEFINE others(handlers) == {j \in DOMAIN handlers : handlers[j] # Mine}
           without(handlers) == Chosen(handlers, others(handlers))
           cleaned == [i \in DOMAIN groups |->
                          [groups[i] EXCEPT !.handlers = without(groups[i].handlers)]]
           kept == {i \in DOMAIN groups : cleaned[i].handlers # <<>>}
           new == Chosen(cleaned, kept)
           IsRank(rank, s, some, chosen) ==
              /\ rank \in [some -> DOMAIN chosen]
              /\ \A i, j \in some : i < j => rank[i] < rank[j]
              /\ \A k \in DOMAIN chosen : \E i \in some : rank[i] = k
              /\ \A i \in some : chosen[rank[i]] = s[i]
<1>1. new = RemoveCommand(groups, Mine)
  BY DEF RemoveCommand
<1>2. \A i \in DOMAIN groups : groups[i] \in Group(Handlers) /\ groups[i].handlers \in Seq(Handlers)
  <2>1. \A i \in DOMAIN groups : groups[i] \in Group(Handlers)
    BY DEF Groups
  <2> QED BY <2>1 DEF Group
<1>3. ASSUME NEW handlers \in Seq(Handlers)
      PROVE  /\ without(handlers) \in Seq(Handlers)
             /\ \E rank : IsRank(rank, handlers, others(handlers), without(handlers))
  <2> DEFINE some == others(handlers)
  <2>1. some \in SUBSET DOMAIN handlers
    OBVIOUS
  <2> HIDE DEF some
  <2>2. /\ Chosen(handlers, some) \in Seq(Handlers)
        /\ \E rank : Ranks(handlers, some, rank)
    BY <2>1, ChosenRanked
  <2>3. \E rank : IsRank(rank, handlers, some, Chosen(handlers, some))
    BY <2>2 DEF Ranks
  <2> QED BY <2>2, <2>3 DEF some
<1> HIDE DEF without
<1>4. \A i \in DOMAIN groups :
         cleaned[i] \in Group(Handlers) /\ cleaned[i].handlers = without(groups[i].handlers)
  BY <1>2, <1>3 DEF Group
<1>5. cleaned \in Groups /\ DOMAIN cleaned = DOMAIN groups
  <2>1. DOMAIN groups = 1..Len(groups) /\ Len(groups) \in Nat
    BY DEF Groups
  <2>2. cleaned = [i \in DOMAIN groups |-> cleaned[i]]
    OBVIOUS
  <2> HIDE DEF cleaned
  <2> QED BY <1>4, <2>1, <2>2 DEF Groups
<1>6. kept \in SUBSET DOMAIN cleaned
  BY <1>5
<1> HIDE DEF cleaned
<1>7. PICK outer : IsRank(outer, cleaned, kept, new)
  <2>1. cleaned \in Seq(Group(Handlers))
    BY <1>5 DEF Groups
  <2> HIDE DEF kept
  <2>2. \E rank : Ranks(cleaned, kept, rank)
    BY <1>6, <2>1, ChosenRanked
  <2> QED BY <2>2 DEF Ranks
<1> DEFINE inner == [i \in DOMAIN groups |->
                        CHOOSE rank : IsRank(rank, groups[i].handlers, others(groups[i].handlers),
                                             cleaned[i].handlers)]
<1> HIDE DEF new, IsRank, others
<1>8. \A i \in DOMAIN groups :
         IsRank(inner[i], groups[i].handlers, others(groups[i].handlers), cleaned[i].handlers)
  <2> TAKE i \in DOMAIN groups
  <2>1. \E rank : IsRank(rank, groups[i].handlers, others(groups[i].handlers), cleaned[i].handlers)
    BY <1>2, <1>3, <1>4
  <2> QED BY <2>1
<1> HIDE DEF inner
<1>9. ASSUME NEW p
      PROVE  /\ p \in OthersAt(groups, Mine) <=>
                   \E i \in DOMAIN groups : \E j \in others(groups[i].handlers) : p = <<i, j>>
             /\ p \in OthersAt(new, Mine) <=>
                   \E i \in DOMAIN new : \E j \in others(new[i].handlers) : p = <<i, j>>
  BY OthersAtAre DEF others
<1>10. ASSUME NEW i \in DOMAIN groups, NEW j \in others(groups[i].handlers)
       PROVE  /\ i \in kept /\ outer[i] \in DOMAIN new /\ new[outer[i]] = cleaned[i]
              /\ inner[i][j] \in DOMAIN cleaned[i].handlers
              /\ cleaned[i].handlers[inner[i][j]] = groups[i].handlers[j]
              /\ inner[i][j] \in others(cleaned[i].handlers)
  <2>1. /\ inner[i][j] \in DOMAIN cleaned[i].handlers
        /\ cleaned[i].handlers[inner[i][j]] = groups[i].handlers[j]
    BY <1>8, <1>10 DEF IsRank
  <2>2. cleaned[i].handlers # <<>>
    BY <2>1
  <2>3. i \in kept
    BY <2>2
  <2>4. inner[i][j] \in others(cleaned[i].handlers)
    BY <2>1 DEF others
  <2> QED BY <1>7, <2>1, <2>3, <2>4 DEF IsRank
<1> DEFINE f == [p \in OthersAt(groups, Mine) |-> <<outer[p[1]], inner[p[1]][p[2]]>>]
<1>11. ASSUME NEW p \in OthersAt(groups, Mine)
       PROVE  f[p] \in OthersAt(new, Mine) /\ RunsAt(new, f[p]) = RunsAt(groups, p)
  <2>1. PICK i \in DOMAIN groups : \E j \in others(groups[i].handlers) : p = <<i, j>>
    BY <1>9
  <2>2. PICK j \in others(groups[i].handlers) : p = <<i, j>>
    BY <2>1
  <2>3. f[p] = <<outer[i], inner[i][j]>> /\ p[1] = i /\ p[2] = j
    BY <2>2
  <2>4. /\ outer[i] \in DOMAIN new /\ inner[i][j] \in others(new[outer[i]].handlers)
        /\ new[outer[i]].handlers[inner[i][j]] = groups[i].handlers[j]
    BY <1>10
  <2> HIDE DEF f
  <2>5. f[p][1] = outer[i] /\ f[p][2] = inner[i][j]
    BY <2>3
  <2> QED BY <1>9, <2>3, <2>4, <2>5 DEF RunsAt
<1>12. ASSUME NEW q \in OthersAt(new, Mine)
       PROVE  \E p \in OthersAt(groups, Mine) : f[p] = q
  <2>1. PICK k \in DOMAIN new : \E l \in others(new[k].handlers) : q = <<k, l>>
    BY <1>9
  <2>2. PICK l \in others(new[k].handlers) : q = <<k, l>>
    BY <2>1
  <2>3. PICK i \in kept : outer[i] = k
    BY <1>7 DEF IsRank
  <2>4. i \in DOMAIN groups /\ new[k] = cleaned[i]
    BY <1>7, <2>3 DEF IsRank
  <2>5. l \in DOMAIN cleaned[i].handlers
    BY <2>2, <2>4 DEF others
  <2>6. PICK j \in others(groups[i].handlers) : inner[i][j] = l
    BY <1>8, <2>4, <2>5 DEF IsRank
  <2>7. <<i, j>> \in OthersAt(groups, Mine)
    BY <1>9, <2>4, <2>6
  <2>8. f[<<i, j>>] = q
    BY <2>2, <2>3, <2>6, <2>7
  <2> QED BY <2>7, <2>8
<1>13. ASSUME NEW p \in OthersAt(groups, Mine), NEW q \in OthersAt(groups, Mine), Before(p, q)
       PROVE  Before(f[p], f[q])
  <2>1. PICK i \in DOMAIN groups : \E j \in others(groups[i].handlers) : p = <<i, j>>
    BY <1>9
  <2>2. PICK j \in others(groups[i].handlers) : p = <<i, j>>
    BY <2>1
  <2>3. PICK k \in DOMAIN groups : \E l \in others(groups[k].handlers) : q = <<k, l>>
    BY <1>9
  <2>4. PICK l \in others(groups[k].handlers) : q = <<k, l>>
    BY <2>3
  <2>5. /\ f[p] = <<outer[i], inner[i][j]>> /\ f[q] = <<outer[k], inner[k][l]>>
        /\ (i < k \/ (i = k /\ j < l))
    BY <1>13, <2>2, <2>4 DEF Before
  <2>6. i \in kept /\ k \in kept
    BY <1>10
  <2>7. i < k => outer[i] < outer[k]
    BY <1>7, <2>6 DEF IsRank
  <2>8. i = k /\ j < l => inner[i][j] < inner[k][l]
    BY <1>8 DEF IsRank
  <2> QED BY <2>5, <2>7, <2>8 DEF Before
<1>14. f \in [OthersAt(groups, Mine) -> OthersAt(new, Mine)]
  BY <1>11
<1> HIDE DEF f
<1>15. SameOthers(groups, new, Mine)
  BY <1>11, <1>12, <1>13, <1>14 DEF SameOthers
<1> QED
  BY <1>1, <1>15

LEMMA UninstallSpares ==
  ASSUME NEW file \in File(Handlers), NEW e \in Events
  PROVE  SameOthers(file.groups[e], Uninstall(file, Mine).groups[e], Mine)
<1> DEFINE groups == file.groups[e]
           new == Uninstall(file, Mine).groups[e]
<1>1. groups \in Groups
  BY DEF File, Groups
<1>2. new = groups \/ new = RemoveCommand(groups, Mine)
  BY DEF Uninstall, Document
<1> HIDE DEF groups, new
<1>3. SameOthers(groups, groups, Mine)
  BY SameAsBefore, Zenon
<1>4. SameOthers(groups, RemoveCommand(groups, Mine), Mine)
  BY <1>1, RemoveCommandSpares
<1> QED
  BY <1>2, <1>3, <1>4 DEF groups, new

\* An edit by others adds no hook that runs the agent.
LEMMA EditFrees ==
  ASSUME hooks \in File(Handlers), NEW e \in Events, NEW h \in Theirs, Edit(e, h)
  PROVE  hooks' \in File(Handlers) /\ (Free(hooks) => Free(hooks'))
<1> DEFINE groups == hooks.groups[e]
           wellFormed == Chosen(groups, {i \in DOMAIN groups : groups[i].ok})
<1>1. groups \in Groups /\ h \in Handlers /\ h # Mine
  BY MineAssumption DEF File, Groups, Handlers
<1>2. ASSUME NEW new \in Groups, hooks' = Document([hooks.groups EXCEPT ![e] = new]),
             IsFree(groups) => IsFree(new)
      PROVE  hooks' \in File(Handlers) /\ (Free(hooks) => Free(hooks'))
  <2>1. hooks'.groups = [hooks.groups EXCEPT ![e] = new] /\ hooks'.kind = "object"
        /\ hooks' = [kind |-> "object", groups |-> [hooks.groups EXCEPT ![e] = new]]
    BY <1>2 DEF Document
  <2>2. hooks.groups \in [Events -> Groups]
    BY DEF File, Groups
  <2>3. hooks' \in File(Handlers)
    BY <2>1, <2>2 DEF File, Groups
  <2>4. \A f \in Events : hooks'.groups[f] = IF f = e THEN new ELSE hooks.groups[f]
    BY <2>1, <2>2
  <2> QED
    BY <1>2, <2>3, <2>4 DEF Free, IsFree
<1>3. wellFormed \in Groups /\ (IsFree(groups) => IsFree(wellFormed))
  <2> DEFINE ok == {i \in DOMAIN groups : groups[i].ok}
  <2>1. ok \in SUBSET DOMAIN groups /\ wellFormed = Chosen(groups, ok)
    OBVIOUS
  <2> HIDE DEF ok, groups, wellFormed
  <2>2. /\ wellFormed \in Groups
        /\ \A k \in DOMAIN wellFormed : \E i \in ok : wellFormed[k] = groups[i]
    BY <1>1, <2>1, ChosenIsOf DEF Groups
  <2> QED
    BY <2>1, <2>2 DEF IsFree, ContainsCommand
<1>4. ASSUME NEW g \in Group(Handlers), g.ok => \A j \in DOMAIN g.handlers : g.handlers[j] # Mine
      PROVE  Append(groups, g) \in Groups /\ (IsFree(groups) => IsFree(Append(groups, g)))
  <2> HIDE DEF groups
  <2>1. /\ Append(groups, g) \in Groups /\ DOMAIN Append(groups, g) = 1..(Len(groups) + 1)
        /\ DOMAIN groups = 1..Len(groups)
        /\ \A i \in 1..Len(groups) : Append(groups, g)[i] = groups[i]
        /\ Append(groups, g)[Len(groups) + 1] = g /\ Len(groups) \in Nat
    BY <1>1, <1>4 DEF Groups
  <2>2. \A i \in 1..(Len(groups) + 1) : i \in 1..Len(groups) \/ i = Len(groups) + 1
    BY <2>1
  <2> QED
    BY <1>4, <2>1, <2>2 DEF IsFree, ContainsCommand
<1>5. ASSUME NEW i \in DOMAIN groups,
             NEW new, new = [groups EXCEPT ![i].handlers = <<h>> \o @]
      PROVE  new \in Groups /\ (IsFree(groups) => IsFree(new))
  <2> DEFINE own == groups[i].handlers
             added == <<h>> \o own
  <2>1. groups[i] \in Group(Handlers) /\ own \in Seq(Handlers)
    <3>1. groups[i] \in Group(Handlers)
      <4> HIDE DEF groups
      <4> QED BY <1>1, <1>5 DEF Groups
    <3> QED BY <3>1 DEF Group
  <2>2. /\ added \in Seq(Handlers)
        /\ \A j \in DOMAIN added : added[j] # Mine \/ \E k \in DOMAIN own : own[k] = Mine
    <3>1. /\ added \in Seq(Handlers) /\ DOMAIN added = 1..(1 + Len(own)) /\ Len(own) \in Nat
          /\ DOMAIN own = 1..Len(own) /\ added[1] = h
          /\ \A j \in 2..(1 + Len(own)) : added[j] = own[j - 1]
      BY <1>1, <2>1
    <3>2. ASSUME NEW j \in DOMAIN added, added[j] = Mine
          PROVE  \E k \in DOMAIN own : own[k] = Mine
      <4>1. j # 1 /\ j \in 2..(1 + Len(own)) /\ j - 1 \in 1..Len(own)
        BY <1>1, <3>1, <3>2
      <4> QED BY <3>1, <3>2, <4>1
    <3> QED BY <3>1, <3>2
  <2> HIDE DEF added, own
  <2>3. /\ new = [groups EXCEPT ![i] = [groups[i] EXCEPT !.handlers = added]]
        /\ DOMAIN new = DOMAIN groups
        /\ \A j \in DOMAIN groups : j # i => new[j] = groups[j]
        /\ new[i] = [groups[i] EXCEPT !.handlers = added]
    BY <1>5 DEF added, own
  <2>4. /\ new[i] \in Group(Handlers) /\ new[i].ok = groups[i].ok /\ new[i].handlers = added
    BY <2>1, <2>2, <2>3 DEF Group
  <2>5. new \in Groups
    BY <1>1, <2>3, <2>4 DEF Groups
  <2> QED
    BY <2>2, <2>3, <2>4, <2>5 DEF IsFree, ContainsCommand, own
<1>6. NewGroup(h) \in Group(Handlers) /\ Malformed \in Group(Handlers)
      /\ NewGroup(h).handlers = <<h>> /\ ~Malformed.ok
  BY <1>1, NewGroupTyped, MalformedTyped DEF NewGroup, Malformed
<1>7. \/ \E new \in {Append(groups, NewGroup(h)), Append(groups, Malformed)}
                    \cup {[groups EXCEPT ![i].handlers = <<h>> \o @] : i \in DOMAIN groups} :
            hooks' = Document([hooks.groups EXCEPT ![e] = new])
      \/ hooks' = Document([hooks.groups EXCEPT ![e] = wellFormed])
  BY DEF Edit
<1> HIDE DEF groups, wellFormed
<1>8. CASE hooks' = Document([hooks.groups EXCEPT ![e] = wellFormed])
  BY <1>2, <1>3, <1>8
<1>9. CASE hooks' = Document([hooks.groups EXCEPT ![e] = Append(groups, NewGroup(h))])
  <2>1. \A j \in DOMAIN NewGroup(h).handlers : NewGroup(h).handlers[j] # Mine
    BY <1>1, <1>6
  <2> QED
    BY <1>2, <1>4, <1>6, <1>9, <2>1
<1>10. CASE hooks' = Document([hooks.groups EXCEPT ![e] = Append(groups, Malformed)])
  BY <1>2, <1>4, <1>6, <1>10
<1>11. ASSUME NEW i \in DOMAIN groups, NEW new, new = [groups EXCEPT ![i].handlers = <<h>> \o @],
              hooks' = Document([hooks.groups EXCEPT ![e] = new])
       PROVE  hooks' \in File(Handlers) /\ (Free(hooks) => Free(hooks'))
  BY <1>2, <1>5, <1>11
<1> QED
  BY <1>7, <1>8, <1>9, <1>10, <1>11

------------------------------------------------------------------------------
(* The inductive invariant: what a setup has begun with, and what a removal   *)
(* that has come so far has taken away for good.                              *)

Cleaned == {"withdraw", "unlink", "clear", "delete", "plugin", "socket", "state", "config",
            "binary", "removed"}
Unlinked == Cleaned \ {"withdraw", "unlink"}
NoConsent == Unlinked \ {"clear"}
NoEvents == NoConsent \ {"delete"}
NoState == {"config", "binary", "removed"}

\* Setups have put the executable there, and it is there until removals end.
BinaryInv == /\ proc.pc \in RemovalSteps \cup (SetupSteps \ {"setup"}) => binary
             /\ proc.pc = "removed" => ~binary

\* No service is started behind a removal's back.
ServiceInv == /\ proc.pc \in {"check", "removed"} \cup AfterCheck => service # "enabled"
              /\ proc.pc \in {"hooks", "saveHooks"} \cup Cleaned => service = "none"

\* No hook comes back, and what is about to be saved has none.
HooksInv == /\ proc.pc \in Cleaned => Free(hooks)
            /\ proc.pc = "saveHooks" => Free(proc.next)

\* Herdr knows a plugin only as long as its manifest is there to tell a removal.
LinkInv == /\ plugin.linked => plugin.manifest
           /\ proc.pc = "link" => plugin.manifest
           /\ proc.pc \in Unlinked => ~plugin.linked

\* Nothing captures any more, unless a daemon was not seen.
QuietInv == /\ proc.pc = "consent" => queue.exists
            /\ proc.pc \in NoConsent => ~queue.consent
            /\ proc.pc \in AfterCheck \cup {"removed"} /\ ~proc.unseen =>
                  /\ daemon = "off"
                  /\ proc.pc \in NoEvents => ~queue.events
                  /\ proc.pc \in NoState /\ proc.purge => ~queue.exists
            /\ proc.pc \in {"binary", "removed"} /\ proc.purge =>
                  ~identity /\ ~plugin.manifest

RunInv == ~binary => Free(hooks) /\ ~plugin.linked /\ service = "none"

Staged == BinaryInv /\ ServiceInv /\ HooksInv /\ LinkInv /\ QuietInv /\ RunInv
IInv == TypeOK /\ Staged

PCs == {"idle", "failed", "installed", "removed"} \cup SetupSteps \cup RemovalSteps

LEMMA GotoTypes ==
  ASSUME proc \in Process, NEW pc \in PCs, Goto(pc)
  PROVE  /\ proc' \in Process /\ proc'.pc = pc /\ proc'.purge = proc.purge
         /\ proc'.herdr = proc.herdr /\ proc'.unseen = proc.unseen
         /\ proc'.next = proc.next
BY DEF Goto, Process, PCs

LEMMA IdleTypes == Idle \in Process
BY NoFileTyped DEF Idle, Process

LEMMA IInit == Init => IInv
<1> SUFFICES ASSUME Init PROVE IInv
  OBVIOUS
<1>1. hooks \in File(Handlers) /\ Free(hooks)
  <2>1. CASE hooks \in {Absent, Broken}
    BY <2>1, NoFileTyped
  <2>2. ASSUME NEW h \in Theirs, hooks = Document([NoGroups EXCEPT !["Stop"] = <<NewGroup(h)>>])
        PROVE  hooks \in File(Handlers) /\ Free(hooks)
    <3>1. h # Mine /\ NewGroup(h) \in Group(Handlers)
      BY MineAssumption, NewGroupTyped DEF Handlers
    <3>2. <<NewGroup(h)>> \in Seq(Group(Handlers)) /\ <<>> \in Seq(Group(Handlers))
      BY <3>1
    <3>3. hooks \in File(Handlers)
      BY <2>2, <3>2 DEF Document, NoGroups, File, Events
    <3>4. \A e \in Events : hooks.groups[e] \in {<<>>, <<NewGroup(h)>>}
      BY <2>2 DEF Document, NoGroups, Events
    <3>5. IsFree(<<>>) /\ IsFree(<<NewGroup(h)>>)
      BY <3>1 DEF IsFree, ContainsCommand, NewGroup
    <3> QED
      BY <3>3, <3>4, <3>5 DEF Free, IsFree
  <2> QED
    BY <2>1, <2>2 DEF Init
<1>2. proc \in Process /\ proc.pc = "idle"
  BY IdleTypes DEF Init, Idle
<1>3. TypeOK
  <2>1. plugin \in [manifest: BOOLEAN, linked: BOOLEAN] /\ ~plugin.linked
    BY DEF Init
  <2>2. queue \in [exists: BOOLEAN, events: BOOLEAN, consent: BOOLEAN]
        /\ ~queue.events /\ ~queue.consent
    BY DEF Init, NoQueue
  <2>3. setups \in 0..MaxSetups /\ failures \in 0..MaxFailures
    BY BoundsAssumption DEF Init
  <2> QED
    BY <1>1, <1>2, <2>1, <2>2, <2>3 DEF Init, TypeOK
<1> QED
  BY <1>1, <1>2, <1>3
  DEF Init, IInv, Staged, BinaryInv, ServiceInv, HooksInv, LinkInv, QuietInv, RunInv, NoQueue,
      SetupSteps, RemovalSteps, BeforeCheck, AfterCheck, Cleaned, Unlinked, NoConsent, NoEvents,
      NoState

------------------------------------------------------------------------------
(* Steps of the daemon and of others: no step of a setup or removal. *)

LEMMA Outside ==
  ASSUME IInv, UNCHANGED <<binary, identity, service, plugin, setups, failures>>,
         proc' = proc \/ proc' = [proc EXCEPT !.unseen = @ \/ proc.pc \in AfterCheck],
         \/ daemon' = "off"
         \/ daemon' = daemon
         \/ daemon' = "service" /\ service = "enabled" /\ binary
         \/ daemon' = "manual" /\ binary /\ (proc.pc \in AfterCheck => proc'.unseen),
         socket' \in BOOLEAN,
         queue' \in [exists: BOOLEAN, events: BOOLEAN, consent: BOOLEAN],
         queue'.consent = queue.consent, queue.exists => queue'.exists,
         queue'.exists # queue.exists => daemon' # "off",
         \/ ~queue'.events \/ queue'.events = queue.events
         \/ daemon # "off" /\ queue'.exists,
         hooks' \in File(Handlers), Free(hooks) => Free(hooks')
  PROVE  IInv'
<1>1. TypeOK
  BY DEF IInv
<1>2. /\ proc' \in Process /\ proc'.pc = proc.pc /\ proc'.purge = proc.purge
      /\ proc'.next = proc.next /\ proc.unseen \in BOOLEAN /\ (proc.unseen => proc'.unseen)
  BY <1>1 DEF TypeOK, Process
<1>3. TypeOK'
  BY <1>1, <1>2 DEF TypeOK
<1>4. BinaryInv' /\ ServiceInv' /\ HooksInv' /\ LinkInv' /\ RunInv'
  BY <1>2 DEF IInv, Staged, BinaryInv, ServiceInv, HooksInv, LinkInv, RunInv
<1>5. QuietInv'
  BY <1>1, <1>2 DEF IInv, Staged, QuietInv, ServiceInv, BinaryInv, TypeOK
<1> QED
  BY <1>3, <1>4, <1>5 DEF IInv, Staged

LEMMA OutsideKeeps ==
  ASSUME IInv,
         \/ Respawn \/ ServeByHand \/ DaemonEnd \/ Captured \/ Uploaded
         \/ \E e \in EditedEvents, h \in Theirs : Edit(e, h)
  PROVE  IInv'
<1>1. TypeOK /\ ServiceInv /\ hooks \in File(Handlers) /\ proc \in Process
  BY DEF IInv, Staged, TypeOK
<1>2. \A q : q \in [exists: BOOLEAN, events: BOOLEAN, consent: BOOLEAN] =>
         /\ [q EXCEPT !.exists = TRUE] \in [exists: BOOLEAN, events: BOOLEAN, consent: BOOLEAN]
         /\ [q EXCEPT !.events = TRUE] \in [exists: BOOLEAN, events: BOOLEAN, consent: BOOLEAN]
         /\ [q EXCEPT !.events = FALSE] \in [exists: BOOLEAN, events: BOOLEAN, consent: BOOLEAN]
  OBVIOUS
<1>3. queue \in [exists: BOOLEAN, events: BOOLEAN, consent: BOOLEAN] /\ socket \in BOOLEAN
  BY <1>1 DEF TypeOK
<1>4. CASE Respawn
  <2>1. /\ queue' = [queue EXCEPT !.exists = TRUE] /\ daemon' = "service" /\ socket' = TRUE
        /\ service = "enabled" /\ binary /\ hooks' = hooks /\ proc' = proc
        /\ UNCHANGED <<binary, identity, service, plugin, setups, failures>>
    BY <1>4 DEF Respawn, Serve, CanServe
  <2>2. queue'.consent = queue.consent /\ queue'.events = queue.events /\ queue'.exists
    BY <1>3, <2>1
  <2> QED
    BY <1>1, <1>2, <1>3, <2>1, <2>2, Outside
<1>5. CASE ServeByHand
  <2>1. /\ queue' = [queue EXCEPT !.exists = TRUE] /\ daemon' = "manual" /\ socket' = TRUE
        /\ binary /\ hooks' = hooks
        /\ proc' = [proc EXCEPT !.unseen = @ \/ proc.pc \in AfterCheck]
        /\ UNCHANGED <<binary, identity, service, plugin, setups, failures>>
    BY <1>5 DEF ServeByHand, Serve, CanServe
  <2>2. queue'.consent = queue.consent /\ queue'.events = queue.events /\ queue'.exists
    BY <1>3, <2>1
  <2>3. proc.pc \in AfterCheck => proc'.unseen
    BY <1>1, <2>1 DEF Process
  <2> QED
    BY <1>1, <1>2, <1>3, <2>1, <2>2, <2>3, Outside
<1>6. CASE DaemonEnd
  <2>1. /\ daemon' = "off" /\ socket' \in BOOLEAN /\ queue' = queue /\ hooks' = hooks
        /\ proc' = proc /\ UNCHANGED <<binary, identity, service, plugin, setups, failures>>
    BY <1>3, <1>6 DEF DaemonEnd
  <2> QED
    BY <1>1, <1>3, <2>1, Outside
<1>7. CASE Captured
  <2>1. /\ daemon # "off" /\ queue.exists /\ queue' = [queue EXCEPT !.events = TRUE]
        /\ daemon' = daemon /\ socket' = socket /\ hooks' = hooks
        /\ proc' = proc /\ UNCHANGED <<binary, identity, service, plugin, setups, failures>>
    BY <1>7 DEF Captured
  <2>2. queue'.consent = queue.consent /\ queue'.exists = queue.exists
    BY <1>3, <2>1
  <2> QED
    BY <1>1, <1>2, <1>3, <2>1, <2>2, Outside
<1>8. CASE Uploaded
  <2>1. /\ daemon # "off" /\ queue' = [queue EXCEPT !.events = FALSE]
        /\ daemon' = daemon /\ socket' = socket /\ hooks' = hooks
        /\ proc' = proc /\ UNCHANGED <<binary, identity, service, plugin, setups, failures>>
    BY <1>8 DEF Uploaded
  <2>2. queue'.consent = queue.consent /\ queue'.exists = queue.exists /\ ~queue'.events
    BY <1>3, <2>1
  <2> QED
    BY <1>1, <1>2, <1>3, <2>1, <2>2, Outside
<1>9. ASSUME NEW e \in EditedEvents, NEW h \in Theirs, Edit(e, h)
      PROVE  IInv'
  <2>1. e \in Events
    BY EventsAssumption
  <2>2. hooks' \in File(Handlers) /\ (Free(hooks) => Free(hooks'))
    BY <1>1, <1>9, <2>1, EditFrees
  <2>3. /\ daemon' = daemon /\ socket' = socket /\ queue' = queue
        /\ proc' = proc /\ UNCHANGED <<binary, identity, service, plugin, setups, failures>>
    BY <1>9 DEF Edit
  <2> QED
    BY <1>1, <1>3, <2>2, <2>3, Outside
<1> QED
  BY <1>4, <1>5, <1>6, <1>7, <1>8, <1>9

------------------------------------------------------------------------------
(* Steps of a setup: whatever they bring, the executable is there first. *)

LEMMA PCsAre ==
  /\ SetupSteps \subseteq PCs /\ RemovalSteps \subseteq PCs
  /\ {"idle", "failed", "installed", "removed"} \subseteq PCs
  /\ Process = [pc: PCs, purge: BOOLEAN, herdr: BOOLEAN, unseen: BOOLEAN,
                loaded: File(Handlers), next: File(Handlers)]
BY DEF PCs, Process

\* After a step of a setup the invariant asks little of what it has not touched.
LEMMA IntoSetup ==
  ASSUME TypeOK', binary',
         proc'.pc \in SetupSteps \cup {"idle", "failed", "installed"},
         plugin'.linked => plugin'.manifest,
         proc'.pc = "link" => plugin'.manifest,
         proc'.pc = "consent" => queue'.exists
  PROVE  IInv'
BY DEF IInv, Staged, BinaryInv, ServiceInv, HooksInv, LinkInv, QuietInv, RunInv,
       SetupSteps, RemovalSteps, BeforeCheck, AfterCheck, Cleaned, Unlinked, NoConsent, NoEvents,
       NoState

LEMMA SetupKeeps ==
  ASSUME IInv, SetupStep
  PROVE  IInv'
<1>1. /\ TypeOK /\ proc \in Process /\ hooks \in File(Handlers)
      /\ plugin \in [manifest: BOOLEAN, linked: BOOLEAN]
      /\ queue \in [exists: BOOLEAN, events: BOOLEAN, consent: BOOLEAN]
      /\ (plugin.linked => plugin.manifest) /\ (proc.pc = "link" => plugin.manifest)
      /\ (proc.pc = "consent" => queue.exists)
      /\ (proc.pc \in SetupSteps \ {"setup"} => binary)
  BY DEF IInv, Staged, TypeOK, BinaryInv, LinkInv, QuietInv
<1>2. CASE SetupBinary
  <2>1. Goto("identity") /\ "identity" \in PCs
    BY <1>2, PCsAre DEF SetupBinary, SetupSteps
  <2>2. proc' \in Process /\ proc'.pc = "identity"
    BY <1>1, <2>1, GotoTypes
  <2>3. TypeOK'
    BY <1>1, <1>2, <2>2 DEF TypeOK, SetupBinary
  <2> QED
    BY <1>1, <1>2, <2>2, <2>3, IntoSetup DEF SetupBinary, SetupSteps
<1>3. CASE SetupIdentity
  <2>1. PICK pc \in {"define", "install"} : Goto(pc)
    BY <1>3 DEF SetupIdentity
  <2>2. pc \in PCs /\ pc \in SetupSteps /\ pc \notin {"link", "consent"}
    BY PCsAre DEF SetupSteps
  <2>3. proc' \in Process /\ proc'.pc = pc
    BY <1>1, <2>1, <2>2, GotoTypes
  <2>4. TypeOK'
    BY <1>1, <1>3, <2>3 DEF TypeOK, SetupIdentity
  <2>5. binary' /\ plugin' = plugin
    BY <1>1, <1>3 DEF SetupIdentity, At, SetupSteps
  <2> QED
    BY <1>1, <2>2, <2>3, <2>4, <2>5, IntoSetup
<1>4. CASE LoadInstall
  <2>1. /\ At("install") /\ UNCHANGED <<binary, identity, service, daemon, socket, hooks, plugin,
                                        queue, setups, failures>>
    BY <1>4 DEF LoadInstall
  <2>2. proc' \in Process /\ proc'.pc \in {"failed", "define", "saveInstall"}
    <3>1. \/ proc' = [proc EXCEPT !.pc = "failed"]
          \/ proc' = [proc EXCEPT !.pc = "define"]
          \/ proc' = [proc EXCEPT !.pc = "saveInstall", !.loaded = hooks,
                                  !.next = Install(hooks, Mine)]
      BY <1>4 DEF LoadInstall
    <3>2. Install(hooks, Mine) \in File(Handlers)
      BY <1>1, InstallTyped
    <3>3. {"failed", "define", "saveInstall"} \subseteq PCs
      BY DEF PCs, SetupSteps
    <3> HIDE DEF PCs
    <3> QED
      BY <1>1, <3>1, <3>2, <3>3, PCsAre
  <2>3. TypeOK'
    BY <1>1, <2>1, <2>2 DEF TypeOK
  <2>4. binary' /\ plugin' = plugin /\ proc'.pc \in SetupSteps \cup {"failed"}
        /\ proc'.pc \notin {"link", "consent"}
    BY <1>1, <2>1, <2>2 DEF At, SetupSteps
  <2> QED
    BY <1>1, <2>3, <2>4, IntoSetup
<1>5. CASE SaveInstall
  <2>1. /\ hooks' = proc.next /\ At("saveInstall")
        /\ proc' = [proc EXCEPT !.pc = "define", !.loaded = Absent, !.next = Absent]
        /\ UNCHANGED <<binary, identity, service, daemon, socket, plugin, queue, setups, failures>>
    BY <1>5 DEF SaveInstall, Save
  <2>2. proc' \in Process /\ proc'.pc = "define" /\ hooks' \in File(Handlers)
    <3>1. "define" \in PCs /\ Absent \in File(Handlers)
      BY NoFileTyped DEF PCs, SetupSteps
    <3> QED
      BY <1>1, <2>1, <3>1, PCsAre
  <2>3. TypeOK'
    BY <1>1, <2>1, <2>2 DEF TypeOK
  <2>4. binary' /\ plugin' = plugin
    BY <1>1, <2>1 DEF At, SetupSteps
  <2> QED
    BY <1>1, <2>2, <2>3, <2>4, IntoSetup DEF SetupSteps
<1>6. CASE Define
  <2>1. /\ At("define")
        /\ UNCHANGED <<binary, identity, daemon, socket, hooks, plugin, queue, setups, failures>>
    BY <1>6 DEF Define
  <2>2. \E pc \in {"manifest", "installed"} : Goto(pc)
    BY <1>6 DEF Define
  <2>3. PICK pc \in {"manifest", "installed"} : Goto(pc)
    BY <2>2
  <2>4. pc \in PCs
    BY DEF PCs, SetupSteps
  <2>5. proc' \in Process /\ proc'.pc = pc
    BY <1>1, <2>3, <2>4, GotoTypes
  <2>6. service' \in {"none", "file", "enabled"}
    BY <1>1, <1>6 DEF Define, TypeOK
  <2>7. TypeOK'
    BY <1>1, <2>1, <2>5, <2>6 DEF TypeOK
  <2>8. binary' /\ plugin' = plugin
    BY <1>1, <2>1 DEF At, SetupSteps
  <2> QED
    BY <1>1, <2>5, <2>7, <2>8, IntoSetup DEF SetupSteps
<1>7. CASE HerdrManifest
  <2>1. /\ At("manifest")
        /\ UNCHANGED <<binary, identity, service, daemon, socket, hooks, queue, setups, failures>>
        /\ \/ plugin' = [plugin EXCEPT !.manifest = TRUE] /\ Goto("link")
           \/ plugin' = plugin /\ Goto("failed")
    BY <1>7 DEF HerdrManifest
  <2>2. "link" \in PCs /\ "failed" \in PCs
    BY DEF PCs, SetupSteps
  <2>3. \/ /\ plugin' = [plugin EXCEPT !.manifest = TRUE]
           /\ proc' \in Process /\ proc'.pc = "link"
        \/ plugin' = plugin /\ proc' \in Process /\ proc'.pc = "failed"
    BY <1>1, <2>1, <2>2, GotoTypes
  <2>4. /\ plugin' \in [manifest: BOOLEAN, linked: BOOLEAN]
        /\ (plugin'.linked => plugin'.manifest)
        /\ (proc'.pc = "link" => plugin'.manifest)
    BY <1>1, <2>3
  <2>5. TypeOK'
    BY <1>1, <2>1, <2>3, <2>4 DEF TypeOK
  <2>6. binary'
    BY <1>1, <2>1 DEF At, SetupSteps
  <2> QED
    BY <2>3, <2>4, <2>5, <2>6, IntoSetup DEF SetupSteps
<1>8. CASE HerdrLink
  <2>1. /\ At("link") /\ Goto("consent") /\ plugin' = [plugin EXCEPT !.linked = TRUE]
        /\ queue' = [queue EXCEPT !.exists = TRUE]
        /\ UNCHANGED <<binary, identity, service, daemon, socket, hooks, setups, failures>>
    BY <1>8 DEF HerdrLink
  <2>2. "consent" \in PCs
    BY DEF PCs, SetupSteps
  <2>3. proc' \in Process /\ proc'.pc = "consent"
    BY <1>1, <2>1, <2>2, GotoTypes
  <2>4. /\ plugin' \in [manifest: BOOLEAN, linked: BOOLEAN] /\ plugin'.manifest
        /\ queue' \in [exists: BOOLEAN, events: BOOLEAN, consent: BOOLEAN] /\ queue'.exists
    BY <1>1, <2>1 DEF At
  <2>5. TypeOK'
    BY <1>1, <2>1, <2>3, <2>4 DEF TypeOK
  <2>6. binary'
    BY <1>1, <2>1 DEF At, SetupSteps
  <2> QED
    BY <2>3, <2>4, <2>5, <2>6, IntoSetup DEF SetupSteps
<1>9. CASE HerdrConsent
  <2>1. /\ At("consent") /\ Goto("installed") /\ queue' = [queue EXCEPT !.consent = TRUE]
        /\ UNCHANGED <<binary, identity, service, daemon, socket, hooks, plugin, setups, failures>>
    BY <1>9 DEF HerdrConsent
  <2>2. "installed" \in PCs
    BY DEF PCs
  <2>3. proc' \in Process /\ proc'.pc = "installed"
    BY <1>1, <2>1, <2>2, GotoTypes
  <2>4. queue' \in [exists: BOOLEAN, events: BOOLEAN, consent: BOOLEAN] /\ queue'.exists
    BY <1>1, <2>1 DEF At
  <2>5. TypeOK'
    BY <1>1, <2>1, <2>3, <2>4 DEF TypeOK
  <2>6. binary'
    BY <1>1, <2>1 DEF At, SetupSteps
  <2> QED
    BY <1>1, <2>1, <2>3, <2>4, <2>5, <2>6, IntoSetup
<1> QED
  BY <1>2, <1>3, <1>4, <1>5, <1>6, <1>7, <1>8, <1>9 DEF SetupStep

\* A setup that begins, and a setup or removal that fails, leave things as they are.
LEMMA Aside ==
  ASSUME IInv, TypeOK', proc'.pc \in {"setup", "failed"},
         UNCHANGED <<binary, service, hooks, plugin>>
  PROVE  IInv'
BY DEF IInv, Staged, BinaryInv, ServiceInv, HooksInv, LinkInv, QuietInv, RunInv, Free,
       SetupSteps, RemovalSteps, BeforeCheck, AfterCheck, Cleaned, Unlinked, NoConsent, NoEvents,
       NoState

LEMMA BeginsAndAborts ==
  ASSUME IInv,
         \/ \E herdr \in BOOLEAN : BeginSetup(herdr)
         \/ \E purge \in BOOLEAN : BeginRemoval(purge)
         \/ Abort
  PROVE  IInv'
<1>1. TypeOK /\ proc \in Process /\ RunInv /\ LinkInv
  BY DEF IInv, Staged, TypeOK
<1>2. Idle \in Process /\ {"setup", "stop", "failed"} \subseteq PCs
  BY IdleTypes DEF PCs, SetupSteps, RemovalSteps, BeforeCheck
<1>3. ASSUME NEW herdr \in BOOLEAN, BeginSetup(herdr)
      PROVE  IInv'
  <2>1. /\ setups < MaxSetups /\ setups' = setups + 1
        /\ proc' = [Idle EXCEPT !.pc = "setup", !.herdr = herdr]
        /\ UNCHANGED <<binary, identity, service, daemon, socket, hooks, plugin, queue, failures>>
    BY <1>3 DEF BeginSetup
  <2>2. proc' \in Process /\ proc'.pc = "setup"
    BY <1>2, <2>1, PCsAre
  <2>3. setups' \in 0..MaxSetups
    BY <1>1, <2>1, BoundsAssumption DEF TypeOK
  <2>4. TypeOK'
    BY <1>1, <2>1, <2>2, <2>3 DEF TypeOK
  <2> QED
    BY <2>1, <2>2, <2>4, Aside
<1>4. ASSUME NEW purge \in BOOLEAN, BeginRemoval(purge)
      PROVE  IInv'
  <2>1. /\ binary
        /\ proc' = [Idle EXCEPT !.pc = "stop", !.purge = purge]
        /\ UNCHANGED <<binary, identity, service, daemon, socket, hooks, plugin, queue, setups,
                       failures>>
    BY <1>4 DEF BeginRemoval
  <2>2. proc' \in Process /\ proc'.pc = "stop"
    BY <1>2, <2>1, PCsAre
  <2>3. TypeOK'
    BY <1>1, <2>1, <2>2 DEF TypeOK
  <2> QED
    BY <1>1, <2>1, <2>2, <2>3
    DEF IInv, Staged, BinaryInv, ServiceInv, HooksInv, LinkInv, QuietInv, RunInv, AfterCheck,
        Cleaned, Unlinked, NoConsent, NoEvents, NoState
<1>5. ASSUME Abort PROVE IInv'
  <2>1. /\ failures < MaxFailures /\ failures' = failures + 1 /\ Goto("failed")
        /\ UNCHANGED <<binary, identity, service, daemon, socket, hooks, plugin, queue, setups>>
    BY <1>5 DEF Abort
  <2>2. proc' \in Process /\ proc'.pc = "failed"
    BY <1>1, <1>2, <2>1, GotoTypes
  <2>3. failures' \in 0..MaxFailures
    BY <1>1, <2>1, BoundsAssumption DEF TypeOK
  <2>4. TypeOK'
    BY <1>1, <2>1, <2>2, <2>3 DEF TypeOK
  <2> QED
    BY <2>1, <2>2, <2>4, Aside
<1> QED
  BY <1>3, <1>4, <1>5

------------------------------------------------------------------------------
(* Steps of a removal. *)

LEMMA UndefineKeeps ==
  ASSUME IInv, Undefine
  PROVE  IInv'
<1>1. TypeOK /\ Staged /\ proc \in Process
  BY DEF IInv, TypeOK
<1>2. /\ At("undefine")
      /\ service' = "none"
      /\ UNCHANGED <<binary, identity, daemon, socket, hooks, plugin, queue, setups, failures>>
  BY DEF Undefine
<1>3. "hooks" \in PCs
  BY DEF PCs, RemovalSteps, BeforeCheck, AfterCheck
<1>4. /\ proc' \in Process /\ proc'.pc = "hooks" /\ proc'.purge = proc.purge
      /\ proc'.unseen = proc.unseen /\ proc'.next = proc.next
  BY <1>1, <1>2, <1>3, GotoTypes DEF Undefine
<1>5. TypeOK'
  BY <1>1, <1>2, <1>4 DEF TypeOK
<1> QED
  BY <1>1, <1>2, <1>4, <1>5
  DEF IInv, Staged, BinaryInv, ServiceInv, HooksInv, LinkInv, QuietInv, RunInv, At,
      SetupSteps, RemovalSteps, BeforeCheck, AfterCheck, Cleaned, Unlinked, NoConsent, NoEvents,
      NoState

LEMMA WithdrawKeeps ==
  ASSUME IInv, Withdraw
  PROVE  IInv'
<1>1. TypeOK /\ Staged /\ proc \in Process
  BY DEF IInv, TypeOK
<1>2. /\ At("withdraw")
      /\ UNCHANGED <<binary, identity, service, daemon, socket, hooks, plugin, setups, failures>>
  BY DEF Withdraw
<1>3. "unlink" \in PCs
  BY DEF PCs, RemovalSteps, BeforeCheck, AfterCheck
<1>4. /\ proc' \in Process /\ proc'.pc = "unlink" /\ proc'.purge = proc.purge
      /\ proc'.unseen = proc.unseen /\ proc'.next = proc.next
  BY <1>1, <1>2, <1>3, GotoTypes DEF Withdraw
<1>5. queue' \in [exists: BOOLEAN, events: BOOLEAN, consent: BOOLEAN]
      /\ queue'.exists /\ (queue'.events => queue.events)
  <2>1. PICK events \in {queue.events, FALSE} :
           queue' = [exists |-> TRUE, events |-> events, consent |-> FALSE]
    BY DEF Withdraw
  <2>2. events \in BOOLEAN /\ (events => queue.events)
    BY <1>1, <2>1 DEF TypeOK
  <2> QED
    BY <2>1, <2>2
<1>6. TypeOK'
  BY <1>1, <1>2, <1>4, <1>5 DEF TypeOK
<1> QED
  BY <1>1, <1>2, <1>4, <1>5, <1>6
  DEF IInv, Staged, BinaryInv, ServiceInv, HooksInv, LinkInv, QuietInv, RunInv, At,
      SetupSteps, RemovalSteps, BeforeCheck, AfterCheck, Cleaned, Unlinked, NoConsent, NoEvents,
      NoState

LEMMA UnlinkKeeps ==
  ASSUME IInv, Unlink
  PROVE  IInv'
<1>1. TypeOK /\ Staged /\ proc \in Process
  BY DEF IInv, TypeOK
<1>2. /\ At("unlink")
      /\ plugin' = [plugin EXCEPT !.linked = FALSE]
      /\ UNCHANGED <<binary, identity, service, daemon, socket, hooks, queue, setups, failures>>
  BY DEF Unlink
<1>3. "clear" \in PCs
  BY DEF PCs, RemovalSteps, BeforeCheck, AfterCheck
<1>4. /\ proc' \in Process /\ proc'.pc = "clear" /\ proc'.purge = proc.purge
      /\ proc'.unseen = proc.unseen /\ proc'.next = proc.next
  BY <1>1, <1>2, <1>3, GotoTypes DEF Unlink
<1>5. plugin' \in [manifest: BOOLEAN, linked: BOOLEAN] /\ ~plugin'.linked
  BY <1>1, <1>2 DEF TypeOK
<1>6. TypeOK'
  BY <1>1, <1>2, <1>4, <1>5 DEF TypeOK
<1> QED
  BY <1>1, <1>2, <1>4, <1>5, <1>6
  DEF IInv, Staged, BinaryInv, ServiceInv, HooksInv, LinkInv, QuietInv, RunInv, At,
      SetupSteps, RemovalSteps, BeforeCheck, AfterCheck, Cleaned, Unlinked, NoConsent, NoEvents,
      NoState

LEMMA ClearConsentKeeps ==
  ASSUME IInv, ClearConsent
  PROVE  IInv'
<1>1. TypeOK /\ Staged /\ proc \in Process
  BY DEF IInv, TypeOK
<1>2. /\ At("clear")
      /\ queue' = [queue EXCEPT !.consent = FALSE]
      /\ UNCHANGED <<binary, identity, service, daemon, socket, hooks, plugin, setups, failures>>
  BY DEF ClearConsent
<1>3. {"delete", "plugin"} \subseteq PCs
  BY DEF PCs, RemovalSteps, BeforeCheck, AfterCheck
<1>4. /\ proc' \in Process /\ proc'.pc = (IF queue.exists THEN "delete" ELSE "plugin")
      /\ proc'.purge = proc.purge /\ proc'.unseen = proc.unseen /\ proc'.next = proc.next
  BY <1>1, <1>2, <1>3, GotoTypes DEF ClearConsent
<1>5. /\ queue' \in [exists: BOOLEAN, events: BOOLEAN, consent: BOOLEAN] /\ ~queue'.consent
      /\ queue'.exists = queue.exists /\ queue'.events = queue.events
      /\ (queue.events => queue.exists)
  BY <1>1, <1>2 DEF TypeOK
<1>6. TypeOK'
  BY <1>1, <1>2, <1>4, <1>5 DEF TypeOK
<1> QED
  BY <1>1, <1>2, <1>4, <1>5, <1>6
  DEF IInv, Staged, BinaryInv, ServiceInv, HooksInv, LinkInv, QuietInv, RunInv, At,
      SetupSteps, RemovalSteps, BeforeCheck, AfterCheck, Cleaned, Unlinked, NoConsent, NoEvents,
      NoState

LEMMA DeleteEventsKeeps ==
  ASSUME IInv, DeleteEvents
  PROVE  IInv'
<1>1. TypeOK /\ Staged /\ proc \in Process
  BY DEF IInv, TypeOK
<1>2. /\ At("delete")
      /\ queue' = [queue EXCEPT !.events = FALSE]
      /\ UNCHANGED <<binary, identity, service, daemon, socket, hooks, plugin, setups, failures>>
  BY DEF DeleteEvents
<1>3. "plugin" \in PCs
  BY DEF PCs, RemovalSteps, BeforeCheck, AfterCheck
<1>4. /\ proc' \in Process /\ proc'.pc = "plugin" /\ proc'.purge = proc.purge
      /\ proc'.unseen = proc.unseen /\ proc'.next = proc.next
  BY <1>1, <1>2, <1>3, GotoTypes DEF DeleteEvents
<1>5. /\ queue' \in [exists: BOOLEAN, events: BOOLEAN, consent: BOOLEAN] /\ ~queue'.events
      /\ queue'.exists = queue.exists /\ queue'.consent = queue.consent
  BY <1>1, <1>2 DEF TypeOK
<1>6. TypeOK'
  BY <1>1, <1>2, <1>4, <1>5 DEF TypeOK
<1> QED
  BY <1>1, <1>2, <1>4, <1>5, <1>6
  DEF IInv, Staged, BinaryInv, ServiceInv, HooksInv, LinkInv, QuietInv, RunInv, At,
      SetupSteps, RemovalSteps, BeforeCheck, AfterCheck, Cleaned, Unlinked, NoConsent, NoEvents,
      NoState

LEMMA DeletePluginKeeps ==
  ASSUME IInv, DeletePlugin
  PROVE  IInv'
<1>1. TypeOK /\ Staged /\ proc \in Process
  BY DEF IInv, TypeOK
<1>2. /\ At("plugin")
      /\ plugin' = [plugin EXCEPT !.manifest = FALSE]
      /\ UNCHANGED <<binary, identity, service, daemon, socket, hooks, queue, setups, failures>>
  BY DEF DeletePlugin
<1>3. "socket" \in PCs
  BY DEF PCs, RemovalSteps, BeforeCheck, AfterCheck
<1>4. /\ proc' \in Process /\ proc'.pc = "socket" /\ proc'.purge = proc.purge
      /\ proc'.unseen = proc.unseen /\ proc'.next = proc.next
  BY <1>1, <1>2, <1>3, GotoTypes DEF DeletePlugin
<1>5. plugin' \in [manifest: BOOLEAN, linked: BOOLEAN] /\ ~plugin'.manifest /\ plugin'.linked = plugin.linked
  BY <1>1, <1>2 DEF TypeOK
<1>6. TypeOK'
  BY <1>1, <1>2, <1>4, <1>5 DEF TypeOK
<1> QED
  BY <1>1, <1>2, <1>4, <1>5, <1>6
  DEF IInv, Staged, BinaryInv, ServiceInv, HooksInv, LinkInv, QuietInv, RunInv, At,
      SetupSteps, RemovalSteps, BeforeCheck, AfterCheck, Cleaned, Unlinked, NoConsent, NoEvents,
      NoState

LEMMA DeleteSocketKeeps ==
  ASSUME IInv, DeleteSocket
  PROVE  IInv'
<1>1. TypeOK /\ Staged /\ proc \in Process
  BY DEF IInv, TypeOK
<1>2. /\ At("socket")
      /\ socket' = FALSE
      /\ UNCHANGED <<binary, identity, service, daemon, hooks, plugin, queue, setups, failures>>
  BY DEF DeleteSocket
<1>3. {"state", "binary"} \subseteq PCs
  BY DEF PCs, RemovalSteps, BeforeCheck, AfterCheck
<1>4. /\ proc' \in Process /\ proc'.pc = (IF proc.purge THEN "state" ELSE "binary")
      /\ proc'.purge = proc.purge /\ proc'.unseen = proc.unseen /\ proc'.next = proc.next
  BY <1>1, <1>2, <1>3, GotoTypes DEF DeleteSocket
<1>5. TypeOK'
  BY <1>1, <1>2, <1>4 DEF TypeOK
<1> QED
  BY <1>1, <1>2, <1>4, <1>5
  DEF IInv, Staged, BinaryInv, ServiceInv, HooksInv, LinkInv, QuietInv, RunInv, At,
      SetupSteps, RemovalSteps, BeforeCheck, AfterCheck, Cleaned, Unlinked, NoConsent, NoEvents,
      NoState

LEMMA PurgeStateKeeps ==
  ASSUME IInv, PurgeState
  PROVE  IInv'
<1>1. TypeOK /\ Staged /\ proc \in Process
  BY DEF IInv, TypeOK
<1>2. /\ At("state")
      /\ queue' = NoQueue
      /\ socket' = FALSE
      /\ UNCHANGED <<binary, identity, service, daemon, hooks, plugin, setups, failures>>
  BY DEF PurgeState
<1>3. "config" \in PCs
  BY DEF PCs, RemovalSteps, BeforeCheck, AfterCheck
<1>4. /\ proc' \in Process /\ proc'.pc = "config" /\ proc'.purge = proc.purge
      /\ proc'.unseen = proc.unseen /\ proc'.next = proc.next
  BY <1>1, <1>2, <1>3, GotoTypes DEF PurgeState
<1>5. queue' \in [exists: BOOLEAN, events: BOOLEAN, consent: BOOLEAN] /\ ~queue'.exists /\ ~queue'.events /\ ~queue'.consent
  BY <1>2 DEF NoQueue
<1>6. TypeOK'
  BY <1>1, <1>2, <1>4, <1>5 DEF TypeOK
<1> QED
  BY <1>1, <1>2, <1>4, <1>5, <1>6
  DEF IInv, Staged, BinaryInv, ServiceInv, HooksInv, LinkInv, QuietInv, RunInv, At,
      SetupSteps, RemovalSteps, BeforeCheck, AfterCheck, Cleaned, Unlinked, NoConsent, NoEvents,
      NoState

LEMMA PurgeConfigKeeps ==
  ASSUME IInv, PurgeConfig
  PROVE  IInv'
<1>1. TypeOK /\ Staged /\ proc \in Process
  BY DEF IInv, TypeOK
<1>2. /\ At("config")
      /\ identity' = FALSE
      /\ plugin' = [plugin EXCEPT !.manifest = FALSE]
      /\ UNCHANGED <<binary, service, daemon, socket, hooks, queue, setups, failures>>
  BY DEF PurgeConfig
<1>3. "binary" \in PCs
  BY DEF PCs, RemovalSteps, BeforeCheck, AfterCheck
<1>4. /\ proc' \in Process /\ proc'.pc = "binary" /\ proc'.purge = proc.purge
      /\ proc'.unseen = proc.unseen /\ proc'.next = proc.next
  BY <1>1, <1>2, <1>3, GotoTypes DEF PurgeConfig
<1>5. plugin' \in [manifest: BOOLEAN, linked: BOOLEAN] /\ ~plugin'.manifest /\ plugin'.linked = plugin.linked
  BY <1>1, <1>2 DEF TypeOK
<1>6. TypeOK'
  BY <1>1, <1>2, <1>4, <1>5 DEF TypeOK
<1> QED
  BY <1>1, <1>2, <1>4, <1>5, <1>6
  DEF IInv, Staged, BinaryInv, ServiceInv, HooksInv, LinkInv, QuietInv, RunInv, At,
      SetupSteps, RemovalSteps, BeforeCheck, AfterCheck, Cleaned, Unlinked, NoConsent, NoEvents,
      NoState

LEMMA DeleteBinaryKeeps ==
  ASSUME IInv, DeleteBinary
  PROVE  IInv'
<1>1. TypeOK /\ Staged /\ proc \in Process
  BY DEF IInv, TypeOK
<1>2. /\ At("binary")
      /\ binary' = FALSE
      /\ UNCHANGED <<identity, service, daemon, socket, hooks, plugin, queue, setups, failures>>
  BY DEF DeleteBinary
<1>3. "removed" \in PCs
  BY DEF PCs, RemovalSteps, BeforeCheck, AfterCheck
<1>4. /\ proc' \in Process /\ proc'.pc = "removed" /\ proc'.purge = proc.purge
      /\ proc'.unseen = proc.unseen /\ proc'.next = proc.next
  BY <1>1, <1>2, <1>3, GotoTypes DEF DeleteBinary
<1>5. TypeOK'
  BY <1>1, <1>2, <1>4 DEF TypeOK
<1> QED
  BY <1>1, <1>2, <1>4, <1>5
  DEF IInv, Staged, BinaryInv, ServiceInv, HooksInv, LinkInv, QuietInv, RunInv, At,
      SetupSteps, RemovalSteps, BeforeCheck, AfterCheck, Cleaned, Unlinked, NoConsent, NoEvents,
      NoState


LEMMA StopServiceKeeps ==
  ASSUME IInv, StopService
  PROVE  IInv'
<1>1. TypeOK /\ Staged /\ proc \in Process
  BY DEF IInv, TypeOK
<1>2. /\ At("stop")
      /\ service' = IF service = "enabled" THEN "file" ELSE service
      /\ \/ daemon' \in {"off", "service"} /\ socket' \in {socket, daemon' # "off"}
         \/ UNCHANGED <<daemon, socket>>
      /\ UNCHANGED <<binary, identity, hooks, plugin, queue, setups, failures>>
  BY DEF StopService
<1>3. "check" \in PCs
  BY DEF PCs, RemovalSteps, BeforeCheck
<1>4. proc' \in Process /\ proc'.pc = "check"
  BY <1>1, <1>3, GotoTypes DEF StopService
<1>5. /\ service' \in {"none", "file"} /\ (service = "none" => service' = "none")
      /\ daemon' \in {"off", "service", "manual"} /\ socket' \in BOOLEAN
  <2>1. daemon' \in {"off", "service", "manual"} /\ socket' \in BOOLEAN
    BY <1>1, <1>2 DEF TypeOK
  <2> QED
    BY <1>1, <1>2, <2>1 DEF TypeOK
<1>6. TypeOK'
  BY <1>1, <1>2, <1>4, <1>5 DEF TypeOK
<1> QED
  BY <1>1, <1>2, <1>4, <1>5, <1>6
  DEF IInv, Staged, BinaryInv, ServiceInv, HooksInv, LinkInv, QuietInv, RunInv, At,
      SetupSteps, RemovalSteps, BeforeCheck, AfterCheck, Cleaned, Unlinked, NoConsent, NoEvents,
      NoState

\* Past the check a daemon is off, unless it was not seen.
LEMMA CheckDaemonKeeps ==
  ASSUME IInv, CheckDaemon
  PROVE  IInv'
<1>1. TypeOK /\ Staged /\ proc \in Process
  BY DEF IInv, TypeOK
<1>2. /\ At("check")
      /\ UNCHANGED <<binary, identity, service, daemon, socket, hooks, plugin, queue, setups,
                     failures>>
      /\ \/ Goto("failed")
         \/ proc' = [proc EXCEPT !.pc = "undefine", !.unseen = daemon # "off"]
  BY DEF CheckDaemon
<1>3. "failed" \in PCs /\ "undefine" \in PCs
  BY DEF PCs, RemovalSteps, AfterCheck
<1>4. CASE Goto("failed")
  <2>1. proc' \in Process /\ proc'.pc = "failed"
    BY <1>1, <1>3, <1>4, GotoTypes
  <2>2. TypeOK'
    BY <1>1, <1>2, <2>1 DEF TypeOK
  <2> QED
    BY <1>2, <2>1, <2>2, Aside
<1>5. CASE proc' = [proc EXCEPT !.pc = "undefine", !.unseen = daemon # "off"]
  <2>1. /\ proc' \in Process /\ proc'.pc = "undefine"
        /\ (proc'.unseen <=> daemon # "off")
    BY <1>1, <1>3, <1>5, PCsAre
  <2>2. TypeOK'
    BY <1>1, <1>2, <2>1 DEF TypeOK
  <2> QED
    BY <1>1, <1>2, <2>1, <2>2
    DEF IInv, Staged, BinaryInv, ServiceInv, HooksInv, LinkInv, QuietInv, RunInv, At,
        SetupSteps, RemovalSteps, BeforeCheck, AfterCheck, Cleaned, Unlinked, NoConsent, NoEvents,
        NoState
<1> QED
  BY <1>2, <1>4, <1>5

\* A file that is left as it is, because removing the hook would change nothing,
\* has no hook of the agent.
LEMMA LoadHooksKeeps ==
  ASSUME IInv, LoadHooks
  PROVE  IInv'
<1>1. TypeOK /\ Staged /\ proc \in Process /\ hooks \in File(Handlers)
  BY DEF IInv, TypeOK
<1>2. /\ At("hooks")
      /\ UNCHANGED <<binary, identity, service, daemon, socket, hooks, plugin, queue, setups,
                     failures>>
      /\ \/ proc' = [proc EXCEPT !.pc = "failed"]
         \/ Uninstall(hooks, Mine) = hooks /\ proc' = [proc EXCEPT !.pc = AfterHooks]
         \/ proc' = [proc EXCEPT !.pc = "saveHooks", !.loaded = hooks,
                                 !.next = Uninstall(hooks, Mine)]
  BY DEF LoadHooks
<1>3. {"failed", "saveHooks", "withdraw", "clear"} \subseteq PCs
  BY DEF PCs, RemovalSteps, AfterCheck
<1>4. Uninstall(hooks, Mine) \in File(Handlers) /\ Free(Uninstall(hooks, Mine))
  BY <1>1, UninstallFrees
<1>5. CASE proc' = [proc EXCEPT !.pc = "failed"]
  <2>1. proc' \in Process /\ proc'.pc = "failed"
    BY <1>1, <1>3, <1>5, PCsAre
  <2>2. TypeOK'
    BY <1>1, <1>2, <2>1 DEF TypeOK
  <2> QED
    BY <1>2, <2>1, <2>2, Aside
<1>6. CASE Uninstall(hooks, Mine) = hooks /\ proc' = [proc EXCEPT !.pc = AfterHooks]
  <2>1. PICK pc \in {"withdraw", "clear"} : pc = AfterHooks /\ (pc = "clear" => ~plugin.manifest)
    BY DEF AfterHooks
  <2>2. /\ proc' \in Process /\ proc'.pc = pc /\ proc'.purge = proc.purge
        /\ proc'.unseen = proc.unseen
    BY <1>1, <1>3, <1>6, <2>1, PCsAre
  <2>3. Free(hooks) /\ Free(hooks)'
    BY <1>2, <1>4, <1>6 DEF Free
  <2>4. TypeOK'
    BY <1>1, <1>2, <2>2 DEF TypeOK
  <2> QED
    BY <1>1, <1>2, <2>1, <2>2, <2>3, <2>4
    DEF IInv, Staged, BinaryInv, ServiceInv, HooksInv, LinkInv, QuietInv, RunInv, At,
        SetupSteps, RemovalSteps, BeforeCheck, AfterCheck, Cleaned, Unlinked, NoConsent, NoEvents,
        NoState
<1>7. CASE proc' = [proc EXCEPT !.pc = "saveHooks", !.loaded = hooks,
                                !.next = Uninstall(hooks, Mine)]
  <2>1. /\ proc' \in Process /\ proc'.pc = "saveHooks" /\ proc'.purge = proc.purge
        /\ proc'.unseen = proc.unseen /\ proc'.next = Uninstall(hooks, Mine)
    BY <1>1, <1>3, <1>4, <1>7, PCsAre
  <2>2. Free(proc.next)'
    BY <1>4, <2>1 DEF Free
  <2>3. TypeOK'
    BY <1>1, <1>2, <2>1 DEF TypeOK
  <2> QED
    BY <1>1, <1>2, <2>1, <2>2, <2>3
    DEF IInv, Staged, BinaryInv, ServiceInv, HooksInv, LinkInv, QuietInv, RunInv, At,
        SetupSteps, RemovalSteps, BeforeCheck, AfterCheck, Cleaned, Unlinked, NoConsent, NoEvents,
        NoState
<1> QED
  BY <1>2, <1>5, <1>6, <1>7

LEMMA SaveHooksKeeps ==
  ASSUME IInv, SaveHooks
  PROVE  IInv'
<1>1. TypeOK /\ Staged /\ proc \in Process
  BY DEF IInv, TypeOK
<1>2. PICK pc \in {"withdraw", "clear"} : pc = AfterHooks /\ (pc = "clear" => ~plugin.manifest)
  BY DEF AfterHooks
<1>3. /\ At("saveHooks") /\ hooks' = proc.next
      /\ proc' = [proc EXCEPT !.pc = pc, !.loaded = Absent, !.next = Absent]
      /\ UNCHANGED <<binary, identity, service, daemon, socket, plugin, queue, setups, failures>>
  BY <1>2 DEF SaveHooks, Save
<1>4. pc \in PCs /\ Absent \in File(Handlers)
  BY NoFileTyped DEF PCs, RemovalSteps, AfterCheck
<1>5. /\ proc' \in Process /\ proc'.pc = pc /\ proc'.purge = proc.purge
      /\ proc'.unseen = proc.unseen /\ hooks' \in File(Handlers)
  BY <1>1, <1>3, <1>4, PCsAre
<1>6. Free(hooks)'
  BY <1>1, <1>3 DEF Staged, HooksInv, At, Free
<1>7. TypeOK'
  BY <1>1, <1>3, <1>5 DEF TypeOK
<1> QED
  BY <1>1, <1>2, <1>3, <1>5, <1>6, <1>7
  DEF IInv, Staged, BinaryInv, ServiceInv, HooksInv, LinkInv, QuietInv, RunInv, At,
      SetupSteps, RemovalSteps, BeforeCheck, AfterCheck, Cleaned, Unlinked, NoConsent, NoEvents,
      NoState

------------------------------------------------------------------------------
LEMMA IStep == IInv /\ [Next]_vars => IInv'
<1> SUFFICES ASSUME IInv, [Next]_vars PROVE IInv'
  OBVIOUS
<1>1. CASE UNCHANGED vars
  BY <1>1
  DEF vars, IInv, TypeOK, Staged, BinaryInv, ServiceInv, HooksInv, LinkInv, QuietInv, RunInv, Free
<1>2. CASE RemovalStep
  BY <1>2, StopServiceKeeps, CheckDaemonKeeps, UndefineKeeps, LoadHooksKeeps, SaveHooksKeeps,
     WithdrawKeeps, UnlinkKeeps, ClearConsentKeeps, DeleteEventsKeeps, DeletePluginKeeps,
     DeleteSocketKeeps, PurgeStateKeeps, PurgeConfigKeeps, DeleteBinaryKeeps
  DEF RemovalStep
<1> QED
  BY <1>1, <1>2, OutsideKeeps, SetupKeeps, BeginsAndAborts DEF Next

LEMMA Invariant == Spec => []IInv
BY IInit, IStep, PTL DEF Spec

------------------------------------------------------------------------------
\* Whatever is installed, removed and edited, the hooks file stays one of groups of
\* handlers, and so does what is about to be saved over it (hooks.go:20-102); the
\* database is there whenever it has events or the consent.
THEOREM RemovalTyped == Spec => []TypeOK
<1>1. IInv => TypeOK
  BY DEF IInv
<1> QED
  BY <1>1, Invariant, PTL

\* An agent that is not there is not run: the executable goes after the hooks, the
\* plugin and the service, and nothing brings one of them back before the
\* executable, however often removals fail (uninstall.go:91-136).
THEOREM NothingMissing == Spec => []NothingRunsAMissingAgent
<1>1. IInv => NothingRunsAMissingAgent
  BY DEF IInv, Staged, RunInv, Free, NothingRunsAMissingAgent
<1> QED
  BY <1>1, Invariant, PTL

\* A removal that has ended has left nothing captured and no consent, and, purged,
\* neither an identity nor a database, unless a daemon runs that it has not
\* noticed (uninstall.go:44-136).
THEOREM RemovalClean == Spec => []RemovalIsClean
<1>1. IInv => RemovalIsClean
  BY DEF IInv, Staged, QuietInv, RemovalIsClean, At, Cleaned, Unlinked, NoConsent, NoEvents,
         NoState
<1> QED
  BY <1>1, Invariant, PTL

------------------------------------------------------------------------------
(* What is about to be saved is what was made of the file that was read. *)

SavedInv == /\ proc.pc = "saveInstall" => proc.next = Install(proc.loaded, Mine)
            /\ proc.pc = "saveHooks" => proc.next = Uninstall(proc.loaded, Mine)

LEMMA SavedStep == TypeOK /\ SavedInv /\ [Next]_vars => SavedInv'
<1> SUFFICES ASSUME TypeOK, SavedInv, [Next]_vars PROVE SavedInv'
  OBVIOUS
<1>1. proc \in Process
  BY DEF TypeOK
<1>2. ASSUME proc' = proc \/ proc' = [proc EXCEPT !.unseen = @ \/ proc.pc \in AfterCheck]
      PROVE  SavedInv'
  BY <1>1, <1>2 DEF SavedInv, Process
<1>3. ASSUME NEW pc, Goto(pc), pc \notin {"saveInstall", "saveHooks"}
      PROVE  SavedInv'
  BY <1>1, <1>3 DEF SavedInv, Process, Goto
<1>4. CASE LoadInstall
  <2>1. CASE proc' = [proc EXCEPT !.pc = "saveInstall", !.loaded = hooks,
                                  !.next = Install(hooks, Mine)]
    <3>1. proc'.pc = "saveInstall" /\ proc'.loaded = hooks /\ proc'.next = Install(hooks, Mine)
      BY <1>1, <2>1 DEF Process
    <3> QED
      BY <3>1 DEF SavedInv
  <2> QED
    BY <1>3, <1>4, <2>1 DEF LoadInstall, Goto
<1>5. CASE LoadHooks
  <2>1. CASE proc' = [proc EXCEPT !.pc = "saveHooks", !.loaded = hooks,
                                  !.next = Uninstall(hooks, Mine)]
    <3>1. proc'.pc = "saveHooks" /\ proc'.loaded = hooks /\ proc'.next = Uninstall(hooks, Mine)
      BY <1>1, <2>1 DEF Process
    <3> QED
      BY <3>1 DEF SavedInv
  <2> QED
    BY <1>3, <1>5, <2>1 DEF LoadHooks, AfterHooks, Goto
<1>6. CASE SaveInstall \/ SaveHooks
  <2>1. proc'.pc \notin {"saveInstall", "saveHooks"}
    BY <1>1, <1>6 DEF SaveInstall, SaveHooks, Save, AfterHooks, Process
  <2> QED
    BY <2>1 DEF SavedInv
<1>7. CASE CheckDaemon
  <2>1. proc'.pc \notin {"saveInstall", "saveHooks"}
    BY <1>1, <1>7 DEF CheckDaemon, Goto, Process
  <2> QED
    BY <2>1 DEF SavedInv
<1>8. ASSUME \/ \E herdr \in BOOLEAN : BeginSetup(herdr)
             \/ \E purge \in BOOLEAN : BeginRemoval(purge)
      PROVE  SavedInv'
  <2>1. proc'.pc \in {"setup", "stop"}
    BY <1>8 DEF BeginSetup, BeginRemoval, Idle
  <2> QED
    BY <2>1 DEF SavedInv
<1>9. CASE SetupStep
  BY <1>3, <1>4, <1>6, <1>9
  DEF SetupStep, SetupBinary, SetupIdentity, Define, HerdrManifest, HerdrLink, HerdrConsent
<1>10. CASE RemovalStep
  BY <1>3, <1>5, <1>6, <1>7, <1>10
  DEF RemovalStep, StopService, Undefine, Withdraw, Unlink, ClearConsent, DeleteEvents,
      DeletePlugin, DeleteSocket, PurgeState, PurgeConfig, DeleteBinary
<1>11. CASE Abort
  BY <1>3, <1>11 DEF Abort
<1>12. CASE \/ Respawn \/ ServeByHand \/ DaemonEnd \/ Captured \/ Uploaded
            \/ \E e \in EditedEvents, h \in Theirs : Edit(e, h)
            \/ UNCHANGED vars
  BY <1>2, <1>12 DEF Respawn, ServeByHand, DaemonEnd, Captured, Uploaded, Edit, vars
<1> QED
  BY <1>8, <1>9, <1>10, <1>11, <1>12 DEF Next

\* Only setups and removals change the hooks file and go on with it, each in one step.
LEMMA OnlySaves ==
  ASSUME [Next]_vars, hooks' # hooks, proc' # proc
  PROVE  /\ proc.pc = "saveInstall" \/ proc.pc = "saveHooks"
         /\ hooks' = proc.next
BY DEF Next, SetupStep, RemovalStep, Respawn, ServeByHand, DaemonEnd, Captured, Uploaded, Edit,
       BeginSetup, BeginRemoval, Abort, SetupBinary, SetupIdentity, LoadInstall, SaveInstall,
       Save, Define, HerdrManifest, HerdrLink, HerdrConsent, StopService, CheckDaemon, Undefine,
       LoadHooks, SaveHooks, Withdraw, Unlink, ClearConsent, DeleteEvents, DeletePlugin,
       DeleteSocket, PurgeState, PurgeConfig, DeleteBinary, At, vars

\* Neither an installation nor a removal takes a command of others, moves one, or
\* adds one, whatever groups they are in, unless the file was edited after it was
\* read (hooks.go:20-102).
THEOREM OthersKept == Spec => OtherHooksStay
<1>1. Init => SavedInv
  BY DEF Init, Idle, SavedInv
<1>2. ASSUME TypeOK, SavedInv, [Next]_vars, hooks' # hooks, proc' # proc, hooks = proc.loaded,
             NEW e \in Events
      PROVE  SameOthers(hooks.groups[e], hooks'.groups[e], Mine)
  <2>1. hooks \in File(Handlers)
    BY <1>2 DEF TypeOK
  <2>2. hooks' = Install(hooks, Mine) \/ hooks' = Uninstall(hooks, Mine)
    BY <1>2, OnlySaves DEF SavedInv
  <2> QED
    BY <2>1, <2>2, InstallSpares, UninstallSpares
<1>3. TypeOK /\ SavedInv /\ [Next]_vars =>
         [hooks' # hooks /\ proc' # proc /\ hooks = proc.loaded =>
            \A e \in Events : SameOthers(hooks.groups[e], hooks'.groups[e], Mine)]_vars
  BY <1>2
<1> QED
  BY <1>1, <1>3, SavedStep, RemovalTyped, PTL DEF Spec, OtherHooksStay
==============================================================================
