------------------------------- MODULE HooksFile -------------------------------
(***************************************************************************)
(* The hooks file of Codex, as internal/hookconfig edits it: for each of   *)
(* the two events the agent is notified of, a list of groups of handlers,  *)
(* some of the agent and some of others.  The results of installing and    *)
(* removing one command are operators here; reading, writing and what      *)
(* happens in between are in AgentRemoval.                                 *)
(*                                                                         *)
(* Simplified here: a handler is the command it runs (one that runs none   *)
(* is a command of its own); the matcher of a group and the rest of the    *)
(* document, which are written back as they were read, are left out.       *)
(***************************************************************************)
EXTENDS Positions

Events == {"PermissionRequest", "Stop"}

\* A group without a list of handlers is not ok.
Group(Handlers) == [ok: BOOLEAN, handlers: Seq(Handlers)]
Malformed == [ok |-> FALSE, handlers |-> <<>>]
NewGroup(command) == [ok |-> TRUE, handlers |-> <<command>>]

\* No file, a file that does not parse, or a document.
NoGroups == [e \in Events |-> <<>>]
Absent == [kind |-> "absent", groups |-> NoGroups]
Broken == [kind |-> "broken", groups |-> NoGroups]
Document(groups) == [kind |-> "object", groups |-> groups]

File(Handlers) == [kind: {"absent", "broken", "object"},
                   groups: [Events -> Seq(Group(Handlers))]]

\* A group that is not ok contains nothing ...
ContainsCommand(groups, command) ==
    \E i \in DOMAIN groups :
        groups[i].ok /\ \E j \in DOMAIN groups[i].handlers : groups[i].handlers[j] = command

\* ... and is left where it is by an installation.
Install(file, command) ==
    Document([e \in Events |->
                 IF ContainsCommand(file.groups[e], command) THEN file.groups[e]
                 ELSE Append(file.groups[e], NewGroup(command))])

\* But no file that has one can be cleaned.
Removable(file) ==
    /\ file.kind # "broken"
    /\ \A e \in Events : \A i \in DOMAIN file.groups[e] : file.groups[e][i].ok

\* Mutant of RemoveCommand: the groups that contain the command go whole.
RemoveGroups(groups, command) ==
    Chosen(groups, {i \in DOMAIN groups :
                        \A j \in DOMAIN groups[i].handlers : groups[i].handlers[j] # command})

\* The handlers of the command go, and the groups that are left without any.
RemoveCommand(groups, command) ==
    LET without(handlers) ==
            Chosen(handlers, {j \in DOMAIN handlers : handlers[j] # command})
        cleaned == [i \in DOMAIN groups |->
                       [groups[i] EXCEPT !.handlers = without(groups[i].handlers)]]
    IN  Chosen(cleaned, {i \in DOMAIN groups : cleaned[i].handlers # <<>>})

Uninstall(file, command) ==
    IF \E e \in Events : ContainsCommand(file.groups[e], command)
    THEN Document([e \in Events |->
                      IF ContainsCommand(file.groups[e], command)
                      THEN RemoveCommand(file.groups[e], command) ELSE file.groups[e]])
    ELSE file

\* Where an event runs commands of others: at which handler of which group.
OthersAt(groups, command) ==
    UNION {{i} \X {j \in DOMAIN groups[i].handlers : groups[i].handlers[j] # command} :
              i \in DOMAIN groups}

RunsAt(groups, place) == groups[place[1]].handlers[place[2]]
Before(p, q) == p[1] < q[1] \/ (p[1] = q[1] /\ p[2] < q[2])

\* The same commands of others are run by groups and by new, in the same order.
SameOthers(groups, new, command) ==
    \E f \in [OthersAt(groups, command) -> OthersAt(new, command)] :
        /\ \A q \in OthersAt(new, command) : \E p \in OthersAt(groups, command) : f[p] = q
        /\ \A p \in OthersAt(groups, command) :
              /\ RunsAt(new, f[p]) = RunsAt(groups, p)
              /\ \A q \in OthersAt(groups, command) : Before(p, q) => Before(f[p], f[q])
==============================================================================
