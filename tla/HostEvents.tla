------------------------------ MODULE HostEvents ------------------------------
(***************************************************************************)
(* What becomes an event, and of which kind: the hook's reading of Codex's *)
(* input, the reading of a Herdr plugin hook, the display metadata of a    *)
(* Herdr hint with the rules that bound it, the validity of events, and    *)
(* the source under which the queue files one.  Operators only.            *)
(*                                                                         *)
(* A text is a sequence of kinds of characters, since its length in bytes, *)
(* its length in JSON and what is blank or invisible in it is all the      *)
(* rules look at.  An identifier is empty, good or bad (too long, or with  *)
(* a line break in it).  The limits are constants, so that short texts     *)
(* reach them.                                                             *)
(***************************************************************************)
EXTENDS Positions, SequencesExt

CONSTANTS
    Fields,           \* display fields: agent, displayAgent, title, a label per status
    Limit,            \* field -> bytes it may have (64, 64, 256, 96)
    WorkspaceLimit,   \* bytes of a workspace's id (256)
    WorkspaceBudget,  \* bytes it may take in JSON before it is dropped (600)
    Budget,           \* bytes the metadata may take in JSON (1200)
    Fixed,            \* bytes of the JSON around the status
    Overhead,         \* bytes of the JSON around any other field
    NameBytes         \* bytes of a session's name (64)

ASSUME LimitAssumption ==
    /\ IsFiniteSet(Fields) /\ Limit \in [Fields -> Nat] /\ WorkspaceLimit \in Nat
    /\ {WorkspaceBudget, Budget, Fixed, Overhead, NameBytes} \subseteq Nat
\* What Normalized never shortens fits the budget, or it would not end.
ASSUME BudgetAssumption ==
    Fixed + (NameBytes + Overhead) + (WorkspaceBudget + Overhead) <= Budget

------------------------------------------------------------------------------
(* Texts. *)

Runes == {"ascii", "wide", "escaped", "space", "format", "control"}

\* In UTF-8; encoding/json writes "<", ">", "&" and controls with six characters.
Bytes(text) == Len(text) + 2 * Cardinality({i \in DOMAIN text : text[i] \in {"wide", "format"}})
JsonWidth(text) ==
    Bytes(text) + 5 * Cardinality({i \in DOMAIN text : text[i] \in {"escaped", "control"}})

Solid(text) == {i \in DOMAIN text : text[i] # "space"}

\* strings.Join(strings.Fields(text), " ")
Collapse(text) ==
    Chosen(text, Solid(text) \cup {i \in DOMAIN text : i - 1 \in Solid(text)
                                                     /\ \E j \in Solid(text) : j > i})

Strip(text) == Chosen(text, {i \in DOMAIN text : text[i] \notin {"format", "control"}})

Cut(text, max) == Chosen(text, {i \in DOMAIN text : Bytes(SubSeq(text, 1, i)) <= max})

Trim(text) ==
    Chosen(text, {i \in DOMAIN text : /\ \E j \in Solid(text) : j <= i
                                    /\ \E j \in Solid(text) : j >= i})

DisplayText(text, max) == Trim(Cut(Strip(Collapse(text)), max))

------------------------------------------------------------------------------
(* Display metadata of a hint. *)

NoMetadata == [status |-> "none"]
SessionNames == {"", "name", "invalid"}
Statuses == {"working", "blocked", "idle", "done", "unknown"}

FieldBytes(text) == IF text = <<>> THEN 0 ELSE Overhead + JsonWidth(text)

\* The bytes of the display fields are summed by counting them.
JsonBytes(m) ==
    Fixed + (IF m.session = "" THEN 0 ELSE Overhead + NameBytes) + FieldBytes(m.workspace)
    + Cardinality(UNION {{f} \X (1..FieldBytes(m.shown[f])) : f \in Fields})

Fits(m) == JsonBytes(m) <= Budget

\* A round of the loop: the workspace stays or goes, the rest is cut in half.
Halve(m) ==
    [m EXCEPT !.workspace = IF JsonWidth(@) > WorkspaceBudget THEN <<>> ELSE @,
              !.shown = [f \in Fields |-> DisplayText(@[f], Bytes(@[f]) \div 2)]]

\* What the metadata is after each round; a round takes a byte at least.
Halvings(m) ==
    LET halved[n \in 0..JsonBytes(m) + 1] == IF n = 0 THEN m ELSE Halve(halved[n - 1])
    IN  halved

\* The first of them that fits.
FirstFit(halved) ==
    CHOOSE n \in DOMAIN halved : Fits(halved[n]) /\ \A k \in 0..n - 1 : ~Fits(halved[k])
Fitted(m) == Halvings(m)[FirstFit(Halvings(m))]

Normalized(m) ==
    Fitted([session |-> IF m.session = "invalid" THEN "" ELSE m.session,
            status |-> m.status,
            workspace |-> DisplayText(m.workspace, WorkspaceLimit),
            shown |-> [f \in Fields |-> DisplayText(m.shown[f], Limit[f])]])

Announces(type) ==
    CASE type = "attention_required" -> {"blocked"}
      [] type = "progress_updated" -> {"idle", "done"}
      [] OTHER -> {}

\* The workspace is an ID as well (herdr_metadata.go:100): a metadata that is as
\* Normalized leaves it always has such a one.
ValidFor(m, type) == m.status \in Announces(type) /\ m = Normalized(m)

------------------------------------------------------------------------------
(* Events. *)

Ids == {"", "id", "bad"}
ValidID(id) == id = "id"
Optional(id) == id = "" \/ ValidID(id)

NoTarget == [session |-> "none"]

EventSource(e) == IF e.source = "" /\ e.version = 1 THEN "codex" ELSE e.source

ValidMetadata(e) ==
    e.metadata # NoMetadata => EventSource(e) = "herdr" /\ ValidFor(e.metadata, e.type)

ValidCodex(e) ==
    /\ e.version = 1 /\ e.source \in {"", "codex"} /\ e.target = NoTarget
    /\ e.type \in {"approval_required", "turn_stopped"}
    /\ ValidID(e.thread) /\ ValidID(e.turn) /\ Optional(e.request)

ValidHerdr(e) ==
    /\ e.version = 2 /\ e.source = "herdr" /\ e.target # NoTarget
    /\ e.thread = "" /\ e.turn = "" /\ e.request = ""
    /\ ValidID(e.target.session)
    /\ IF e.type = "test_notification"
       THEN e.target.pane = "" /\ e.target.thread = "" /\ ValidID(e.target.test)
       ELSE /\ ValidID(e.target.pane) /\ e.target.test = "" /\ Optional(e.target.thread)
            /\ e.type \in {"attention_required", "progress_updated"}

Valid(e) == ValidMetadata(e) /\ (ValidCodex(e) \/ ValidHerdr(e))

\* The source column of an event's row; "codex" has seven days to be delivered
\* and is never withdrawn, "herdr" half an hour.
FiledUnder(e) == IF EventSource(e) = "herdr" /\ Valid(e) THEN "herdr" ELSE "codex"

------------------------------------------------------------------------------
(* Where events come from. *)

NoEvent == [type |-> "none"]

\* The whitelisted fields of a hook's input, if it is one JSON document of a
\* bounded size.
NormalizeHook(input) ==
    IF \/ input.form # "document"
       \/ input.session = "" \/ input.turn = ""
       \/ input.name \notin {"PermissionRequest", "Stop"}
    THEN NoEvent
    ELSE [version |-> 1, source |-> "", target |-> NoTarget, metadata |-> NoMetadata,
          type |-> IF input.name = "Stop" THEN "turn_stopped" ELSE "approval_required",
          thread |-> input.session, turn |-> input.turn,
          request |-> IF input.request # "" THEN input.request ELSE input.toolUse]

\* The daemon checks again what a hook sends.
ValidHookEvent(e) == e.version = 1 /\ Valid(e)

\* A plugin hook says at most which pane changed, and never how.
NoSignal == [pane |-> "none", baseline |-> FALSE]
NormalizeHerdrHook(trigger, input) ==
    IF trigger = "startup" THEN [pane |-> "", baseline |-> TRUE]
    ELSE IF /\ trigger = "pane.agent_status_changed" /\ input.form = "document"
            /\ ValidID(input.pane) /\ input.status \in Statuses
    THEN [pane |-> input.pane, baseline |-> FALSE]
    ELSE NoSignal
ValidSignal(s) == ValidID(s.pane) \/ (s.baseline /\ s.pane = "")

\* An agent of Herdr's list: its status, its thread if Herdr has an id of one, and
\* what it shows.
Agent == [status: Statuses, thread: {"", "id"}, workspace: Seq(Runes),
          shown: [Fields -> Seq(Runes)]]

\* What HerdrAgent.Metadata makes of it.
Metadata(agent) ==
    Normalized([session |-> "", status |-> agent.status, workspace |-> agent.workspace,
                shown |-> agent.shown])

Hint(agent, metadata) ==
    [version |-> 2, source |-> "herdr", thread |-> "", turn |-> "", request |-> "",
     type |-> IF agent.status = "blocked" THEN "attention_required" ELSE "progress_updated",
     target |-> [session |-> "id", pane |-> "id", thread |-> agent.thread, test |-> ""],
     metadata |-> metadata]

\* Mutant of HintOf: Metadata's own normalisation has to do.
HintOfOnce(agent, name) == Hint(agent, [Metadata(agent) EXCEPT !.session = name])

\* The hint that an observation queues for an agent of the session so named.
HintOf(agent, name) == Hint(agent, Normalized([Metadata(agent) EXCEPT !.session = name]))
==============================================================================
