---------------------------- MODULE MCAgentDaemon ----------------------------
(***************************************************************************)
(* AgentDaemon with short texts.  MCSpec explores four parts of one        *)
(* instance, the choice of which is made at the start, since their product *)
(* is too large: "hooks" has one daemon with hooks, other visitors and     *)
(* enrollment; "signals" one daemon that is not stopped, with signals of   *)
(* all kinds; "hints" one daemon with one binding and its hints; "address" *)
(* several daemons on one path that start, stop and die.                   *)
(***************************************************************************)
EXTENDS AgentDaemon

VARIABLE scope

\* A single display field stands for all of them, with a limit of 6 bytes.
MCLimit == [f \in Fields |-> 6]

\* Enough of each kind of character around the limits, and in all orders.
MCTexts == BoundedSeq(Runes, 3)
MCAgents ==
    [status: {"blocked", "idle", "working"}, thread: {""}, workspace: {<<>>}, shown: [Fields -> MCTexts]]
    \cup [status: {"done"}, thread: {"id"}, shown: [Fields -> {<<"escaped", "escaped">>}],
          workspace: {<<"ascii">>, <<"escaped">>, <<"format", "escaped", "escaped">>}]

MCHookInputs ==
    [form: {"document", "other"}, name: {"PermissionRequest", "Stop", "other"},
     session: {"", "id", "bad"}, turn: {"id"}, request: {"", "id"}, toolUse: Ids]

MCTriggers ==
    {"startup", "pane.agent_status_changed", "other"}
    \X [form: {"document", "other"}, pane: Ids, status: {"idle", "other"}]

\* DisplayText is bounded, prints no invisible character and has no blank at its
\* ends; applied to what it returns it may still change it, and then never again.
ASSUME \A t \in BoundedSeq(Runes, 5) :
    LET once == DisplayText(t, 6)
        twice == DisplayText(once, 6)
    IN  /\ Bytes(once) <= 6
        /\ ToSet(once) \subseteq {"ascii", "wide", "escaped", "space"}
        /\ once # <<>> => once[1] # "space" /\ once[Len(once)] # "space"
        /\ DisplayText(twice, 6) = twice
        /\ ToSet(t) \cap {"format", "control"} = {} => twice = once

One == CHOOSE d \in Daemons : TRUE
AnyKey == CHOOSE k \in Keys : TRUE

OneRuns == \A d \in Daemons \ {One} : At(d, "off")
NoHooks == \A h \in Hooks : told[h] = "nothing"

InScope ==
    \/ /\ scope = "hooks" /\ OneRuns
       /\ daemon[One].observer # "wake"
       /\ \A v \in Visitors : conn[v].message.kind # "signal"
    \/ /\ scope = "signals" /\ OneRuns /\ NoHooks
       /\ ~daemon[One].active /\ ~daemon[One].cancelled /\ ~At(One, "drain")
       /\ \A h \in Hints : rows[h] = NoRow
       /\ \A v \in Visitors : conn[v].message.kind \in {"none", "signal"}
    \/ /\ scope = "hints" /\ OneRuns /\ NoHooks
       /\ daemon[One].active = (~At(One, "off"))
       /\ \A v \in Visitors :
             conn[v].message \in [kind: {"none"}] \cup
                                 [kind: {"signal"}, key: {AnyKey}, baseline: {FALSE}]
    \/ /\ scope = "address" /\ NoHooks
       /\ \A d \in Daemons : ~daemon[d].active /\ daemon[d].observer # "wake"
       /\ \A v \in Visitors : conn[v].pc = "none"

MCInit == Init /\ scope \in {"hooks", "signals", "hints", "address"}
MCNext == Next /\ UNCHANGED scope /\ InScope'
MCSpec == MCInit /\ [][MCNext]_<<vars, scope>> /\ Fairness
==============================================================================
