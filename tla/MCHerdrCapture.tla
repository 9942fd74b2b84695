---------------------------- MODULE MCHerdrCapture ----------------------------
(***************************************************************************)
(* HerdrCapture with a few panes and commands.  MCSpec explores two parts  *)
(* of one instance, the choice of which is made at the start: "episodes"   *)
(* has a server with many changes, but no command than one uninstall;      *)
(* "consent" has two commands of any kind, but a server that changes       *)
(* little.                                                                 *)
(***************************************************************************)
EXTENDS HerdrCapture, TLC

VARIABLE scope

\* Commands are interchangeable, and so are panes.
MCSymmetry == Permutations(Commands) \cup Permutations(Panes)

InScope ==
    \/ /\ scope = "episodes"
       /\ DaemonAlone /\ Cardinality({c \in Commands : obs[c].pc # "off"}) <= 1
    \/ /\ scope = "consent"
       /\ server.incarnation <= 1 /\ terminals <= 1
       /\ \A p \in DOMAIN server.panes :
             server.panes[p].sequence <= 2 /\ server.panes[p].status # "working"

MCInit == Init /\ scope \in {"episodes", "consent"}
MCNext == Next /\ UNCHANGED scope /\ InScope'
MCSpec == MCInit /\ [][MCNext]_<<vars, scope>>

\* Without scopes, for the instances that are small anyway.
MCAll == Init /\ scope = "all" /\ [][Next /\ UNCHANGED scope]_<<vars, scope>>
==============================================================================
