-------------------------------- MODULE Outbox --------------------------------
(***************************************************************************)
(* What capture and delivery promise their users, whatever configuration,  *)
(* commands, upgrades and restarts do meanwhile: every backend has an      *)
(* outbox, an event is put in one of them, and is offered to the backend   *)
(* of that outbox and to no other, until it is settled or given up.        *)
(*                                                                         *)
(* There is no configuration here and no switch of the backend: to switch  *)
(* moves nothing from one outbox to another, so it is no step of this      *)
(* specification.  Why and when an event is given up (it expires, newer    *)
(* ones push it out, its hint is withdrawn) is left open as well; module   *)
(* QueueDelivery says it, and implements this one.                         *)
(***************************************************************************)
CONSTANTS Backends, EventIds

VARIABLES
    held,     \* <<b, i>>: event i waits in the outbox of backend b
    offered,  \* the pair being offered to its backend: none, or one
    settled   \* pairs a backend has accepted, or refused for good

outboxVars == <<held, offered, settled>>

\* An upgrade may find events that wait already.
Init ==
    /\ held \in SUBSET (Backends \X EventIds)
    /\ offered = {} /\ settled = {}

\* An event that waits nowhere is captured for one backend; others may be given
\* up to make room.
Put(b, i) ==
    /\ \A p \in held : p[2] # i
    /\ <<b, i>> \in held' /\ held' \subseteq held \cup {<<b, i>>}
    /\ UNCHANGED <<offered, settled>>

GiveUp ==
    /\ held' \subseteq held
    /\ UNCHANGED <<offered, settled>>

\* What is offered waits in the outbox of the backend it is offered to.
Offer(b, i) ==
    /\ offered = {} /\ offered' = {<<b, i>>}
    /\ <<b, i>> \in held' /\ held' \subseteq held
    /\ UNCHANGED settled

Settle ==
    /\ offered # {}
    /\ settled' = settled \cup offered
    /\ UNCHANGED <<held, offered>>

\* Only what its backend has settled is taken out for having been offered: by
\* the name of the event, which may have been captured again meanwhile.
TakeOut(b, i) ==
    /\ offered = {<<b, i>>} /\ <<b, i>> \in settled
    /\ offered' = {}
    /\ held' = {p \in held : p[2] # i}
    /\ UNCHANGED settled

\* Otherwise the offer ends (it failed, or the daemon died) and the event stays.
Release ==
    /\ offered # {} /\ offered' = {}
    /\ UNCHANGED <<held, settled>>

Next ==
    \/ \E b \in Backends, i \in EventIds : Put(b, i) \/ Offer(b, i) \/ TakeOut(b, i)
    \/ GiveUp \/ Settle \/ Release

Spec == Init /\ [][Next]_outboxVars
==============================================================================
