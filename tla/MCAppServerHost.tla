---------------------------- MODULE MCAppServerHost ----------------------------
(***************************************************************************)
(* AppServerHost over a few seconds of two ticks, on both platforms.       *)
(* MCSpec explores two parts of one instance, the choice of which is made  *)
(* at the start: in "together" the readings of restart-if-updated and the  *)
(* commands interleave, early; in "apart" its readings are over when the   *)
(* first command is given, at any time, and its restart is to come, while  *)
(* the clock and the executable stay as they are.                          *)
(***************************************************************************)
EXTENDS AppServerHost

CONSTANT MaxTimeBusy  \* bound: the clock from the first command on, in "together"

VARIABLE scope

InScope ==
    \/ scope = "together" /\ (commands' > 0 => now' <= MaxTimeBusy)
    \/ /\ scope = "apart"
       /\ commands = 0 /\ commands' > 0 => Checking("restart")
       /\ commands > 0 => UNCHANGED <<now, exe>>

MCInit == Init /\ scope \in {"together", "apart"}
MCNext == Next /\ UNCHANGED scope /\ InScope
MCSpec == MCInit /\ [][MCNext]_<<vars, scope>>
==============================================================================
