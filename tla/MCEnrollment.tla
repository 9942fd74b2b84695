----------------------------- MODULE MCEnrollment -----------------------------
(***************************************************************************)
(* Enrollment with two commands: an init, and any other beside it.         *)
(***************************************************************************)
EXTENDS Enrollment, TLC

CONSTANTS c1, c2

MCOperations == (c1 :> {"init"}) @@ (c2 :> {"init", "switch"})
==============================================================================
