------------------------------- MODULE Positions -------------------------------
(***************************************************************************)
(* Choosing from a sequence by position: the handlers that stay in a hooks *)
(* file, the characters that stay in a text.                               *)
(***************************************************************************)
EXTENDS Integers, Sequences, FiniteSets

\* The elements of s at the positions in kept, in their order.
Chosen(s, kept) ==
    [k \in 1..Cardinality(kept) |->
        s[CHOOSE i \in kept : Cardinality({j \in kept : j <= i}) = k]]
==============================================================================
