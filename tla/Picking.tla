------------------------------- MODULE Picking -------------------------------
(***************************************************************************)
(* Part of a sequence: what a filter or a query leaves of the logs or rows  *)
(* it goes through, in their order.                                         *)
(***************************************************************************)
EXTENDS Integers, Sequences

(* The elements of s at the positions I. *)
Picked(s, I) ==
  LET picked[i \in 0..Len(s)] ==
        IF i = 0 THEN <<>>
        ELSE IF i \in I THEN Append(picked[i - 1], s[i]) ELSE picked[i - 1]
  IN  picked[Len(s)]
=============================================================================
