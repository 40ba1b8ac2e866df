------------------------------- MODULE Filters -------------------------------
(* Loops that collect a part of a list, as functions of how far they are. *)
EXTENDS Integers, Sequences

\* The elements of s at the places of keep, in their order.
Filter(s, keep) ==
  LET part[n \in 0..Len(s)] ==
        IF n = 0 THEN <<>>
        ELSE IF n \in keep THEN Append(part[n - 1], s[n])
        ELSE part[n - 1]
  IN part[Len(s)]
=============================================================================
