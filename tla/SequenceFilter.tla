--------------------------- MODULE SequenceFilter ---------------------------
(***************************************************************************)
(* The filters of lists in the code, as a recursive function.              *)
(***************************************************************************)
EXTENDS Integers, Sequences

\* Iterator::filter, Vec::retain: the part of a list that is in a set, in the
\* list's order.
Kept(list, set) ==
    LET upTo[i \in 0 .. Len(list)] ==
            IF i = 0 THEN << >>
            ELSE IF list[i] \in set THEN Append(upTo[i - 1], list[i])
                 ELSE upTo[i - 1]
    IN upTo[Len(list)]

=============================================================================
