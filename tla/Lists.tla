------------------------------- MODULE Lists --------------------------------
(* Operations of Rust's standard library on lists that several components use. *)
EXTENDS Naturals, Sequences

\* Vec::retain, and Iterator::filter: the members that are in keep, in their order.
Retain(list, keep) ==
    LET kept[n \in 0..Len(list)] ==
            IF n = 0 THEN <<>>
            ELSE IF list[n] \in keep THEN Append(kept[n - 1], list[n]) ELSE kept[n - 1]
    IN  kept[Len(list)]

=============================================================================
