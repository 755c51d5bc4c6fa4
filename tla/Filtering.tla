------------------------------ MODULE Filtering ------------------------------
(***************************************************************************)
(* The elements of a sequence that belong to a set, in their order.  It is *)
(* SelectSeq with a set for the test; the provers know no SelectSeq.       *)
(***************************************************************************)
EXTENDS Integers, Sequences

Only(s, S) ==
    LET kept[n \in 0 .. Len(s)] ==
            IF n = 0 THEN <<>>
            ELSE IF s[n] \in S THEN Append(kept[n - 1], s[n]) ELSE kept[n - 1]
    IN  kept[Len(s)]

=============================================================================
