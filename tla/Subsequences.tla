---------------------------- MODULE Subsequences ----------------------------
(* The part of a sequence at a set of positions, in the sequence's order. *)
EXTENDS Integers, Sequences

Positions(s) == 1 .. Len(s)

Picked(s, P) ==
    LET upTo[k \in 0 .. Len(s)] ==
            IF k = 0 THEN <<>>
            ELSE IF k \in P THEN Append(upTo[k - 1], s[k])
            ELSE upTo[k - 1]
    IN  upTo[Len(s)]
=============================================================================
