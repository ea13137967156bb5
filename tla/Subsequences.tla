---------------------------- MODULE Subsequences ----------------------------
(* The elements of a sequence that belong to a set, as a recursive function. *)
EXTENDS Naturals, Sequences

\* What is left of s when the elements outside S are dropped.
Keep(s, S) ==
    LET first[n \in 0..Len(s)] ==
            IF n = 0 THEN <<>>
            ELSE IF s[n] \in S THEN Append(first[n - 1], s[n]) ELSE first[n - 1]
    IN  first[Len(s)]
=============================================================================
