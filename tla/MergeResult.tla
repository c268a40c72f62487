------------------------------ MODULE MergeResult ------------------------------
(* The outcome of the merge of MergeDiff, as a function: the positions of   *)
(* left that are new and the positions of right that are gone.              *)
EXTENDS Integers, Sequences

WithAdded(p, d)   == [added |-> d.added \cup {p}, removed |-> d.removed]
WithRemoved(q, d) == [added |-> d.added, removed |-> d.removed \cup {q}]

(* What is found from two cursors on, given what is found further on.       *)
Onward(from, cursors, left, right, Smaller(_, _)) ==
    LET i == cursors[1]
        j == cursors[2]
    IN  IF i > Len(left) /\ j > Len(right)
        THEN [added |-> {}, removed |-> {}]
        ELSE IF j > Len(right)
        THEN WithAdded(i, from[<<i + 1, j>>])
        ELSE IF i > Len(left)
        THEN WithRemoved(j, from[<<i, j + 1>>])
        ELSE IF Smaller(left[i], right[j])
        THEN WithAdded(i, from[<<i + 1, j>>])
        ELSE IF Smaller(right[j], left[i])
        THEN WithRemoved(j, from[<<i, j + 1>>])
        ELSE from[<<i + 1, j + 1>>]

Cursors(left, right) == (1 .. Len(left) + 1) \X (1 .. Len(right) + 1)

Merge(left, right, Smaller(_, _)) ==
    LET from[cursors \in Cursors(left, right)] ==
            Onward(from, cursors, left, right, Smaller)
    IN  from[<<1, 1>>]

=============================================================================
