------------------------------- MODULE Absent -------------------------------
EXTENDS Naturals, Sequences

\* What stands for null and undefined: no row, no user, no filter.
CONSTANT None

\* Array.prototype.filter: the elements at the positions, in their order
Picked(list, positions) ==
    LET upTo[i \in 0..Len(list)] ==
            IF i = 0 THEN <<>>
            ELSE IF i \in positions THEN Append(upTo[i - 1], list[i]) ELSE upTo[i - 1]
    IN  upTo[Len(list)]
=============================================================================
