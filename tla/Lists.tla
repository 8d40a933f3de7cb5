-------------------------------- MODULE Lists --------------------------------
(***************************************************************************)
(* Python lists of sequences and requests, which lose an element wherever  *)
(* it is: list.remove, comprehensions, a deque whose entry is cancelled.   *)
(***************************************************************************)
EXTENDS Integers, Sequences, FiniteSets

NoDuplicates(q) == \A i, j \in DOMAIN q : q[i] = q[j] => i = j

\* Keeps the sequence in the list.
FaultyWithoutNone(q, i) == q

\* Drops the first sequence, whichever it is.
FaultyWithoutFirst(q, i) == Tail(q)

\* A list without its i-th element.
Without(q, i) == [j \in 1..Len(q) - 1 |-> IF j < i THEN q[j] ELSE q[j + 1]]

\* The elements of a list at the positions in K, in their order.
Picked(q, K) ==
    [j \in 1..Cardinality(K) |-> q[CHOOSE i \in K : Cardinality({k \in K : k < i}) = j - 1]]
=============================================================================
