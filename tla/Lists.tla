-------------------------------- MODULE Lists --------------------------------
(***************************************************************************)
(* Linked lists as sequences.  For those of the driver and the library     *)
(* (LIST_ENTRY), InsertTailList is Append, RemoveHeadList Tail.            *)
(***************************************************************************)
EXTENDS Naturals, Sequences

Occurs(x, s) == \E k \in 1..Len(s) : s[k] = x

\* A list holds an entry at most once.
Distinct(s) == \A j, k \in 1..Len(s) : s[j] = s[k] => j = k

\* The sequence s without its k-th element.
Without(s, k) == [j \in 1..(Len(s) - 1) |-> IF j < k THEN s[j] ELSE s[j + 1]]

\* RemoveEntryList for an entry whose links lead back to itself once it is off
\* its list (InitializeListHead): removing it again does nothing.
Minus(s, x) == IF Occurs(x, s) THEN Without(s, CHOOSE k \in 1..Len(s) : s[k] = x) ELSE s

\* The members of a list that are in S, in the order of the list.
Chosen(s, S) ==
  LET first[n \in 0 .. Len(s)] ==   \* those of the first n
        IF n = 0 THEN <<>>
        ELSE IF s[n] \in S THEN Append(first[n - 1], s[n]) ELSE first[n - 1]
  IN first[Len(s)]
=============================================================================
