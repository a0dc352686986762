-------------------------- MODULE MCDirectoryListing --------------------------
EXTENDS DirectoryListing

A  == <<"A">>
B  == <<"B", ".", "A">>
AB == <<"A", "B">>
MCDirectories == {<<A, AB, B>>, <<B, A>>}

MCPatterns == {<<"*", ".", "A">>, <<"A", "?", "*">>, <<DOS_STAR, "A">>}
MCPages == {[buffer |-> 5, single |-> FALSE], [buffer |-> 2, single |-> TRUE]}
MCSize == [name \in {A, B, AB} |-> Len(name)]

MCExpressions ==
  UNION {[1..n -> {"A", ".", "?", "*"}] : n \in 0..4}
    \cup UNION {[1..n -> {"A", "."} \cup Wildcards] : n \in 0..3}
MCFileNames == {A, B, AB, <<"A", "A">>, <<"A", ".">>, <<".", "A">>, <<"A", "B", "A">>}
=============================================================================
