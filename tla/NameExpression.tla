---------------------------- MODULE NameExpression ----------------------------
(***************************************************************************)
(* DokanIsNameInExpression (dokanlib/dokan/directory.c), which says        *)
(* whether a file name matches a search pattern.  Names and patterns are   *)
(* sequences of characters in upper case; comparing without regard to case *)
(* is left out.                                                            *)
(*                                                                         *)
(* The code calls itself with the rest of the pattern and of the name, and *)
(* goes on where the call would have: both are the same function of the    *)
(* two positions.                                                          *)
(***************************************************************************)
EXTENDS Naturals, Sequences

DOS_STAR == "<"
DOS_QM   == ">"
DOS_DOT  == "DOS_DOT"   \* a double quote

Wildcards == {"*", "?", DOS_STAR, DOS_QM, DOS_DOT}

(***************************************************************************)
(* What the code reads without having written it.  lastDot is what the     *)
(* variable of that name holds when DOS_STAR meets no dot.  luck decides   *)
(* comparisons with what lies behind the end of the name: TRUE when it is  *)
(* whatever makes the pattern match.                                       *)
(***************************************************************************)
Unwritten(maxLength) == [lastDot : 0..maxLength, luck : BOOLEAN]
Zeroes == [lastDot |-> 0, luck |-> FALSE]

\* The position has run past the terminator, so it cannot be the length of
\* the name any more.  What is left is a star that ends the pattern, or the
\* comparison of a recursive call with what lies there.
PastTheEnd(rest, luck) ==
  /\ \E i \in DOMAIN rest : rest[i] \in {"*", DOS_STAR}
  /\ luck \/ (rest[Len(rest)] = "*" /\ \A i \in DOMAIN rest : rest[i] \in Wildcards)

\* A slip: the character after the next is where the search for dots begins.
DotsAfterNext(name, ni) == {p \in ni + 2 .. Len(name) : name[p] = "."}

\* The dots that the search for the last one meets.
DotsAfter(name, ni) == {p \in ni + 1 .. Len(name) : name[p] = "."}

\* Where the search for a match of the rest begins to be given up: at the end
\* of the name or at its last dot.
StarEnds(name, ni, lastDot) ==
  LET dots == DotsAfter(name, ni)
      stop == IF dots = {} THEN lastDot ELSE CHOOSE p \in dots : \A d \in dots : d <= p
  IN IF stop \in ni .. Len(name) THEN stop ELSE Len(name) + 1

\* A slip: a star is at least one character, if there is one.
IsNameInExpressionOneMore(pattern, name, unwritten) ==
  LET M[ei \in 1 .. Len(pattern) + 1] ==
        [ni \in 1 .. Len(name) + 2 |->
           IF ei > Len(pattern) THEN ni = Len(name) + 1
           ELSE IF ni > Len(name) + 1 THEN FALSE
           ELSE IF pattern[ei] = "*"
           THEN ei = Len(pattern) \/ \E k \in ni + 1 .. Len(name) + 1 : M[ei + 1][k]
           ELSE ni <= Len(name) /\ pattern[ei] \in {"?", name[ni]} /\ M[ei + 1][ni + 1]]
  IN M[1][1]

\* M[ei][ni]: does the pattern from ei on match the name from ni on?
DokanIsNameInExpression(pattern, name, unwritten) ==
  LET M[ei \in 1 .. Len(pattern) + 1] ==
        [ni \in 1 .. Len(name) + 2 |->
           IF ei > Len(pattern) THEN ni = Len(name) + 1
           ELSE IF ni > Len(name) + 1
           THEN PastTheEnd(SubSeq(pattern, ei, Len(pattern)), unwritten.luck)
           ELSE LET c   == pattern[ei]
                    dot == ni <= Len(name) /\ name[ni] = "."
                IN CASE c = "*" ->
                          ei = Len(pattern) \/ \E k \in ni .. Len(name) + 1 : M[ei + 1][k]
                     [] c = DOS_STAR ->
                          \E k \in ni .. StarEnds(name, ni, unwritten.lastDot) : M[ei + 1][k]
                     [] c = DOS_QM ->
                          M[ei + 1][IF dot /\ DotsAfter(name, ni) = {} THEN ni ELSE ni + 1]
                     [] c = DOS_DOT -> M[ei + 1][IF dot THEN ni + 1 ELSE ni]
                     [] c = "?" -> M[ei + 1][ni + 1]
                     [] OTHER -> ni <= Len(name) /\ c = name[ni] /\ M[ei + 1][ni + 1]]
  IN M[1][1]

-----------------------------------------------------------------------------
(* What the comment above the function says: "?" is any one character and  *)
(* "*" any string.  A pattern with k characters matches a name when the    *)
(* name can be cut into k pieces, each of which its character matches.     *)

Piece(c, piece) ==
  CASE c = "*" -> TRUE
    [] c = "?" -> Len(piece) = 1
    [] OTHER   -> piece = <<c>>

InExpression(pattern, name) ==
  \E cut \in [0 .. Len(pattern) -> 0 .. Len(name)] :
    /\ cut[0] = 0 /\ cut[Len(pattern)] = Len(name)
    /\ \A i \in 1 .. Len(pattern) :
         /\ cut[i - 1] <= cut[i]
         /\ Piece(pattern[i], SubSeq(name, cut[i - 1] + 1, cut[i]))

\* A "?" with nothing but wildcards between it and a star at the end.  It steps
\* over the end of the name, and the star takes what lies there for matched.
StarMakesUp(pattern) ==
  \E i \in DOMAIN pattern :
    /\ pattern[i] = "?" /\ pattern[Len(pattern)] = "*"
    /\ \A k \in i .. Len(pattern) : pattern[k] \in {"?", "*"}

\* Does the answer depend on what was never written?
Defined(pattern, name, maxLength) ==
  \A u \in Unwritten(maxLength) :
     DokanIsNameInExpression(pattern, name, u) = DokanIsNameInExpression(pattern, name, Zeroes)

\* Where the code reads nothing that was never written: no star after a
\* character that may step over the end of the name, and DOS_STAR only in front,
\* for a name with a dot after its first character.
Settled(pattern, name) ==
  /\ \A i, j \in DOMAIN pattern :
       pattern[i] \in {"?", DOS_QM} /\ pattern[j] \in {"*", DOS_STAR} => j < i
  /\ \A i \in DOMAIN pattern :
       pattern[i] = DOS_STAR => i = 1 /\ \E p \in 2 .. Len(name) : name[p] = "."
=============================================================================
