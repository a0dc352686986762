----------------------- MODULE DirectoryListing_proofs -----------------------
(***************************************************************************)
(* Proofs about DirectoryListing, for any directories, patterns, buffers,  *)
(* number of queries and of changes.                                       *)
(*                                                                         *)
(* What a page has is computed by recursion over the list.  tlapm cannot   *)
(* instantiate a theorem of induction, but it can use that a non-empty set *)
(* of numbers has a least member: the first part derives from it what      *)
(* Chosen and Filled do, the second what DokanIsNameInExpression computes. *)
(* The third part is the invariant, which says what the list and the scan  *)
(* of the issuer have to do with each other while answers are on their     *)
(* way, given up or dropped.                                               *)
(***************************************************************************)
EXTENDS DirectoryListing, FiniteSetTheorems, SequenceTheorems, WellFoundedInduction, TLAPS

-----------------------------------------------------------------------------
(* Induction, without an operator as a parameter.                          *)

\* Every non-empty set of natural numbers has a least member.
LEMMA LeastNatural ==
  ASSUME NEW T, T \subseteq Nat, T # {}
  PROVE  \E n \in T : \A m \in T : n <= m
<1> DEFINE R == OpToRel(<, Nat)
<1>1. IsWellFoundedOn(R, Nat)
  BY NatLessThanWellFounded
<1>2. ASSUME NEW m \in Nat, NEW n \in Nat, m < n PROVE <<m, n>> \in R
  BY <1>2, Zenon DEF OpToRel
<1> HIDE DEF R
<1>3. \E n \in T : \A m \in T : ~(<<m, n>> \in R)
  BY <1>1, WFMin
<1>4. PICK n \in T : \A m \in T : ~(<<m, n>> \in R)
  BY <1>3
<1>5. ASSUME NEW m \in T PROVE n <= m
  <2>1. m \in Nat /\ n \in Nat /\ ~(<<m, n>> \in R)
    BY <1>4
  <2>2. ~(m < n)
    BY <2>1, <1>2
  <2> QED BY <2>1, <2>2
<1> QED BY <1>5

\* A set of natural numbers with a bound has a largest member.
LEMMA LargestNatural ==
  ASSUME NEW b \in Nat, NEW T, T \subseteq 0..b, T # {}
  PROVE  \E n \in T : \A m \in T : m <= n
<1> DEFINE U == {b - n : n \in T}
<1>1. U \subseteq Nat /\ U # {}
  <2>1. PICK n \in T : TRUE
    OBVIOUS
  <2>2. b - n \in U
    OBVIOUS
  <2>3. \A m \in 0..b : b - m \in Nat
    OBVIOUS
  <2> QED BY <2>2, <2>3
<1>2. PICK k \in U : \A j \in U : k <= j
  <2> HIDE DEF U
  <2> QED BY <1>1, LeastNatural
<1>3. PICK n \in T : k = b - n
  OBVIOUS
<1>4. ASSUME NEW m \in T PROVE m <= n
  <2>1. b - n <= b - m
    BY <1>2, <1>3
  <2> QED BY <2>1
<1> QED BY <1>4

\* Induction, for a set of natural numbers.
LEMMA SetInduction ==
  ASSUME NEW A, 0 \in A, \A n \in Nat : n \in A => n + 1 \in A
  PROVE  Nat \subseteq A
<1> SUFFICES ASSUME ~(Nat \subseteq A) PROVE FALSE
  OBVIOUS
<1>1. PICK n \in Nat \ A : \A m \in Nat \ A : n <= m
  BY LeastNatural
<1>2. n # 0 /\ n - 1 \in Nat /\ n - 1 \in A
  BY <1>1
<1> QED BY <1>1, <1>2

-----------------------------------------------------------------------------
(* What Chosen does.                                                       *)

\* One step of its recursion.
ChosenStep(s, S, first, n) ==
  IF n = 0 THEN <<>>
  ELSE IF s[n] \in S THEN Append(first[n - 1], s[n]) ELSE first[n - 1]

\* The recursion defines a function.
LEMMA ChosenExists ==
  ASSUME NEW s, NEW S
  PROVE  \A n \in Nat : \E f : f = [i \in 0..n |-> ChosenStep(s, S, f, i)]
<1> DEFINE A == {n \in Nat : \E f : f = [i \in 0..n |-> ChosenStep(s, S, f, i)]}
<1>1. 0 \in A
  <2> DEFINE f == [i \in 0..0 |-> <<>>]
  <2>1. f = [i \in 0..0 |-> ChosenStep(s, S, f, i)]
    BY DEF ChosenStep
  <2> QED BY <2>1
<1>2. ASSUME NEW n \in Nat, n \in A PROVE n + 1 \in A
  <2>1. PICK f : f = [i \in 0..n |-> ChosenStep(s, S, f, i)]
    BY <1>2
  <2> DEFINE g == [i \in 0..n+1 |-> IF i = n + 1 THEN ChosenStep(s, S, f, i) ELSE f[i]]
  <2>2. ASSUME NEW i \in 0..n+1 PROVE g[i] = ChosenStep(s, S, g, i)
    <3>1. i # 0 => i - 1 \in 0..n /\ g[i-1] = f[i-1]
      OBVIOUS
    <3>2. ChosenStep(s, S, g, i) = ChosenStep(s, S, f, i)
      BY <3>1 DEF ChosenStep
    <3>3. i # n + 1 => i \in 0..n /\ f[i] = ChosenStep(s, S, f, i)
      BY <2>1
    <3> QED BY <3>2, <3>3
  <2>3. g = [i \in 0..n+1 |-> g[i]]
    OBVIOUS
  <2> HIDE DEF g
  <2>4. g = [i \in 0..n+1 |-> ChosenStep(s, S, g, i)]
    BY <2>2, <2>3
  <2>5. \E h : h = [i \in 0..n+1 |-> ChosenStep(s, S, h, i)]
    BY <2>4
  <2> QED BY <2>5
<1> HIDE DEF A
<1>3. Nat \subseteq A
  BY <1>1, <1>2, SetInduction
<1> QED BY <1>3 DEF A

\* So it can be unrolled.
LEMMA ChosenUnrolls ==
  ASSUME NEW s, NEW S, Len(s) \in Nat
  PROVE  \E first : /\ Chosen(s, S) = first[Len(s)]
                    /\ \A n \in 0 .. Len(s) : first[n] = ChosenStep(s, S, first, n)
<1> DEFINE F == CHOOSE f : f = [n \in 0 .. Len(s) |-> ChosenStep(s, S, f, n)]
<1>1. \E f : f = [n \in 0 .. Len(s) |-> ChosenStep(s, S, f, n)]
  BY ChosenExists
<1>2. F = [n \in 0 .. Len(s) |-> ChosenStep(s, S, F, n)]
  BY <1>1, Zenon
<1>3. Chosen(s, S) = F[Len(s)]
  BY Zenon DEF Chosen, ChosenStep
<1> HIDE DEF F
<1> QED BY <1>2, <1>3

\* It keeps types, makes no list longer, and has members of S only.
LEMMA ChosenType ==
  ASSUME NEW T, NEW s \in Seq(T), NEW S
  PROVE  /\ Chosen(s, S) \in Seq(T) /\ Len(Chosen(s, S)) <= Len(s)
         /\ \A i \in 1 .. Len(Chosen(s, S)) : Chosen(s, S)[i] \in S
<1>1. PICK first : /\ Chosen(s, S) = first[Len(s)]
                   /\ \A n \in 0 .. Len(s) : first[n] = ChosenStep(s, S, first, n)
  BY ChosenUnrolls
<1> DEFINE Good(n) == n <= Len(s) => /\ first[n] \in Seq(T) /\ Len(first[n]) <= n
                                     /\ \A i \in 1 .. Len(first[n]) : first[n][i] \in S
           A == {n \in Nat : Good(n)}
<1>2. 0 \in A
  <2>1. first[0] = <<>>
    BY <1>1 DEF ChosenStep
  <2>2. <<>> \in Seq(T) /\ Len(<<>>) = 0
    OBVIOUS
  <2>3. Good(0)
    BY <2>1, <2>2
  <2> QED BY <2>3
<1>3. ASSUME NEW n \in Nat, n \in A PROVE n + 1 \in A
  <2> SUFFICES ASSUME n + 1 <= Len(s) PROVE Good(n + 1)
    OBVIOUS
  <2>1. first[n + 1] = IF s[n + 1] \in S THEN Append(first[n], s[n + 1]) ELSE first[n]
    BY <1>1 DEF ChosenStep
  <2>2. /\ first[n] \in Seq(T) /\ Len(first[n]) <= n /\ s[n + 1] \in T
        /\ \A i \in 1 .. Len(first[n]) : first[n][i] \in S
    BY <1>3
  <2> QED BY <2>1, <2>2
<1> HIDE DEF A
<1>4. Nat \subseteq A
  BY <1>2, <1>3, SetInduction
<1>5. Good(Len(s))
  BY <1>4 DEF A
<1> QED BY <1>1, <1>5

\* A list whose members are all in S is what it chooses.
LEMMA ChosenAll ==
  ASSUME NEW T, NEW s \in Seq(T), NEW S, \A i \in 1 .. Len(s) : s[i] \in S
  PROVE  Chosen(s, S) = s
<1>1. PICK first : /\ Chosen(s, S) = first[Len(s)]
                   /\ \A n \in 0 .. Len(s) : first[n] = ChosenStep(s, S, first, n)
  BY ChosenUnrolls
<1> DEFINE Good(n) == n <= Len(s) => first[n] = SubSeq(s, 1, n)
           A == {n \in Nat : Good(n)}
<1>2. 0 \in A
  <2>1. first[0] = <<>>
    BY <1>1 DEF ChosenStep
  <2>2. SubSeq(s, 1, 0) = <<>>
    OBVIOUS
  <2> QED BY <2>1, <2>2
<1>3. ASSUME NEW n \in Nat, n \in A PROVE n + 1 \in A
  <2> SUFFICES ASSUME n + 1 <= Len(s) PROVE Good(n + 1)
    OBVIOUS
  <2>1. first[n + 1] = Append(first[n], s[n + 1])
    <3>1. s[n + 1] \in S /\ n + 1 \in 0 .. Len(s) /\ n + 1 # 0 /\ (n + 1) - 1 = n
      OBVIOUS
    <3>2. first[n + 1] = ChosenStep(s, S, first, n + 1)
      BY <1>1, <3>1
    <3> QED BY <3>1, <3>2 DEF ChosenStep
  <2>2. first[n] = SubSeq(s, 1, n)
    BY <1>3
  <2>3. Append(SubSeq(s, 1, n), s[n + 1]) = SubSeq(s, 1, n + 1)
    OBVIOUS
  <2> QED BY <2>1, <2>2, <2>3
<1> HIDE DEF A
<1>4. Nat \subseteq A
  BY <1>2, <1>3, SetInduction
<1>5. first[Len(s)] = SubSeq(s, 1, Len(s))
  BY <1>4 DEF A
<1> QED BY <1>1, <1>5

-----------------------------------------------------------------------------
(* Parts of sequences.                                                     *)

\* A part of a sequence: its type, its length and its members.
LEMMA PartOf ==
  ASSUME NEW T, NEW s \in Seq(T), NEW m \in Nat, NEW n \in Nat, m <= n, n <= Len(s), NEW part,
         part = SubSeq(s, m + 1, n)
  PROVE  part \in Seq(T) /\ Len(part) = n - m /\ \A i \in 1 .. n - m : part[i] = s[m + i]
<1>1. \A i \in m + 1 .. n : s[i] \in T
  OBVIOUS
<1>2. /\ part \in Seq(T)
      /\ Len(part) = IF m + 1 <= n THEN n - (m + 1) + 1 ELSE 0
      /\ \A i \in 1 .. n - (m + 1) + 1 : part[i] = s[m + 1 + i - 1]
  BY <1>1, SubSeqProperties
<1> QED BY <1>2

\* Sequences with the same members are the same.
LEMMA SameMembers ==
  ASSUME NEW T, NEW s \in Seq(T), NEW t \in Seq(T), Len(s) = Len(t),
         \A i \in 1 .. Len(s) : s[i] = t[i]
  PROVE  s = t
OBVIOUS

-----------------------------------------------------------------------------
(* What Filled does.                                                       *)

\* Nothing needs no room, and one entry its own.
LEMMA BytesOfOne ==
  /\ Bytes(<<>>) = 0
  /\ \A name \in Names : Size[name] \in Nat => Bytes(<<name>>) = Size[name]
<1> DEFINE Step(names, f, k) == IF k = 0 THEN 0 ELSE f[k - 1] + Size[names[k]]
           Sum(names) == CHOOSE f : f = [k \in 0 .. Len(names) |-> Step(names, f, k)]
<1>1. \A names : Bytes(names) = Sum(names)[Len(names)]
  BY Zenon DEF Bytes
<1>2. Bytes(<<>>) = 0
  <2> DEFINE f == [k \in 0 .. Len(<<>>) |-> 0]
  <2>1. f = [k \in 0 .. Len(<<>>) |-> Step(<<>>, f, k)]
    OBVIOUS
  <2>2. Sum(<<>>) = [k \in 0 .. Len(<<>>) |-> Step(<<>>, Sum(<<>>), k)]
    <3> HIDE DEF f, Step
    <3> QED BY <2>1, Zenon
  <2> HIDE DEF Sum
  <2> QED BY <1>1, <2>2
<1>3. ASSUME NEW name \in Names, Size[name] \in Nat PROVE Bytes(<<name>>) = Size[name]
  <2> DEFINE f == [k \in 0 .. Len(<<name>>) |-> IF k = 0 THEN 0 ELSE Size[name]]
  <2>1. f = [k \in 0 .. Len(<<name>>) |-> Step(<<name>>, f, k)]
    BY <1>3
  <2>2. Sum(<<name>>) = [k \in 0 .. Len(<<name>>) |-> Step(<<name>>, Sum(<<name>>), k)]
    <3> HIDE DEF f, Step
    <3> QED BY <2>1, Zenon
  <2> HIDE DEF Sum
  <2>3. Sum(<<name>>)[0] = 0
    BY <2>2
  <2>4. Sum(<<name>>)[1] = Sum(<<name>>)[0] + Size[name]
    BY <2>2
  <2>5. Sum(<<name>>)[1] = Size[name]
    BY <1>3, <2>3, <2>4
  <2>6. Len(<<name>>) = 1
    OBVIOUS
  <2> HIDE DEF Sum
  <2> QED BY <1>1, <2>5, <2>6
<1> QED BY <1>2, <1>3

\* A page is a beginning, and is empty only when the first entry does not fit.
LEMMA FilledIsBeginning ==
  ASSUME NEW names \in Seq(Names), NEW p \in Pages
  PROVE  /\ \E k \in 0 .. Len(names) : Filled(names, p) = SubSeq(names, 1, k)
         /\ Filled(names, p) = <<>> /\ names # <<>> => Size[names[1]] > p.buffer
<1> DEFINE fits == {k \in 0 .. Len(names) :
                      Bytes(SubSeq(names, 1, k)) <= p.buffer /\ (p.single => k <= 1)}
           last == CHOOSE k \in fits : \A i \in fits : i <= k
<1>1. p.buffer \in Nat /\ p.single \in BOOLEAN
  BY DirectoryListingAssumption
<1>2. 0 \in fits
  <2>1. SubSeq(names, 1, 0) = <<>>
    OBVIOUS
  <2>2. Bytes(SubSeq(names, 1, 0)) = 0
    BY <2>1, BytesOfOne
  <2>3. 0 \in 0 .. Len(names)
    OBVIOUS
  <2> QED BY <1>1, <2>2, <2>3
<1>3. \E k \in fits : \A i \in fits : i <= k
  <2>1. fits \subseteq 0 .. Len(names) /\ Len(names) \in Nat
    OBVIOUS
  <2> HIDE DEF fits
  <2> QED BY <1>2, <2>1, LargestNatural
<1>4. last \in fits /\ \A i \in fits : i <= last
  <2> HIDE DEF fits
  <2> QED BY <1>3
<1>5. Filled(names, p) = SubSeq(names, 1, last)
  BY DEF Filled
<1>6. last \in 0 .. Len(names)
  BY <1>4
<1> HIDE DEF last
<1>7. ASSUME Filled(names, p) = <<>>, names # <<>> PROVE Size[names[1]] > p.buffer
  <2>1. last = 0
    BY <1>5, <1>6, <1>7
  <2>2. 1 \notin fits
    <3> HIDE DEF fits
    <3> QED BY <1>4, <2>1
  <2>3. SubSeq(names, 1, 1) = <<names[1]>> /\ names[1] \in Names /\ 1 \in 0 .. Len(names)
    <3>1. Len(names) >= 1
      BY <1>7
    <3>2. Len(SubSeq(names, 1, 1)) = 1 /\ SubSeq(names, 1, 1)[1] = names[1]
      BY <3>1
    <3>3. SubSeq(names, 1, 1) \in Seq(Names) /\ \A t \in Seq(Names) : Len(t) = 1 => t = <<t[1]>>
      BY <3>1
    <3>5. SubSeq(names, 1, 1) = <<names[1]>>
      BY <3>2, <3>3
    <3>4. names[1] \in Names
      BY <3>1
    <3> QED BY <3>1, <3>4, <3>5
  <2>4. Bytes(<<names[1]>>) = Size[names[1]] /\ Size[names[1]] \in Nat
    BY <2>3, BytesOfOne, DirectoryListingAssumption
  <2>5. ~(Size[names[1]] <= p.buffer)
    <3> SUFFICES ASSUME Size[names[1]] <= p.buffer PROVE FALSE
      OBVIOUS
    <3>1. Bytes(SubSeq(names, 1, 1)) <= p.buffer
      BY <2>3, <2>4
    <3> QED BY <2>2, <2>3, <3>1
  <2> QED BY <1>1, <2>4, <2>5
<1> QED BY <1>5, <1>6, <1>7

\* The page cut from what is wanted, from an index on.
LEMMA PageOf ==
  ASSUME NEW wanted \in Seq(Names), NEW from \in Nat, NEW p \in Pages, NEW page,
         page = Filled(SubSeq(wanted, from + 1, Len(wanted)), p)
  PROVE  /\ page \in Seq(Names)
         /\ page # <<>> => /\ from + Len(page) <= Len(wanted) /\ Len(page) > 0
                           /\ page = SubSeq(wanted, from + 1, from + Len(page))
         /\ page = <<>> => Len(wanted) <= from \/ Size[wanted[from + 1]] > p.buffer
<1> DEFINE rest == SubSeq(wanted, from + 1, Len(wanted))
<1>1. /\ rest \in Seq(Names)
      /\ from < Len(wanted) => /\ Len(rest) = Len(wanted) - from
                               /\ \A i \in 1 .. Len(rest) : rest[i] = wanted[from + i]
      /\ from >= Len(wanted) => rest = <<>>
  OBVIOUS
<1> HIDE DEF rest
<1>2. PICK k \in 0 .. Len(rest) : page = SubSeq(rest, 1, k)
  BY <1>1, FilledIsBeginning DEF rest
<1>3. page = <<>> /\ rest # <<>> => Size[rest[1]] > p.buffer
  BY <1>1, FilledIsBeginning DEF rest
<1>4. page \in Seq(Names) /\ Len(page) = k /\ \A i \in 1..k : page[i] = rest[i]
  <2>1. k \in Nat /\ k <= Len(rest) /\ \A i \in 1..k : rest[i] \in Names
    BY <1>1, <1>2
  <2>2. /\ page \in Seq(Names) /\ Len(page) = IF 1 <= k THEN k - 1 + 1 ELSE 0
        /\ \A i \in 1 .. k - 1 + 1 : page[i] = rest[1 + i - 1]
    BY <1>2, <2>1, SubSeqProperties
  <2> QED BY <2>1, <2>2
<1>5. ASSUME page # <<>> 
      PROVE  /\ from + Len(page) <= Len(wanted) /\ Len(page) > 0
             /\ page = SubSeq(wanted, from + 1, from + Len(page))
  <2>1. k > 0 /\ rest # <<>> /\ from < Len(wanted)
    BY <1>1, <1>4, <1>5
  <2>2. from + k <= Len(wanted)
    BY <1>1, <2>1
  <2> DEFINE cut == SubSeq(wanted, from + 1, from + k)
  <2>3. cut \in Seq(Names) /\ Len(cut) = k /\ \A i \in 1..k : cut[i] = wanted[from + i]
    <3>1. from <= from + k /\ from + k \in Nat /\ (from + k) - from = k
      BY <2>1
    <3> HIDE DEF cut
    <3> QED BY <2>2, <3>1, PartOf DEF cut
  <2> HIDE DEF cut
  <2>4. \A i \in 1..k : page[i] = cut[i]
    BY <1>1, <1>4, <2>1, <2>3
  <2>5. page = cut
    BY <1>4, <2>3, <2>4
  <2> QED BY <1>4, <2>1, <2>2, <2>5 DEF cut
<1>6. ASSUME page = <<>> PROVE Len(wanted) <= from \/ Size[wanted[from + 1]] > p.buffer
  <2> SUFFICES ASSUME from < Len(wanted) PROVE Size[wanted[from + 1]] > p.buffer
    OBVIOUS
  <2>1. rest # <<>> /\ rest[1] = wanted[from + 1]
    BY <1>1
  <2> QED BY <1>3, <1>6, <2>1
<1> QED BY <1>4, <1>5, <1>6

-----------------------------------------------------------------------------
(* What DokanIsNameInExpression computes, for any pattern and any name.    *)

Plain    == STRING \ {DOS_STAR, DOS_QM, DOS_DOT}  \* in the patterns its comment speaks of
Ordinary == STRING \ Wildcards                    \* in file names

\* The pattern without the question marks and stars before its final star.
TailDropped(expr) ==
  LET n    == Len(expr)
      tail == CHOOSE i \in 1 .. n + 1 :
                /\ \A k \in i .. n : expr[k] \in {"*", "?"}
                /\ i = 1 \/ expr[i - 1] \notin {"*", "?"}
  IN IF n > 0 /\ expr[n] = "*" THEN SubSeq(expr, 1, tail - 1) \o <<"*">> ELSE expr

\* One step of its recursion, which goes on in the row of the next character.
MatchStep(expr, name, u, next, ei, ni) ==
  IF ei > Len(expr) THEN ni = Len(name) + 1
  ELSE IF ni > Len(name) + 1
  THEN PastTheEnd(SubSeq(expr, ei, Len(expr)), u.luck)
  ELSE LET c   == expr[ei]
           dot == ni <= Len(name) /\ name[ni] = "."
       IN CASE c = "*" -> ei = Len(expr) \/ \E k \in ni .. Len(name) + 1 : next[k]
            [] c = DOS_STAR -> \E k \in ni .. StarEnds(name, ni, u.lastDot) : next[k]
            [] c = DOS_QM -> next[IF dot /\ DotsAfter(name, ni) = {} THEN ni ELSE ni + 1]
            [] c = DOS_DOT -> next[IF dot THEN ni + 1 ELSE ni]
            [] c = "?" -> next[ni + 1]
            [] OTHER -> ni <= Len(name) /\ c = name[ni] /\ next[ni + 1]

Row(expr, name, u, M, ei) ==
  [ni \in 1 .. Len(name) + 2 |-> MatchStep(expr, name, u, M[ei + 1], ei, ni)]

\* The recursion defines a function.
LEMMA RowsExist ==
  ASSUME NEW expr, NEW name, NEW u, Len(expr) \in Nat
  PROVE  \E f : f = [ei \in 1 .. Len(expr) + 1 |-> Row(expr, name, u, f, ei)]
<1> PICK m \in Nat : m = Len(expr)
  OBVIOUS
<1> DEFINE A == {n \in Nat : n <= m =>
                   \E f : f = [ei \in m + 1 - n .. m + 1 |-> Row(expr, name, u, f, ei)]}
<1>0. \A r, s : Row(expr, name, u, r, m + 1) = Row(expr, name, u, s, m + 1)
  <2>1. m + 1 > m
    OBVIOUS
  <2>2. \A r, ni : MatchStep(expr, name, u, r, m + 1, ni) = (ni = Len(name) + 1)
    BY <2>1, Zenon DEF MatchStep
  <2>3. ASSUME NEW r, NEW s PROVE Row(expr, name, u, r, m + 1) = Row(expr, name, u, s, m + 1)
    <3>1. \A ni \in 1 .. Len(name) + 2 :
            MatchStep(expr, name, u, r[m + 1 + 1], m + 1, ni) = MatchStep(expr, name, u, s[m + 1 + 1], m + 1, ni)
      BY <2>2, SMT
    <3> QED BY <3>1 DEF Row
  <2> QED BY <2>3
<1>1. 0 \in A
  <2> DEFINE f == [ei \in m + 1 - 0 .. m + 1 |-> Row(expr, name, u, <<>>, ei)]
  <2>1. ASSUME NEW ei \in m + 1 - 0 .. m + 1
        PROVE  Row(expr, name, u, f, ei) = Row(expr, name, u, <<>>, ei)
    <3>1. ei = m + 1
      OBVIOUS
    <3> HIDE DEF f
    <3> QED BY <1>0, <3>1
  <2>2. f = [ei \in m + 1 - 0 .. m + 1 |-> Row(expr, name, u, f, ei)]
    <3> QED BY <2>1, Zenon
  <2>3. \E g : g = [ei \in m + 1 - 0 .. m + 1 |-> Row(expr, name, u, g, ei)]
    <3> HIDE DEF f
    <3> QED BY <2>2
  <2> QED BY <2>3
<1>2. ASSUME NEW n \in Nat, n \in A PROVE n + 1 \in A
  <2> SUFFICES ASSUME n + 1 <= m
               PROVE  \E g : g = [ei \in m + 1 - (n + 1) .. m + 1 |-> Row(expr, name, u, g, ei)]
    OBVIOUS
  <2>1. PICK f : f = [ei \in m + 1 - n .. m + 1 |-> Row(expr, name, u, f, ei)]
    BY <1>2
  <2> DEFINE g == [ei \in m + 1 - (n + 1) .. m + 1 |->
                     IF ei = m - n THEN Row(expr, name, u, f, ei) ELSE f[ei]]
  <2>2. ASSUME NEW ei \in m + 1 - (n + 1) .. m + 1 PROVE g[ei] = Row(expr, name, u, g, ei)
    <3>1. g[ei] = Row(expr, name, u, f, ei)
      <4>1. ei # m - n => ei \in m + 1 - n .. m + 1
        OBVIOUS
      <4>2. ASSUME ei # m - n PROVE f[ei] = Row(expr, name, u, f, ei)
        <5> QED BY <2>1, <4>1, <4>2
      <4>3. g[ei] = IF ei = m - n THEN Row(expr, name, u, f, ei) ELSE f[ei]
        OBVIOUS
      <4> HIDE DEF g
      <4> QED BY <4>2, <4>3
    <3>2. ei <= m => Row(expr, name, u, g, ei) = Row(expr, name, u, f, ei)
      <4>1. ei <= m => g[ei + 1] = f[ei + 1]
        OBVIOUS
      <4> HIDE DEF g
      <4> QED BY <4>1, Zenon DEF Row
    <3>3. ei > m => ei = m + 1
      OBVIOUS
    <3>4. ei <= m \/ ei > m
      OBVIOUS
    <3> HIDE DEF g
    <3> QED BY <1>0, <3>1, <3>2, <3>3, <3>4
  <2>3. g = [ei \in m + 1 - (n + 1) .. m + 1 |-> g[ei]]
    OBVIOUS
  <2> HIDE DEF g
  <2>4. g = [ei \in m + 1 - (n + 1) .. m + 1 |-> Row(expr, name, u, g, ei)]
    BY <2>2, <2>3
  <2> QED BY <2>4
<1> HIDE DEF A
<1>3. Nat \subseteq A
  BY <1>1, <1>2, SetInduction
<1>4. \E f : f = [ei \in m + 1 - m .. m + 1 |-> Row(expr, name, u, f, ei)]
  <2>1. m \in A /\ m <= m
    BY <1>3
  <2> QED BY <2>1 DEF A
<1>5. m + 1 - m = 1
  OBVIOUS
<1> QED BY <1>4, <1>5

\* What it comes to when there are only "?" and "*".
Table(expr, name, u, M) ==
  /\ \A ni \in 1 .. Len(name) + 2 : M[Len(expr) + 1][ni] <=> ni = Len(name) + 1
  /\ \A ei \in 1 .. Len(expr) :
       M[ei][Len(name) + 2] <=> PastTheEnd(SubSeq(expr, ei, Len(expr)), u.luck)
  /\ \A ei \in 1 .. Len(expr), ni \in 1 .. Len(name) + 1 :
       /\ expr[ei] = "*" =>
            (M[ei][ni] <=> ei = Len(expr) \/ \E k \in ni .. Len(name) + 1 : M[ei + 1][k])
       /\ expr[ei] = "?" => (M[ei][ni] <=> M[ei + 1][ni + 1])
       /\ expr[ei] \notin {"*", "?"} =>
            (M[ei][ni] <=> ni <= Len(name) /\ expr[ei] = name[ni] /\ M[ei + 1][ni + 1])

LEMMA Tabulated ==
  ASSUME NEW expr \in Seq(Plain), NEW name \in Seq(Ordinary), NEW u
  PROVE  \E M : Table(expr, name, u, M) /\ (DokanIsNameInExpression(expr, name, u) <=> M[1][1])
<1> DEFINE M == CHOOSE f : f = [ei \in 1 .. Len(expr) + 1 |-> Row(expr, name, u, f, ei)]
           m == Len(expr)
           l == Len(name)
<1>0. m = Len(expr) /\ m \in Nat /\ l \in Nat 
  OBVIOUS
<1>1. \E f : f = [ei \in 1 .. Len(expr) + 1 |-> Row(expr, name, u, f, ei)]
  BY <1>0, RowsExist
<1>2. M = [ei \in 1 .. Len(expr) + 1 |-> Row(expr, name, u, M, ei)]
  BY <1>1, Zenon
<1>3. DokanIsNameInExpression(expr, name, u) = M[1][1]
  BY Zenon DEF DokanIsNameInExpression, MatchStep, Row
<1> HIDE DEF M
<1>4. ASSUME NEW ei \in 1 .. m + 1, NEW ni \in 1 .. l + 2
      PROVE  M[ei][ni] = MatchStep(expr, name, u, M[ei + 1], ei, ni)
  <2>1. M[ei] = Row(expr, name, u, M, ei)
    BY <1>2
  <2> QED BY <2>1, Zenon DEF Row
<1>5. ASSUME NEW ni \in 1 .. l + 2 PROVE M[m + 1][ni] <=> ni = l + 1
  <2>1. m + 1 \in 1 .. m + 1 /\ m + 1 > m
    BY <1>0
  <2>2. M[m + 1][ni] = (ni = l + 1)
    BY <1>4, <2>1, Zenon DEF MatchStep
  <2> QED BY <2>2, Zenon
<1>6. ASSUME NEW ei \in 1 .. m
      PROVE  M[ei][l + 2] <=> PastTheEnd(SubSeq(expr, ei, m), u.luck)
  <2>1. ei \in 1 .. m + 1 /\ ~(ei > m) /\ l + 2 \in 1 .. l + 2 /\ l + 2 > l + 1
    BY <1>0
  <2>2. M[ei][l + 2] = PastTheEnd(SubSeq(expr, ei, m), u.luck)
    BY <1>4, <2>1, Zenon DEF MatchStep
  <2> QED BY <2>2, Zenon
<1>7. ASSUME NEW ei \in 1 .. m, NEW ni \in 1 .. l + 1
      PROVE  /\ expr[ei] = "*" => (M[ei][ni] <=> ei = m \/ \E k \in ni .. l + 1 : M[ei + 1][k])
             /\ expr[ei] = "?" => (M[ei][ni] <=> M[ei + 1][ni + 1])
             /\ expr[ei] \notin {"*", "?"} =>
                  (M[ei][ni] <=> ni <= l /\ expr[ei] = name[ni] /\ M[ei + 1][ni + 1])
  <2>1. ei \in 1 .. m + 1 /\ ~(ei > m) /\ ni \in 1 .. l + 2 /\ ~(ni > l + 1)
    BY <1>0
  <2>2. expr[ei] \notin {DOS_STAR, DOS_QM, DOS_DOT}
    BY DEF Plain
  <2>3. M[ei][ni] = MatchStep(expr, name, u, M[ei + 1], ei, ni)
    BY <1>4, <2>1
  <2>4. CASE expr[ei] = "*"
    <3>1. M[ei][ni] = (ei = m \/ \E k \in ni .. l + 1 : M[ei + 1][k])
      BY <2>1, <2>2, <2>3, <2>4, Zenon DEF MatchStep
    <3> QED BY <2>4, <3>1, Zenon
  <2>5. CASE expr[ei] = "?"
    <3>1. expr[ei] # "*"
      BY <2>5
    <3>2. M[ei][ni] = M[ei + 1][ni + 1]
      BY <2>1, <2>2, <2>3, <2>5, <3>1, Zenon DEF MatchStep
    <3> QED BY <2>5, <3>1, <3>2, Zenon
  <2>6. CASE expr[ei] \notin {"*", "?"}
    <3>1. M[ei][ni] = (ni <= l /\ expr[ei] = name[ni] /\ M[ei + 1][ni + 1])
      BY <2>1, <2>2, <2>3, <2>6, Zenon DEF MatchStep
    <3> QED BY <2>6, <3>1, Zenon
  <2> QED BY <2>4, <2>5, <2>6
<1> QED BY <1>3, <1>5, <1>6, <1>7, Zenon DEF Table

\* From row ei and column ni on, the rest of the name can be cut into pieces for
\* the rest of the pattern.
Cuts(expr, name, ei, ni) ==
  \E cut \in [ei - 1 .. Len(expr) -> 0 .. Len(name)] :
    /\ cut[ei - 1] = ni - 1 /\ cut[Len(expr)] = Len(name)
    /\ \A i \in ei .. Len(expr) :
         /\ cut[i - 1] <= cut[i]
         /\ Piece(expr[i], SubSeq(name, cut[i - 1] + 1, cut[i]))

LEMMA CutsEnd ==
  ASSUME NEW expr, NEW name, Len(expr) \in Nat, Len(name) \in Nat, NEW ni \in 1 .. Len(name) + 1
  PROVE  Cuts(expr, name, Len(expr) + 1, ni) <=> ni = Len(name) + 1
<1> DEFINE m == Len(expr)
           l == Len(name)
<1>1. ASSUME ni = l + 1 PROVE Cuts(expr, name, m + 1, ni)
  <2> DEFINE cut == [i \in (m + 1) - 1 .. m |-> l]
  <2>1. /\ cut \in [(m + 1) - 1 .. m -> 0 .. l]
        /\ cut[(m + 1) - 1] = ni - 1 /\ cut[m] = l
        /\ \A i \in m + 1 .. m : FALSE
    BY <1>1
  <2> HIDE DEF cut
  <2> QED BY <2>1 DEF Cuts
<1>2. ASSUME Cuts(expr, name, m + 1, ni) PROVE ni = l + 1
  <2>1. PICK cut \in [(m + 1) - 1 .. m -> 0 .. l] : cut[(m + 1) - 1] = ni - 1 /\ cut[m] = l
    BY <1>2 DEF Cuts
  <2> QED BY <2>1
<1> QED BY <1>1, <1>2

\* The piece of the first character, and the rest.
LEMMA CutsStep ==
  ASSUME NEW expr, NEW name, Len(expr) \in Nat, Len(name) \in Nat,
         NEW ei \in 1 .. Len(expr), NEW ni \in 1 .. Len(name) + 1
  PROVE  Cuts(expr, name, ei, ni) <=>
           \E k \in ni .. Len(name) + 1 :
             Piece(expr[ei], SubSeq(name, ni, k - 1)) /\ Cuts(expr, name, ei + 1, k)
<1> DEFINE m == Len(expr)
           l == Len(name)
<1>1. ASSUME Cuts(expr, name, ei, ni)
      PROVE  \E k \in ni .. l + 1 : Piece(expr[ei], SubSeq(name, ni, k - 1)) /\ Cuts(expr, name, ei + 1, k)
  <2>1. PICK cut \in [ei - 1 .. m -> 0 .. l] :
          /\ cut[ei - 1] = ni - 1 /\ cut[m] = l
          /\ \A i \in ei .. m :
               cut[i - 1] <= cut[i] /\ Piece(expr[i], SubSeq(name, cut[i - 1] + 1, cut[i]))
    BY <1>1 DEF Cuts
  <2> DEFINE k == cut[ei] + 1
             rest == [i \in (ei + 1) - 1 .. m |-> cut[i]]
  <2>2. ei \in ei .. m /\ ei \in ei - 1 .. m /\ cut[ei] \in 0 .. l
    <3>1. ei \in ei .. m /\ ei \in ei - 1 .. m
      OBVIOUS
    <3> QED BY <2>1, <3>1
  <2>3. ni - 1 <= cut[ei] /\ Piece(expr[ei], SubSeq(name, (ni - 1) + 1, cut[ei]))
    BY <2>1, <2>2
  <2>4. k \in ni .. l + 1 /\ k - 1 = cut[ei] /\ (ni - 1) + 1 = ni
    BY <2>2, <2>3
  <2>5. /\ rest \in [(ei + 1) - 1 .. m -> 0 .. l]
        /\ rest[(ei + 1) - 1] = k - 1 /\ rest[m] = l
    BY <2>1, <2>2
  <2>6. ASSUME NEW i \in ei + 1 .. m
        PROVE  rest[i - 1] <= rest[i] /\ Piece(expr[i], SubSeq(name, rest[i - 1] + 1, rest[i]))
    <3>1. i \in ei .. m /\ rest[i - 1] = cut[i - 1] /\ rest[i] = cut[i]
      OBVIOUS
    <3> HIDE DEF rest
    <3> QED BY <2>1, <3>1
  <2>7. Cuts(expr, name, ei + 1, k)
    <3> HIDE DEF rest, k
    <3> QED BY <2>5, <2>6, Zenon DEF Cuts
  <2>8. Piece(expr[ei], SubSeq(name, ni, k - 1))
    <3> HIDE DEF k
    <3> QED BY <2>3, <2>4
  <2> HIDE DEF k
  <2> QED BY <2>4, <2>7, <2>8
<1>2. ASSUME NEW k \in ni .. l + 1, Piece(expr[ei], SubSeq(name, ni, k - 1)),
             Cuts(expr, name, ei + 1, k)
      PROVE  Cuts(expr, name, ei, ni)
  <2>1. PICK rest \in [(ei + 1) - 1 .. m -> 0 .. l] :
          /\ rest[(ei + 1) - 1] = k - 1 /\ rest[m] = l
          /\ \A i \in ei + 1 .. m :
               rest[i - 1] <= rest[i] /\ Piece(expr[i], SubSeq(name, rest[i - 1] + 1, rest[i]))
    BY <1>2 DEF Cuts
  <2> DEFINE cut == [i \in ei - 1 .. m |-> IF i = ei - 1 THEN ni - 1 ELSE rest[i]]
  <2>2. /\ cut \in [ei - 1 .. m -> 0 .. l]
        /\ cut[ei - 1] = ni - 1 /\ cut[m] = l
    BY <2>1
  <2>3. ASSUME NEW i \in ei .. m
        PROVE  cut[i - 1] <= cut[i] /\ Piece(expr[i], SubSeq(name, cut[i - 1] + 1, cut[i]))
    <3>1. CASE i = ei
      <4>1. cut[i - 1] = ni - 1 /\ cut[i] = k - 1 /\ (ni - 1) + 1 = ni /\ ni - 1 <= k - 1
        BY <2>1, <3>1
      <4> HIDE DEF cut
      <4> QED BY <1>2, <3>1, <4>1
    <3>2. CASE i # ei
      <4>1. i \in ei + 1 .. m /\ cut[i - 1] = rest[i - 1] /\ cut[i] = rest[i]
        BY <3>2
      <4> HIDE DEF cut
      <4> QED BY <2>1, <4>1
    <3> QED BY <3>1, <3>2
  <2> HIDE DEF cut
  <2> QED BY <2>2, <2>3, Zenon DEF Cuts
<1> QED BY <1>1, <1>2

\* What that comes to for each kind of character.
LEMMA CutsBy ==
  ASSUME NEW expr, NEW name \in Seq(STRING), Len(expr) \in Nat,
         NEW ei \in 1 .. Len(expr), NEW ni \in 1 .. Len(name) + 1
  PROVE  /\ expr[ei] = "*" =>
              (Cuts(expr, name, ei, ni) <=> \E k \in ni .. Len(name) + 1 : Cuts(expr, name, ei + 1, k))
         /\ expr[ei] = "?" =>
              (Cuts(expr, name, ei, ni) <=> ni <= Len(name) /\ Cuts(expr, name, ei + 1, ni + 1))
         /\ expr[ei] \notin {"*", "?"} =>
              (Cuts(expr, name, ei, ni) <=>
                 ni <= Len(name) /\ expr[ei] = name[ni] /\ Cuts(expr, name, ei + 1, ni + 1))
<1> DEFINE l == Len(name)
<1>0. l \in Nat
  OBVIOUS
<1>1. Cuts(expr, name, ei, ni) <=>
        \E k \in ni .. l + 1 : Piece(expr[ei], SubSeq(name, ni, k - 1)) /\ Cuts(expr, name, ei + 1, k)
  BY <1>0, CutsStep
<1>2. ASSUME NEW k \in ni .. l + 1
      PROVE  /\ Len(SubSeq(name, ni, k - 1)) = k - ni
             /\ k = ni + 1 => SubSeq(name, ni, k - 1) = <<name[ni]>>
  <2>1. Len(SubSeq(name, ni, k - 1)) = k - ni
    OBVIOUS
  <2>2. ASSUME k = ni + 1 PROVE SubSeq(name, ni, k - 1) = <<name[ni]>>
    <3>1. k - 1 = ni /\ ni \in 1 .. l
      BY <2>2
    <3>2. SubSeq(name, ni, ni) \in Seq(STRING) /\ Len(SubSeq(name, ni, ni)) = 1 /\ SubSeq(name, ni, ni)[1] = name[ni]
      <4>1. ni \in Nat /\ ni \in 1 .. Len(name) /\ ni <= ni
        BY <1>0, <3>1
      <4>2. \A j \in ni .. ni : name[j] \in STRING
        BY <4>1
      <4> HIDE DEF l
      <4>3. SubSeq(name, ni, ni) \in Seq(STRING)
        BY <4>1, <4>2
      <4>4. Len(SubSeq(name, ni, ni)) = 1
        BY <4>1
      <4>5. SubSeq(name, ni, ni)[1] = name[ni]
        BY <4>1
      <4> QED BY <4>3, <4>4, <4>5
    <3>3. <<name[ni]>> \in Seq(STRING) /\ Len(<<name[ni]>>) = 1 /\ <<name[ni]>>[1] = name[ni]
      BY <3>1
    <3>4. SubSeq(name, ni, ni) = <<name[ni]>>
      <4>1. \A i \in 1 .. 1 : SubSeq(name, ni, ni)[i] = <<name[ni]>>[i]
        BY <3>2, <3>3
      <4> QED BY <3>2, <3>3, <4>1, SeqEqual
    <3> QED BY <3>1, <3>4
  <2> QED BY <2>1, <2>2
<1>3. ASSUME NEW k \in ni .. l + 1
      PROVE  /\ expr[ei] = "*" => Piece(expr[ei], SubSeq(name, ni, k - 1))
             /\ expr[ei] = "?" => (Piece(expr[ei], SubSeq(name, ni, k - 1)) <=> k = ni + 1)
             /\ expr[ei] \notin {"*", "?"} =>
                  (Piece(expr[ei], SubSeq(name, ni, k - 1)) <=> k = ni + 1 /\ expr[ei] = name[ni])
  <2> DEFINE piece == SubSeq(name, ni, k - 1)
  <2>0. Len(piece) = k - ni /\ (k = ni + 1 => piece = <<name[ni]>>)
    BY <1>2
  <2>1. \A c : c = "*" => Piece(c, piece)
    BY Zenon DEF Piece
  <2>2. \A c : c = "?" => (Piece(c, piece) <=> Len(piece) = 1)
    BY Zenon DEF Piece
  <2>3. \A c : c \notin {"*", "?"} => (Piece(c, piece) <=> piece = <<c>>)
    BY Zenon DEF Piece
  <2> HIDE DEF piece
  <2>4. \A c : piece = <<c>> => k - ni = 1
    BY <2>0
  <2>5. k - ni = 1 <=> k = ni + 1
    OBVIOUS
  <2>6. \A c : k = ni + 1 => (piece = <<c>> <=> c = name[ni])
    BY <2>0
  <2> QED BY <2>0, <2>1, <2>2, <2>3, <2>4, <2>5, <2>6 DEF piece
<1>4. ni + 1 \in ni .. l + 1 <=> ni <= l
  BY <1>0
<1>5. CASE expr[ei] = "*"
  BY <1>1, <1>3, <1>5
<1>6. CASE expr[ei] = "?"
  BY <1>1, <1>3, <1>4, <1>6
<1>7. CASE expr[ei] \notin {"*", "?"}
  BY <1>1, <1>3, <1>4, <1>7
<1> QED BY <1>5, <1>6, <1>7

LEMMA WholeCut ==
  ASSUME NEW expr, NEW name
  PROVE  Cuts(expr, name, 1, 1) <=> InExpression(expr, name)
<1>1. 1 - 1 = 0
  OBVIOUS
<1>2. ASSUME Cuts(expr, name, 1, 1) PROVE InExpression(expr, name)
  BY <1>1, <1>2, Zenon DEF InExpression, Cuts
<1>3. ASSUME InExpression(expr, name) PROVE Cuts(expr, name, 1, 1)
  BY <1>1, <1>3, Zenon DEF InExpression, Cuts
<1> QED BY <1>2, <1>3

\* Whatever lies behind the name, a match is not missed.
LEMMA NoneMissed ==
  ASSUME NEW expr \in Seq(Plain), NEW name \in Seq(Ordinary), NEW u,
         InExpression(expr, name)
  PROVE  DokanIsNameInExpression(expr, name, u)
<1> DEFINE m == Len(expr)
           l == Len(name)
<1>0. m \in Nat /\ l \in Nat
  OBVIOUS
<1>1. PICK M : Table(expr, name, u, M) /\ (DokanIsNameInExpression(expr, name, u) <=> M[1][1])
  BY Tabulated
<1> DEFINE Kept(ei) == \A ni \in 1 .. l + 1 : Cuts(expr, name, ei, ni) => M[ei][ni]
           A == {n \in Nat : n <= m => Kept(m + 1 - n)}
<1>2. 0 \in A
  <2>1. Kept(m + 1)
    <3>1. \A ni \in 1 .. l + 1 : Cuts(expr, name, m + 1, ni) <=> ni = l + 1
      BY <1>0, CutsEnd
    <3> QED BY <1>0, <1>1, <3>1 DEF Table
  <2>2. m + 1 - 0 = m + 1
    BY <1>0
  <2> HIDE DEF Kept, m
  <2> QED BY <2>1, <2>2
<1>3. ASSUME NEW n \in Nat, n \in A PROVE n + 1 \in A
  <2> SUFFICES ASSUME n + 1 <= m PROVE Kept(m + 1 - (n + 1))
    OBVIOUS
  <2>1. PICK ei \in 1 .. m : ei = m + 1 - (n + 1) /\ ei + 1 = m + 1 - n
    BY <1>0
  <2>2. Kept(ei + 1)
    <3>1. n <= m
      BY <1>0
    <3> HIDE DEF Kept, m
    <3> QED BY <1>3, <2>1, <3>1
  <2>3. ASSUME NEW ni \in 1 .. l + 1, Cuts(expr, name, ei, ni) PROVE M[ei][ni]
    <3>1. name \in Seq(STRING)
      BY DEF Ordinary
    <3>2. /\ expr[ei] = "*" => \E k \in ni .. l + 1 : Cuts(expr, name, ei + 1, k)
          /\ expr[ei] = "?" => ni <= l /\ Cuts(expr, name, ei + 1, ni + 1)
          /\ expr[ei] \notin {"*", "?"} =>
               ni <= l /\ expr[ei] = name[ni] /\ Cuts(expr, name, ei + 1, ni + 1)
      BY <1>0, <2>3, <3>1, CutsBy
    <3>3. /\ expr[ei] = "*" => (M[ei][ni] <=> ei = m \/ \E k \in ni .. l + 1 : M[ei + 1][k])
          /\ expr[ei] = "?" => (M[ei][ni] <=> M[ei + 1][ni + 1])
          /\ expr[ei] \notin {"*", "?"} =>
               (M[ei][ni] <=> ni <= l /\ expr[ei] = name[ni] /\ M[ei + 1][ni + 1])
      BY <1>1 DEF Table
    <3>4. \A k \in ni .. l + 1 : k \in 1 .. l + 1
      BY <1>0
    <3>5. ni <= l => ni + 1 \in 1 .. l + 1
      BY <1>0
    <3> HIDE DEF m, l
    <3> QED BY <2>2, <3>2, <3>3, <3>4, <3>5
  <2> HIDE DEF m
  <2> QED BY <2>1, <2>3
<1> HIDE DEF A
<1>4. Nat \subseteq A
  BY <1>2, <1>3, SetInduction
<1>5. Kept(1)
  <2>1. m \in A /\ m + 1 - m = 1 /\ m <= m
    BY <1>0, <1>4
  <2> HIDE DEF Kept, m
  <2> QED BY <2>1 DEF A
<1>6. Cuts(expr, name, 1, 1)
  BY WholeCut
<1>7. 1 \in 1 .. l + 1
  BY <1>0
<1> QED BY <1>1, <1>5, <1>6, <1>7

\* Two patterns begin with the same characters, and what follows matches alike:
\* then so does the whole, when no "?" steps over the end of the name.
LEMMA SameBeginning ==
  ASSUME NEW expr \in Seq(Plain), NEW other \in Seq(Plain), NEW name \in Seq(Ordinary), NEW u, NEW M,
         Table(expr, name, u, M), NEW t \in 1 .. Len(expr) + 1, t <= Len(other) + 1,
         \A i \in 1 .. t - 1 : other[i] = expr[i],
         \A i \in 1 .. t - 1 : expr[i] = "*" => i # Len(expr),
         \A i \in 1 .. t - 1 : expr[i] = "?" => ~M[i + 1][Len(name) + 2],
         \A ni \in 1 .. Len(name) + 1 : M[t][ni] <=> Cuts(other, name, t, ni)
  PROVE  M[1][1] <=> InExpression(other, name)
<1> DEFINE m == Len(expr)
           l == Len(name)
<1>0. m \in Nat /\ l \in Nat /\ Len(other) \in Nat /\ t \in Nat
  OBVIOUS
<1> DEFINE Alike(ei) == \A ni \in 1 .. l + 1 : M[ei][ni] <=> Cuts(other, name, ei, ni)
           A == {n \in Nat : n < t => Alike(t - n)}
<1>1. 0 \in A
  <2>1. Alike(t) /\ t - 0 = t
    BY <1>0
  <2> HIDE DEF Alike
  <2> QED BY <2>1
<1>2. ASSUME NEW n \in Nat, n \in A PROVE n + 1 \in A
  <2> SUFFICES ASSUME n + 1 < t PROVE Alike(t - (n + 1))
    OBVIOUS
  <2>1. PICK ei \in 1 .. t - 1 : ei = t - (n + 1) /\ ei + 1 = t - n
    BY <1>0
  <2>2. Alike(ei + 1)
    <3>1. n < t
      BY <1>0
    <3> HIDE DEF Alike
    <3> QED BY <1>2, <2>1, <3>1
  <2>3. ASSUME NEW ni \in 1 .. l + 1 PROVE M[ei][ni] <=> Cuts(other, name, ei, ni)
    <3>0. name \in Seq(STRING) /\ ei \in 1 .. Len(other) /\ ei \in 1 .. m /\ other[ei] = expr[ei]
      BY <1>0 DEF Ordinary
    <3>1. /\ expr[ei] = "*" => (Cuts(other, name, ei, ni) <=> \E k \in ni .. l + 1 : Cuts(other, name, ei + 1, k))
          /\ expr[ei] = "?" => (Cuts(other, name, ei, ni) <=> ni <= l /\ Cuts(other, name, ei + 1, ni + 1))
          /\ expr[ei] \notin {"*", "?"} =>
               (Cuts(other, name, ei, ni) <=> ni <= l /\ expr[ei] = name[ni] /\ Cuts(other, name, ei + 1, ni + 1))
      BY <1>0, <3>0, CutsBy
    <3>2. /\ expr[ei] = "*" => (M[ei][ni] <=> ei = m \/ \E k \in ni .. l + 1 : M[ei + 1][k])
          /\ expr[ei] = "?" => (M[ei][ni] <=> M[ei + 1][ni + 1])
          /\ expr[ei] \notin {"*", "?"} =>
               (M[ei][ni] <=> ni <= l /\ expr[ei] = name[ni] /\ M[ei + 1][ni + 1])
      BY <3>0 DEF Table
    <3>3. \A k \in ni .. l + 1 : k \in 1 .. l + 1
      BY <1>0
    <3>4. ni <= l => ni + 1 \in 1 .. l + 1
      BY <1>0
    <3>5. ~(ni <= l) => ni + 1 = l + 2
      <4> HIDE DEF l
      <4> QED BY <1>0
    <3>6. CASE expr[ei] = "*"
      <4>1. ei # m
        BY <3>6
      <4> HIDE DEF m, l
      <4> QED BY <2>2, <3>1, <3>2, <3>3, <3>6, <4>1
    <3>7. CASE expr[ei] = "?"
      <4>1. ~M[ei + 1][l + 2]
        BY <3>7
      <4> HIDE DEF m, l
      <4> QED BY <2>2, <3>1, <3>2, <3>4, <3>5, <3>7, <4>1
    <3>8. CASE expr[ei] \notin {"*", "?"}
      <4> HIDE DEF m, l
      <4> QED BY <2>2, <3>1, <3>2, <3>4, <3>8
    <3> QED BY <3>6, <3>7, <3>8
  <2> QED BY <2>1, <2>3
<1> HIDE DEF A
<1>3. Nat \subseteq A
  BY <1>1, <1>2, SetInduction
<1>4. Alike(1)
  <2>1. t - 1 \in A /\ t - (t - 1) = 1 /\ t - 1 < t
    BY <1>0, <1>3
  <2> HIDE DEF Alike
  <2> QED BY <2>1 DEF A
<1>5. Cuts(other, name, 1, 1) <=> InExpression(other, name)
  BY WholeCut
<1>6. 1 \in 1 .. l + 1
  BY <1>0
<1> QED BY <1>4, <1>5, <1>6

\* Where the question marks and stars before the final star begin.
LEMMA TailFound ==
  ASSUME NEW expr \in Seq(Plain), Len(expr) > 0, expr[Len(expr)] = "*"
  PROVE  \E t \in 1 .. Len(expr) :
           /\ TailDropped(expr) = SubSeq(expr, 1, t - 1) \o <<"*">>
           /\ \A k \in t .. Len(expr) : expr[k] \in {"*", "?"}
           /\ t = 1 \/ expr[t - 1] \notin {"*", "?"}
<1> DEFINE n == Len(expr)
           IsTail(i) == /\ \A k \in i .. n : expr[k] \in {"*", "?"}
                        /\ i = 1 \/ expr[i - 1] \notin {"*", "?"}
           t == CHOOSE i \in 1 .. n + 1 : IsTail(i)
<1>0. n \in Nat /\ n # 0
  OBVIOUS
<1>1. \E i \in 1 .. n + 1 : IsTail(i)
  <2> DEFINE T == {i \in 1 .. n + 1 : \A k \in i .. n : expr[k] \in {"*", "?"}}
  <2>1. n + 1 \in T /\ T \subseteq Nat
    BY <1>0
  <2>2. PICK i \in T : \A j \in T : i <= j
    <3> HIDE DEF T
    <3> QED BY <2>1, LeastNatural
  <2>3. ASSUME i # 1 PROVE expr[i - 1] \notin {"*", "?"}
    <3>1. i - 1 \in 1 .. n + 1 /\ i - 1 \notin T
      BY <1>0, <2>2, <2>3
    <3>2. PICK k \in i - 1 .. n : expr[k] \notin {"*", "?"}
      BY <3>1
    <3>3. k \notin i .. n
      BY <3>2
    <3>4. k = i - 1
      BY <1>0, <3>3
    <3> QED BY <3>2, <3>4
  <2> QED BY <2>3
<1>2. t \in 1 .. n + 1 /\ IsTail(t)
  <2> HIDE DEF IsTail
  <2> QED BY <1>1, Zenon
<1>3. TailDropped(expr) = SubSeq(expr, 1, t - 1) \o <<"*">>
  BY <1>0, Zenon DEF TailDropped
<1> HIDE DEF t
<1>4. t # n + 1
  <2>1. (n + 1) - 1 = n
    BY <1>0
  <2>2. t = n + 1 => n + 1 = 1 \/ expr[n] \notin {"*", "?"}
    BY <1>2, <2>1
  <2> QED BY <1>0, <2>2
<1>5. t \in 1 .. n
  BY <1>0, <1>2, <1>4
<1> QED BY <1>2, <1>3, <1>5

\* What lies behind the name does not help: then the code is right, up to the
\* dropped tail.
LEMMA AsDocumented ==
  ASSUME NEW expr \in Seq(Plain), NEW name \in Seq(Ordinary), NEW u, ~u.luck
  PROVE  DokanIsNameInExpression(expr, name, u) <=> InExpression(TailDropped(expr), name)
<1> DEFINE m == Len(expr)
           l == Len(name)
<1>0. m \in Nat /\ l \in Nat
  OBVIOUS
<1>1. PICK M : Table(expr, name, u, M) /\ (DokanIsNameInExpression(expr, name, u) <=> M[1][1])
  BY Tabulated
<1>2. ASSUME NEW ei \in 1 .. m
      PROVE  M[ei][l + 2] <=>
               expr[m] = "*" /\ \A i \in ei .. m : expr[i] \in {"*", "?"}
  <2> DEFINE rest == SubSeq(expr, ei, m)
  <2>1. M[ei][l + 2] <=> PastTheEnd(rest, u.luck)
    BY <1>1 DEF Table
  <2>2. /\ rest \in Seq(Plain) /\ Len(rest) = m - ei + 1 /\ DOMAIN rest = 1 .. m - ei + 1
        /\ \A i \in 1 .. m - ei + 1 : rest[i] = expr[ei + i - 1]
    BY <1>0
  <2>3. rest[Len(rest)] = expr[m] /\ Len(rest) \in DOMAIN rest
    BY <1>0, <2>2
  <2>4. (\A i \in DOMAIN rest : rest[i] \in Wildcards) <=> \A i \in ei .. m : expr[i] \in Wildcards
    <3>1. ASSUME NEW i \in ei .. m PROVE i - ei + 1 \in DOMAIN rest /\ rest[i - ei + 1] = expr[i]
      BY <1>0, <2>2
    <3>2. ASSUME NEW i \in DOMAIN rest PROVE ei + i - 1 \in ei .. m /\ rest[i] = expr[ei + i - 1]
      BY <1>0, <2>2
    <3> HIDE DEF rest
    <3> QED BY <3>1, <3>2
  <2>5. \A i \in ei .. m : expr[i] \in Wildcards <=> expr[i] \in {"*", "?"}
    <3>1. \A i \in ei .. m : expr[i] \in Plain
      BY <1>0
    <3> QED BY <3>1 DEF Plain, Wildcards
  <2> HIDE DEF rest
  <2>6. PastTheEnd(rest, u.luck) <=> rest[Len(rest)] = "*" /\ \A i \in DOMAIN rest : rest[i] \in Wildcards
    BY <2>3 DEF PastTheEnd
  <2> QED BY <2>1, <2>3, <2>4, <2>5, <2>6
<1>3. CASE m > 0 /\ expr[m] = "*"
  <2>1. PICK t \in 1 .. m :
          /\ TailDropped(expr) = SubSeq(expr, 1, t - 1) \o <<"*">>
          /\ \A k \in t .. m : expr[k] \in {"*", "?"}
          /\ t = 1 \/ expr[t - 1] \notin {"*", "?"}
    BY <1>3, TailFound
  <2> DEFINE other == SubSeq(expr, 1, t - 1) \o <<"*">>
  <2>2. /\ other \in Seq(Plain) /\ Len(other) = t /\ other[t] = "*"
        /\ \A i \in 1 .. t - 1 : other[i] = expr[i]
    <3>1. "*" \in Plain
      <4>1. expr[m] \in Plain
        BY <1>0, <1>3
      <4> QED BY <1>3, <4>1
    <3>2. SubSeq(expr, 1, t - 1) \in Seq(Plain) /\ Len(SubSeq(expr, 1, t - 1)) = t - 1
      BY <1>0
    <3>3. \A i \in 1 .. t - 1 : SubSeq(expr, 1, t - 1)[i] = expr[i]
      BY <1>0
    <3> QED BY <3>1, <3>2, <3>3
  <2> HIDE DEF other
  <2>3. ASSUME NEW ei \in t .. m, NEW ni \in 1 .. l + 2 PROVE M[ei][ni]
    <3> DEFINE A == {n \in Nat : n <= m - t => \A c \in 1 .. l + 2 : M[m - n][c]}
    <3>1. ASSUME NEW e \in t .. m PROVE e \in 1 .. m /\ M[e][l + 2] /\ expr[e] \in {"*", "?"}
      <4>1. e \in 1 .. m /\ \A i \in e .. m : i \in t .. m
        BY <1>0
      <4>2. expr[e] \in {"*", "?"} /\ \A i \in e .. m : expr[i] \in {"*", "?"}
        BY <2>1, <4>1
      <4> HIDE DEF m, l
      <4> QED BY <1>2, <1>3, <4>1, <4>2
    <3>2. ASSUME NEW e \in 1 .. m, NEW c \in 1 .. l + 1
          PROVE  /\ expr[e] = "*" => (M[e][c] <=> e = m \/ \E k \in c .. l + 1 : M[e + 1][k])
                 /\ expr[e] = "?" => (M[e][c] <=> M[e + 1][c + 1])
      BY <1>1 DEF Table
    <3>3. 0 \in A
      <4>1. ASSUME NEW c \in 1 .. l + 2 PROVE M[m][c]
        <5>1. m \in t .. m /\ m \in 1 .. m
          BY <1>0
        <5>2. c \in 1 .. l + 1 \/ c = l + 2
          BY <1>0
        <5> HIDE DEF m, l
        <5> QED BY <1>3, <3>1, <3>2, <5>1, <5>2
      <4>2. m - 0 = m
        BY <1>0
      <4> HIDE DEF m
      <4> QED BY <4>1, <4>2
    <3>4. ASSUME NEW n \in Nat, n \in A PROVE n + 1 \in A
      <4> SUFFICES ASSUME n + 1 <= m - t, NEW c \in 1 .. l + 2 PROVE M[m - (n + 1)][c]
        OBVIOUS
      <4>1. PICK e \in t .. m : e = m - (n + 1) /\ e + 1 = m - n
        <5>1. m - (n + 1) \in t .. m /\ (m - (n + 1)) + 1 = m - n
          <6> HIDE DEF m
          <6> QED BY <1>0
        <5> HIDE DEF m
        <5> QED BY <5>1
      <4>2. \A d \in 1 .. l + 2 : M[e + 1][d]
        <5>1. n <= m - t
          BY <1>0
        <5> HIDE DEF m
        <5> QED BY <3>4, <4>1, <5>1
      <4>3. c = l + 2 \/ (c \in 1 .. l + 1 /\ c + 1 \in 1 .. l + 2 /\ c \in c .. l + 1)
        BY <1>0
      <4>4. M[e][c]
        <5> HIDE DEF m, l
        <5>1. e \in 1 .. m /\ M[e][l + 2] /\ expr[e] \in {"*", "?"}
          BY <3>1
        <5>2. ASSUME c \in 1 .. l + 1, c + 1 \in 1 .. l + 2, c \in c .. l + 1 PROVE M[e][c]
          <6>1. M[e + 1][c] /\ M[e + 1][c + 1]
            BY <4>2, <5>2
          <6>2. expr[e] = "*" => (M[e][c] <=> e = m \/ \E k \in c .. l + 1 : M[e + 1][k])
            BY <3>2, <5>1, <5>2
          <6>3. expr[e] = "?" => (M[e][c] <=> M[e + 1][c + 1])
            BY <3>2, <5>1, <5>2
          <6> QED BY <5>1, <5>2, <6>1, <6>2, <6>3
        <5> QED BY <4>3, <5>1, <5>2
      <4> HIDE DEF m
      <4> QED BY <4>1, <4>4
    <3> HIDE DEF A
    <3>5. Nat \subseteq A
      BY <3>3, <3>4, SetInduction
    <3>6. m - ei \in A /\ m - ei <= m - t /\ m - (m - ei) = ei
      BY <1>0, <3>5
    <3> HIDE DEF m
    <3> QED BY <3>6 DEF A
  <2>4. ASSUME NEW ni \in 1 .. l + 1 PROVE M[t][ni] <=> Cuts(other, name, t, ni)
    <3>1. Len(other) \in Nat /\ t \in 1 .. Len(other) /\ name \in Seq(STRING)
      BY <1>0, <2>2 DEF Ordinary
    <3>2. Cuts(other, name, t, ni) <=> \E k \in ni .. l + 1 : Cuts(other, name, t + 1, k)
      BY <2>2, <3>1, CutsBy
    <3>3. l + 1 \in ni .. l + 1 /\ l + 1 \in 1 .. l + 1
      BY <1>0
    <3>4. Cuts(other, name, t + 1, l + 1)
      BY <1>0, <2>2, <3>1, <3>3, CutsEnd
    <3>5. M[t][ni]
      <4>1. t \in t .. m /\ ni \in 1 .. l + 2
        BY <1>0
      <4> QED BY <2>3, <4>1
    <3> QED BY <3>2, <3>3, <3>4, <3>5
  <2>5. ASSUME NEW i \in 1 .. t - 1
        PROVE  (expr[i] = "*" => i # m) /\ (expr[i] = "?" => ~M[i + 1][l + 2])
    <3>1. i # m
      BY <1>0
    <3>2. ASSUME expr[i] = "?" PROVE ~M[i + 1][l + 2]
      <4>1. t # 1 /\ i # t - 1
        BY <2>1, <3>2
      <4>2. i + 1 \in 1 .. m /\ t - 1 \in i + 1 .. m
        BY <1>0, <4>1
      <4> QED BY <1>2, <2>1, <4>1, <4>2
    <3> QED BY <3>1, <3>2
  <2>6. M[1][1] <=> InExpression(other, name)
    <3>1. t \in 1 .. m + 1 /\ t <= Len(other) + 1
      BY <1>0, <2>2
    <3> QED BY <1>1, <2>2, <2>4, <2>5, <3>1, SameBeginning
  <2> QED BY <1>1, <2>1, <2>6 DEF other
<1>4. CASE ~(m > 0 /\ expr[m] = "*")
  <2>1. TailDropped(expr) = expr
    BY <1>4, Zenon DEF TailDropped
  <2>2. ASSUME NEW ni \in 1 .. l + 1 PROVE M[m + 1][ni] <=> Cuts(expr, name, m + 1, ni)
    <3>1. Cuts(expr, name, m + 1, ni) <=> ni = l + 1
      BY <1>0, CutsEnd
    <3> QED BY <1>0, <1>1, <3>1 DEF Table
  <2>3. ASSUME NEW i \in 1 .. (m + 1) - 1
        PROVE  (expr[i] = "*" => i # m) /\ (expr[i] = "?" => ~M[i + 1][l + 2])
    <3>1. i \in 1 .. m /\ m > 0
      BY <1>0
    <3>2. expr[m] # "*"
      BY <1>4, <3>1
    <3>3. CASE i = m
      <4>1. ~M[m + 1][l + 2]
        BY <1>0, <1>1 DEF Table
      <4> QED BY <3>2, <3>3, <4>1
    <3>4. CASE i # m
      <4>1. i + 1 \in 1 .. m
        BY <1>0, <3>4
      <4> QED BY <1>2, <3>2, <3>4, <4>1
    <3> QED BY <3>3, <3>4
  <2>4. M[1][1] <=> InExpression(expr, name)
    <3>1. m + 1 \in 1 .. m + 1 /\ m + 1 <= m + 1
      BY <1>0
    <3> QED BY <1>1, <2>2, <2>3, <3>1, SameBeginning
  <2> QED BY <1>1, <2>1, <2>4
<1> QED BY <1>3, <1>4

\* A tail that is stars alone matches what one star matches.
LEMMA TailOfStars ==
  ASSUME NEW expr \in Seq(Plain), NEW name \in Seq(Ordinary),
         InExpression(TailDropped(expr), name)
  PROVE  InExpression(expr, name) \/ StarMakesUp(expr)
<1> DEFINE m == Len(expr)
           l == Len(name)
<1>0. m \in Nat /\ l \in Nat /\ DOMAIN expr = 1 .. m
  OBVIOUS
<1> SUFFICES ASSUME ~StarMakesUp(expr) PROVE InExpression(expr, name)
  OBVIOUS
<1>1. CASE m > 0 /\ expr[m] = "*"
  <2>1. PICK t \in 1 .. m :
          /\ TailDropped(expr) = SubSeq(expr, 1, t - 1) \o <<"*">>
          /\ \A k \in t .. m : expr[k] \in {"*", "?"}
    BY <1>1, TailFound
  <2> DEFINE other == SubSeq(expr, 1, t - 1) \o <<"*">>
  <2>2. Len(other) = t /\ \A i \in 1 .. t - 1 : other[i] = expr[i]
    <3>1. SubSeq(expr, 1, t - 1) \in Seq(Plain) /\ Len(SubSeq(expr, 1, t - 1)) = t - 1
      BY <1>0
    <3>2. \A i \in 1 .. t - 1 : SubSeq(expr, 1, t - 1)[i] = expr[i]
      BY <1>0
    <3> QED BY <3>1, <3>2
  <2> HIDE DEF other
  <2>3. ASSUME NEW k \in t .. m PROVE expr[k] = "*"
    <3>1. k \in 1 .. m /\ \A j \in k .. m : j \in t .. m
      BY <1>0
    <3>2. \A j \in k .. m : expr[j] \in {"?", "*"}
      BY <2>1, <3>1
    <3>3. expr[k] # "?"
      BY <1>0, <1>1, <3>1, <3>2 DEF StarMakesUp
    <3> QED BY <2>1, <3>3
  <2>4. PICK cut \in [0 .. t -> 0 .. l] :
          /\ cut[0] = 0 /\ cut[t] = l
          /\ \A i \in 1 .. t :
               cut[i - 1] <= cut[i] /\ Piece(other[i], SubSeq(name, cut[i - 1] + 1, cut[i]))
    <3>1. InExpression(other, name)
      BY <2>1 DEF other
    <3> QED BY <2>2, <3>1 DEF InExpression
  <2> DEFINE whole == [i \in 0 .. m |-> IF i < t THEN cut[i] ELSE l]
  <2>5. whole \in [0 .. m -> 0 .. l] /\ whole[0] = 0 /\ whole[m] = l
    <3>1. \A i \in 0 .. m : i < t => i \in 0 .. t
      BY <1>0
    <3> QED BY <1>0, <2>4, <3>1
  <2>6. ASSUME NEW i \in 1 .. m
        PROVE  /\ whole[i - 1] <= whole[i]
               /\ Piece(expr[i], SubSeq(name, whole[i - 1] + 1, whole[i]))
    <3>1. CASE i < t
      <4>1. i \in 1 .. t /\ i \in 1 .. t - 1 /\ whole[i] = cut[i] /\ whole[i - 1] = cut[i - 1]
        BY <1>0, <3>1
      <4> HIDE DEF whole
      <4> QED BY <2>2, <2>4, <4>1
    <3>2. CASE ~(i < t)
      <4>1. i \in t .. m /\ whole[i] = l /\ i - 1 \in 0 .. m
        BY <1>0, <3>2
      <4>2. whole[i - 1] \in 0 .. l
        BY <2>5, <4>1
      <4>3. Piece("*", SubSeq(name, whole[i - 1] + 1, whole[i]))
        BY Zenon DEF Piece
      <4> HIDE DEF whole
      <4> QED BY <1>0, <2>3, <4>1, <4>2, <4>3
    <3> QED BY <3>1, <3>2
  <2> HIDE DEF whole
  <2> QED BY <2>5, <2>6 DEF InExpression
<1>2. CASE ~(m > 0 /\ expr[m] = "*")
  <2>1. TailDropped(expr) = expr
    BY <1>2, Zenon DEF TailDropped
  <2> QED BY <2>1
<1> QED BY <1>1, <1>2

\* A star is given up within the name.
LEMMA StarEndsWithin ==
  ASSUME NEW name, NEW ni \in Nat, NEW lastDot, Len(name) \in Nat, ni <= Len(name) + 1
  PROVE  StarEnds(name, ni, lastDot) \in ni .. Len(name) + 1
<1> DEFINE dots == DotsAfter(name, ni)
           stop == IF dots = {} THEN lastDot ELSE CHOOSE p \in dots : \A d \in dots : d <= p
<1>1. StarEnds(name, ni, lastDot) = IF stop \in ni .. Len(name) THEN stop ELSE Len(name) + 1
  BY Zenon DEF StarEnds
<1> HIDE DEF stop
<1> QED BY <1>1

\* Where nothing unwritten is read, it makes no difference.
LEMMA NothingUnread ==
  ASSUME NEW expr \in Seq(STRING), NEW name \in Seq(STRING), NEW u, NEW v, Settled(expr, name)
  PROVE  DokanIsNameInExpression(expr, name, u) = DokanIsNameInExpression(expr, name, v)
<1> DEFINE M == CHOOSE f : f = [ei \in 1 .. Len(expr) + 1 |-> Row(expr, name, u, f, ei)]
           N == CHOOSE f : f = [ei \in 1 .. Len(expr) + 1 |-> Row(expr, name, v, f, ei)]
           m == Len(expr)
           l == Len(name)
<1>0. m \in Nat /\ l \in Nat /\ DOMAIN expr = 1 .. m
  OBVIOUS
<1>1. M = [ei \in 1 .. m + 1 |-> Row(expr, name, u, M, ei)]
  <2>1. \E f : f = [ei \in 1 .. m + 1 |-> Row(expr, name, u, f, ei)]
    BY <1>0, RowsExist
  <2> QED BY <2>1, Zenon
<1>2. N = [ei \in 1 .. m + 1 |-> Row(expr, name, v, N, ei)]
  <2>1. \E f : f = [ei \in 1 .. m + 1 |-> Row(expr, name, v, f, ei)]
    BY <1>0, RowsExist
  <2> QED BY <2>1, Zenon
<1>3. /\ DokanIsNameInExpression(expr, name, u) = M[1][1]
      /\ DokanIsNameInExpression(expr, name, v) = N[1][1]
  BY Zenon DEF DokanIsNameInExpression, MatchStep, Row
<1> HIDE DEF M, N
<1>4. ASSUME NEW ei \in 1 .. m + 1, NEW ni \in 1 .. l + 2
      PROVE  /\ M[ei][ni] = MatchStep(expr, name, u, M[ei + 1], ei, ni)
             /\ N[ei][ni] = MatchStep(expr, name, v, N[ei + 1], ei, ni)
  <2>1. M[ei] = Row(expr, name, u, M, ei) /\ N[ei] = Row(expr, name, v, N, ei)
    BY <1>1, <1>2
  <2> QED BY <2>1, Zenon DEF Row
<1> DEFINE Star(ei) == \E i \in ei .. m : expr[i] \in {"*", DOS_STAR}
           Same(ei) == /\ \A ni \in 1 .. l + 1 : M[ei][ni] = N[ei][ni]
                       /\ ~Star(ei) => M[ei][l + 2] = N[ei][l + 2]
\* Behind the end of the name, with no star to come.
<1>5. ASSUME NEW ei \in 1 .. m, ~Star(ei) PROVE M[ei][l + 2] = N[ei][l + 2]
  <2> DEFINE rest == SubSeq(expr, ei, m)
  <2>1. \A i \in DOMAIN rest : rest[i] \notin {"*", DOS_STAR}
    <3>1. DOMAIN rest = 1 .. m - ei + 1 /\ \A i \in 1 .. m - ei + 1 : rest[i] = expr[ei + i - 1]
      BY <1>0
    <3>2. ASSUME NEW i \in 1 .. m - ei + 1 PROVE ei + i - 1 \in ei .. m
      BY <1>0
    <3> HIDE DEF rest
    <3> QED BY <1>5, <3>1, <3>2
  <2> HIDE DEF rest
  <2>2. PastTheEnd(rest, u.luck) = FALSE /\ PastTheEnd(rest, v.luck) = FALSE
    BY <2>1 DEF PastTheEnd
  <2>3. ei \in 1 .. m + 1 /\ ~(ei > m) /\ l + 2 \in 1 .. l + 2 /\ l + 2 > l + 1
    BY <1>0
  <2>4. M[ei][l + 2] = PastTheEnd(rest, u.luck) /\ N[ei][l + 2] = PastTheEnd(rest, v.luck)
    BY <1>4, <2>3, Zenon DEF MatchStep, rest
  <2> QED BY <2>2, <2>4
\* One step, given the next row.
<1>6. ASSUME NEW ei \in 1 .. m, NEW ni \in 1 .. l + 1, Same(ei + 1),
             expr[ei] = DOS_STAR => ni = 1
      PROVE  M[ei][ni] = N[ei][ni]
  <2> DEFINE next == M[ei + 1]
             other == N[ei + 1]
             c == expr[ei]
             dot == ni <= l /\ name[ni] = "."
  <2>0. \A k \in 1 .. l + 1 : next[k] = other[k]
    BY <1>6
  <2>1. c \in {"?", DOS_QM} => next[l + 2] = other[l + 2]
    <3> SUFFICES ASSUME c \in {"?", DOS_QM} PROVE ~Star(ei + 1)
      BY <1>6
    <3> SUFFICES ASSUME NEW j \in ei + 1 .. m, expr[j] \in {"*", DOS_STAR} PROVE FALSE
      OBVIOUS
    <3>1. j \in 1 .. m /\ ~(j < ei)
      BY <1>0
    <3> QED BY <1>0, <3>1 DEF Settled
  <2>2. ei \in 1 .. m + 1 /\ ~(ei > m) /\ ni \in 1 .. l + 2 /\ ~(ni > l + 1)
    BY <1>0
  <2>3. M[ei][ni] = MatchStep(expr, name, u, next, ei, ni)
    BY <1>4, <2>2
  <2>4. N[ei][ni] = MatchStep(expr, name, v, other, ei, ni)
    BY <1>4, <2>2
  <2>5. ni \in Nat /\ ni + 1 \in 1 .. l + 2 /\ (ni <= l => ni + 1 \in 1 .. l + 1)
    BY <1>0
  <2>6. ni + 1 = l + 2 \/ ni + 1 \in 1 .. l + 1
    BY <1>0
  <2>7. dot => ni <= l
    OBVIOUS
  <2> HIDE DEF next, other, l, m, dot
  <2>8. CASE c = "*"
    <3>0. c # DOS_STAR /\ c # DOS_QM /\ c # DOS_DOT /\ c # "?"
      BY <2>8 DEF DOS_STAR, DOS_QM, DOS_DOT
    <3>1. M[ei][ni] = (ei = m \/ \E k \in ni .. l + 1 : next[k])
      BY <2>2, <2>3, <2>8, <3>0, Zenon DEF MatchStep, m, l
    <3>2. N[ei][ni] = (ei = m \/ \E k \in ni .. l + 1 : other[k])
      BY <2>2, <2>4, <2>8, <3>0, Zenon DEF MatchStep, m, l
    <3>3. \A k \in ni .. l + 1 : next[k] = other[k]
      <4>1. \A k \in ni .. l + 1 : k \in 1 .. l + 1
        BY <1>0
      <4> QED BY <2>0, <4>1
    <3> QED BY <3>1, <3>2, <3>3
  <2>9. CASE c = DOS_STAR
    <3>1. ni = 1
      BY <1>6, <2>9
    <3>2. PICK p \in 2 .. l : name[p] = "."
      BY <1>0, <2>9 DEF Settled, l
    <3>3. DotsAfter(name, ni) # {}
      BY <3>1, <3>2 DEF DotsAfter, l
    <3>4. StarEnds(name, ni, u.lastDot) = StarEnds(name, ni, v.lastDot)
      BY <3>3, SMT DEF StarEnds
    <3> DEFINE ends == StarEnds(name, ni, v.lastDot)
    <3>5. ends \in 1 .. l + 1
      BY <1>0, <3>1, StarEndsWithin DEF l
    <3>6. c # "*" /\ c # DOS_QM /\ c # DOS_DOT /\ c # "?"
      BY <2>9 DEF DOS_STAR, DOS_QM, DOS_DOT
    <3>7. M[ei][ni] = (\E k \in ni .. ends : next[k])
      <4>1. M[ei][ni] = (\E k \in ni .. StarEnds(name, ni, u.lastDot) : next[k])
        BY <2>2, <2>3, <2>9, <3>6, Zenon DEF MatchStep, m, l
      <4> QED BY <3>4, <4>1
    <3>8. N[ei][ni] = (\E k \in ni .. ends : other[k])
      BY <2>2, <2>4, <2>9, <3>6, Zenon DEF MatchStep, m, l
    <3>9. \A k \in ni .. ends : next[k] = other[k]
      <4> HIDE DEF ends
      <4>1. \A k \in ni .. ends : k \in 1 .. l + 1
        BY <1>0, <3>5
      <4> QED BY <2>0, <4>1
    <3> HIDE DEF ends
    <3> QED BY <3>7, <3>8, <3>9
  <2>10. CASE c = DOS_QM
    <3>1. c # "*" /\ c # DOS_STAR /\ c # DOS_DOT /\ c # "?"
      BY <2>10 DEF DOS_STAR, DOS_QM, DOS_DOT
    <3> DEFINE to == IF dot /\ DotsAfter(name, ni) = {} THEN ni ELSE ni + 1
    <3>2. M[ei][ni] = next[to] /\ N[ei][ni] = other[to]
      BY <2>2, <2>3, <2>4, <2>10, <3>1, Zenon DEF MatchStep, m, l, dot
    <3>3. to \in 1 .. l + 1 \/ to = l + 2
      BY <2>6
    <3> HIDE DEF to
    <3> QED BY <2>0, <2>1, <2>10, <3>2, <3>3
  <2>11. CASE c = DOS_DOT
    <3>1. c # "*" /\ c # DOS_STAR /\ c # DOS_QM /\ c # "?"
      BY <2>11 DEF DOS_STAR, DOS_QM, DOS_DOT
    <3> DEFINE to == IF dot THEN ni + 1 ELSE ni
    <3>2. M[ei][ni] = next[to] /\ N[ei][ni] = other[to]
      BY <2>2, <2>3, <2>4, <2>11, <3>1, Zenon DEF MatchStep, m, l, dot
    <3>3. to \in 1 .. l + 1
      BY <2>5, <2>7
    <3> HIDE DEF to
    <3> QED BY <2>0, <3>2, <3>3
  <2>12. CASE c = "?"
    <3>1. c \notin {"*", DOS_STAR, DOS_QM, DOS_DOT}
      BY <2>12 DEF DOS_STAR, DOS_QM, DOS_DOT
    <3>2. M[ei][ni] = next[ni + 1] /\ N[ei][ni] = other[ni + 1]
      BY <2>2, <2>3, <2>4, <2>12, <3>1, Zenon DEF MatchStep, m, l
    <3> QED BY <2>0, <2>1, <2>6, <2>12, <3>2
  <2>13. CASE c \notin Wildcards
    <3>1. c # "*" /\ c # DOS_STAR /\ c # DOS_QM /\ c # DOS_DOT /\ c # "?"
      BY <2>13 DEF Wildcards
    <3>2. M[ei][ni] = (ni <= l /\ c = name[ni] /\ next[ni + 1])
      BY <2>2, <2>3, <3>1, Zenon DEF MatchStep, m, l
    <3>3. N[ei][ni] = (ni <= l /\ c = name[ni] /\ other[ni + 1])
      BY <2>2, <2>4, <3>1, Zenon DEF MatchStep, m, l
    <3> QED BY <2>0, <2>5, <3>2, <3>3
  <2> HIDE DEF c
  <2> QED BY <2>8, <2>9, <2>10, <2>11, <2>12, <2>13 DEF Wildcards
<1> DEFINE A == {n \in Nat : n < m \/ n = 0 => Same(m + 1 - n)}
<1>7. 0 \in A
  <2>1. m + 1 \in 1 .. m + 1 /\ m + 1 > m /\ m + 1 - 0 = m + 1
    BY <1>0
  <2>2. ASSUME NEW ni \in 1 .. l + 2 PROVE M[m + 1][ni] = N[m + 1][ni]
    <3>1. M[m + 1][ni] = (ni = l + 1) /\ N[m + 1][ni] = (ni = l + 1)
      BY <1>4, <2>1, Zenon DEF MatchStep
    <3> QED BY <3>1
  <2>3. l + 2 \in 1 .. l + 2 /\ \A ni \in 1 .. l + 1 : ni \in 1 .. l + 2
    BY <1>0
  <2>4. Same(m + 1)
    <3> HIDE DEF m, l, Star
    <3> QED BY <2>2, <2>3
  <2> HIDE DEF Same
  <2> QED BY <2>1, <2>4
<1>8. ASSUME NEW n \in Nat, n \in A PROVE n + 1 \in A
  <2> SUFFICES ASSUME n + 1 < m PROVE Same(m + 1 - (n + 1))
    OBVIOUS
  <2>1. PICK ei \in 2 .. m : ei = m + 1 - (n + 1) /\ ei + 1 = m + 1 - n
    <3>1. m + 1 - (n + 1) \in 2 .. m /\ (m + 1 - (n + 1)) + 1 = m + 1 - n
      BY <1>0
    <3> HIDE DEF m
    <3> QED BY <3>1
  <2>2. Same(ei + 1)
    <3>1. n < m
      BY <1>0
    <3> HIDE DEF Same, m
    <3> QED BY <1>8, <2>1, <3>1
  <2>3. ei \in 1 .. m /\ expr[ei] # DOS_STAR
    <3>1. ei \in 1 .. m /\ ei # 1
      BY <1>0
    <3> QED BY <1>0, <3>1 DEF Settled
  <2>4. \A ni \in 1 .. l + 1 : M[ei][ni] = N[ei][ni]
    <3> HIDE DEF Same, m, l
    <3> QED BY <1>6, <2>2, <2>3
  <2>5. ~Star(ei) => M[ei][l + 2] = N[ei][l + 2]
    <3> HIDE DEF Star, m, l
    <3> QED BY <1>5, <2>3
  <2> QED BY <2>1, <2>4, <2>5
<1> HIDE DEF A
<1>9. Nat \subseteq A
  BY <1>7, <1>8, SetInduction
<1>10. 1 \in 1 .. l + 1
  BY <1>0
<1>11. CASE m = 0
  <2>1. Same(1)
    <3>1. 0 \in A /\ m + 1 - 0 = 1
      BY <1>9, <1>11
    <3> HIDE DEF Same, m
    <3> QED BY <3>1 DEF A
  <2> QED BY <1>3, <1>10, <2>1
<1>12. CASE m # 0
  <2>1. m - 1 \in Nat /\ m - 1 < m /\ m + 1 - (m - 1) = 1 + 1 /\ 1 \in 1 .. m
    BY <1>0, <1>12
  <2>2. Same(1 + 1)
    <3>1. m - 1 \in A
      BY <1>9, <2>1
    <3> HIDE DEF Same, m
    <3> QED BY <2>1, <3>1 DEF A
  <2>3. M[1][1] = N[1][1]
    <3> HIDE DEF Same, m, l
    <3> QED BY <1>6, <1>10, <2>1, <2>2
  <2> QED BY <1>3, <2>3
<1> QED BY <1>11, <1>12

-----------------------------------------------------------------------------
(* The invariant.                                                          *)

Statuses == {"none", "SUCCESS", "NO_MORE_FILES", "NO_SUCH_FILE", "NOT_IMPLEMENTED"}

RequestRecords ==
  [index : 0..MaxEntries, page : [buffer : Nat, single : BOOLEAN], since : 0..MaxChanges]
AnswerRecords ==
  [status : Statuses, page : Seq(Names), index : 0..MaxEntries, failed : BOOLEAN]
ScanRecords ==
  [at : 0 .. MaxEntries + 1, names : Seq(Names), found : Seq(Names),
   readings : SUBSET (0..MaxChanges), since : 0..MaxChanges,
   end : {"no", "reached", "failed"}, buffer : Nat]

\* The type of every variable.
Typed ==
  /\ directory \in Directories /\ changes \in 0..MaxChanges
  /\ callback \in {"FindFiles", "FindFilesWithPattern"} /\ selects \in BOOLEAN
  /\ pattern \in Patterns \cup {NoPattern, Unset}
  /\ context \in 0..MaxEntries
  /\ irp \in [Queries -> {"new", "pending", "done", "givenUp"}]
  /\ event \in [Queries -> {"none", "queued", "finding", "matching", "answering", "answered"}]
  /\ request \in [Queries -> RequestRecords]
  /\ \A q \in Queries : request[q] = NoRequest \/ request[q].page \in Pages
  /\ patternCheck \in [Queries -> BOOLEAN]
  /\ answer \in [Queries -> AnswerRecords]
  /\ list \in Seq(Names) /\ Len(list) <= MaxEntries /\ listed \in 0..changes
  /\ scan \in ScanRecords
  /\ \A n \in scan.readings : n <= listed
  /\ scan.since <= listed

\* The queries of the handle pass one after the other, and so do their events.
OrderInv ==
  /\ \A q \in Queries :
       /\ event[q] = "none" <=> irp[q] = "new"
       /\ event[q] = "answered" => irp[q] \in {"done", "givenUp"}
       /\ irp[q] = "done" => event[q] = "answered"
       /\ event[q] \in {"queued", "finding", "matching", "answering"} => request[q].page \in Pages
  /\ \A p, q \in Queries : p < q =>
       /\ irp[q] # "new" => irp[p] \notin {"new", "pending"}
       /\ event[q] \notin {"none", "queued"} => event[p] = "answered"
  /\ pattern = Unset => list = <<>> /\ scan = NoScan /\ \A q \in Queries : irp[q] = "new"

\* The list holds what a reading of the directory has brought.
Valid   == list # <<>> \/ \E q \in Queries : event[q] = "matching"
Reading == Chosen(directory, IF callback = "FindFiles" THEN Names ELSE Matching)

\* It is the present contents unless they have changed since.
ListInv ==
  /\ \A q \in Queries : event[q] = "finding" => list = <<>>
  /\ \A q \in Queries : ~patternCheck[q] => callback # "FindFiles"
  /\ Agree =>
       /\ Valid /\ listed = changes => list = Reading
       /\ callback # "FindFiles" => \A i \in 1 .. Len(list) : list[i] \in Matching

\* An answer on its way is cut from the list.
AnswerInv ==
  \A q \in Queries :
    /\ request[q].since <= changes
    /\ event[q] = "matching" /\ request[q].index = 0 => listed >= request[q].since
    /\ event[q] # "answering" => answer[q] = NoAnswer
    /\ event[q] = "answering" => answer[q].status # "none"
    /\ answer[q].status = "SUCCESS" =>
         /\ list # <<>> /\ answer[q].page # <<>>
         /\ answer[q].index = request[q].index + Len(answer[q].page)
         /\ request[q].index = 0 => listed >= request[q].since
         /\ Agree => /\ answer[q].index <= Len(Chosen(list, Matching))
                     /\ answer[q].page =
                          SubSeq(Chosen(list, Matching), request[q].index + 1, answer[q].index)
    /\ answer[q].status = "NO_MORE_FILES" /\ ~answer[q].failed /\ Agree /\ scan.readings = {listed} =>
         \/ Len(Expected) <= request[q].index
         \/ Size[Expected[request[q].index + 1]] > request[q].page.buffer

\* The scan of the issuer has the first names of what the list was, and the
\* list is still that while nothing else has been read.
ScanInv ==
  /\ \A n \in scan.readings : scan.since <= n
  /\ scan = NoScan \/ /\ scan.at = Len(scan.names) /\ scan.at \in 1..MaxEntries
                      /\ scan.readings # {}
  /\ Agree =>
       /\ scan.readings = {changes} => scan.found = Reading
       /\ Valid /\ scan.readings = {listed} => list = scan.found
       /\ \A n \in 0..MaxChanges : scan.readings = {n} =>
            /\ IsPrefix(scan.names, Expected)
            /\ scan.end = "reached" =>
                 \/ scan.names = Expected
                 \/ Size[Expected[Len(scan.names) + 1]] > scan.buffer

\* The issuer can go on with its scan.
Continuing == scan # NoScan /\ scan.end = "no"

\* While no query is given up, the list is that of the scan, or is about to
\* be found for another one, or has just been emptied by the scan's end.
MixInv ==
  (\A q \in Queries : irp[q] # "givenUp") =>
    /\ \A m, n \in scan.readings : m = n
    /\ Continuing =>
         \/ /\ scan.readings = {listed}
            /\ \/ list # <<>>
               \/ \E q \in Queries : answer[q].status = "NO_MORE_FILES" /\ ~answer[q].failed
         \/ \E q \in Queries : InDispatch(q) /\ request[q].index = 0

IInv == Typed /\ OrderInv /\ ListInv /\ AnswerInv /\ ScanInv /\ MixInv

\* The library works on one query of the handle at a time: its threads have
\* nothing to work on at once unless a query was given up.
Alone == Serial \/ \A q \in Queries : irp[q] # "givenUp"

\* What holds without that, for it to be kept.
IrpType == irp \in [Queries -> {"new", "pending", "done", "givenUp"}]

-----------------------------------------------------------------------------
(* The facts about one state that the steps need.                          *)

\* The assumptions, with a short name for each use.
LEMMA Constants ==
  /\ MaxQueries \in Nat /\ MaxChanges \in Nat /\ MaxEntries \in Nat
  /\ \A d \in Directories : d \in Seq(Names) /\ Len(d) <= MaxEntries
  /\ Pages \subseteq [buffer : Nat, single : BOOLEAN] /\ Indexes \subseteq 0..MaxEntries
BY DirectoryListingAssumption

\* Those that arithmetic needs, and that the empty list is a list.
LEMMA Bounds ==
  /\ MaxQueries \in Nat /\ MaxChanges \in Nat /\ MaxEntries \in Nat
  /\ <<>> \in Seq(Names) /\ Len(<<>>) \in 0..MaxEntries
BY DirectoryListingAssumption

\* The types of the fields.
LEMMA TypedFacts ==
  ASSUME Typed
  PROVE  /\ list \in Seq(Names) /\ Len(list) \in 0..MaxEntries
         /\ changes \in Nat /\ listed \in Nat /\ listed <= changes /\ changes <= MaxChanges
         /\ \A q \in Queries :
              /\ request[q].index \in 0..MaxEntries /\ request[q].since \in 0..MaxChanges
              /\ answer[q].status \in Statuses /\ answer[q].page \in Seq(Names)
              /\ answer[q].index \in 0..MaxEntries /\ answer[q].failed \in BOOLEAN
         /\ scan.at \in 0 .. MaxEntries + 1 /\ scan.names \in Seq(Names) /\ scan.found \in Seq(Names)
         /\ scan.since \in 0..MaxChanges /\ scan.end \in {"no", "reached", "failed"}
         /\ \A n \in scan.readings : n \in 0..MaxChanges /\ n <= listed
<1>1. list \in Seq(Names) /\ Len(list) \in 0..MaxEntries
  BY Constants DEF Typed
<1>2. changes \in Nat /\ listed \in Nat /\ listed <= changes /\ changes <= MaxChanges
  BY Constants DEF Typed
<1>3. ASSUME NEW q \in Queries
      PROVE  /\ request[q].index \in 0..MaxEntries /\ request[q].since \in 0..MaxChanges
             /\ answer[q].status \in Statuses /\ answer[q].page \in Seq(Names)
             /\ answer[q].index \in 0..MaxEntries /\ answer[q].failed \in BOOLEAN
  <2>1. request[q] \in RequestRecords /\ answer[q] \in AnswerRecords
    BY DEF Typed
  <2> QED BY <2>1 DEF RequestRecords, AnswerRecords
<1>4. scan \in ScanRecords /\ \A n \in scan.readings : n <= listed
  BY DEF Typed
<1>5. /\ scan.at \in 0 .. MaxEntries + 1 /\ scan.names \in Seq(Names) /\ scan.found \in Seq(Names)
      /\ scan.since \in 0..MaxChanges /\ scan.end \in {"no", "reached", "failed"}
      /\ \A n \in scan.readings : n \in 0..MaxChanges
  BY <1>4 DEF ScanRecords
<1> QED BY <1>1, <1>2, <1>3, <1>4, <1>5

\* At most one query is being worked on.
LEMMA OneInDispatch ==
  ASSUME OrderInv, NEW p \in Queries, NEW q \in Queries, InDispatch(p),
         event[q] \notin {"none", "queued", "answered"}
  PROVE  p = q
BY Constants DEF OrderInv, InDispatch, Queries

\* A loop thread takes an event when the earlier ones have been answered.
LEMMA TakenLast ==
  ASSUME Typed, OrderInv, Alone, NEW q \in Queries, Taken(q)
  PROVE  /\ \A p \in Queries : p < q => event[p] = "answered"
         /\ \A p \in Queries : ~InDispatch(p) /\ (p # q /\ ~(p < q) => event[p] \in {"none", "queued"})
<1>1. ASSUME NEW p \in Queries, p < q PROVE event[p] = "answered"
  <2>1. irp[q] # "new" /\ irp[p] # "new"
    BY <1>1 DEF OrderInv, Taken
  <2>2. CASE Serial
    <3>1. event[p] \notin {"none", "queued", "finding", "matching", "answering"}
      BY <1>1, <2>1, <2>2, Constants DEF OrderInv, Taken, InDispatch, Queries
    <3> QED BY <3>1 DEF Typed
  <2>3. CASE ~Serial
    <3>1. irp[p] = "done"
      BY <1>1, <2>1, <2>3 DEF Alone, OrderInv, Typed
    <3> QED BY <3>1 DEF OrderInv
  <2> QED BY <2>2, <2>3
<1>2. ASSUME NEW p \in Queries, q < p PROVE event[p] \in {"none", "queued"}
  BY <1>2 DEF OrderInv, Taken
<1> QED BY <1>1, <1>2, Constants DEF Taken, InDispatch, Queries

\* When the pages agree, what is selected does not depend on unwritten memory.
LEMMA MatchingAgrees ==
  ASSUME Agree, pattern # Unset, NEW u \in Unwritten(MaxName)
  PROVE  Matching = {name \in Names : Matches(name, u)}
BY DEF Agree, Defined, Matches, Matching

\* The definitions that depend on the pattern and the callback only.
LEMMA PatternKept ==
  ASSUME UNCHANGED <<pattern, callback, selects>>
  PROVE  Agree' = Agree /\ Matching' = Matching
BY DEF Agree, Matching, Matches

\* What MatchFiles puts together.
LEMMA Matched ==
  ASSUME Typed, OrderInv, ListInv, NEW q \in Queries, MatchFiles(q)
  PROVE  \E wanted \in Seq(Names), page \in Seq(Names) :
           LET from == request[q].index IN
           /\ Len(wanted) <= Len(list)
           /\ Agree => wanted = Chosen(list, Matching)
           /\ page # <<>> => /\ from + Len(page) <= Len(wanted) /\ Len(page) > 0
                             /\ page = SubSeq(wanted, from + 1, from + Len(page))
           /\ page = <<>> => Len(wanted) <= from \/ Size[wanted[from + 1]] > request[q].page.buffer
           /\ page = <<>> =>
                /\ answer' = [answer EXCEPT ![q] = [status |-> "NO_MORE_FILES", page |-> <<>>,
                                                    index |-> from, failed |-> FALSE]]
                /\ list' = <<>>
           /\ page # <<>> =>
                /\ answer' = [answer EXCEPT ![q] = [status |-> "SUCCESS", page |-> page,
                                                    index |-> from + Len(page), failed |-> FALSE]]
                /\ list' = list
<1> DEFINE from == request[q].index
<1>1. PICK u \in Unwritten(MaxName) :
        LET wanted == Chosen(list, {name \in Names : patternCheck[q] => Matches(name, u)})
            page   == Filled(SubSeq(wanted, from + 1, Len(wanted)), request[q].page)
        IN IF NoMatch(from, page)
           THEN /\ answer' = [answer EXCEPT ![q] = [status |-> "NO_MORE_FILES", page |-> <<>>,
                                                    index |-> from, failed |-> FALSE]]
                /\ list' = <<>>
           ELSE /\ answer' = [answer EXCEPT ![q] = [status |-> "SUCCESS", page |-> page,
                                                    index |-> NextIndex(from, page),
                                                    failed |-> FALSE]]
                /\ UNCHANGED list
  BY DEF MatchFiles
<1> DEFINE S      == {name \in Names : patternCheck[q] => Matches(name, u)}
           wanted == Chosen(list, S)
           page   == Filled(SubSeq(wanted, from + 1, Len(wanted)), request[q].page)
<1>2. from \in Nat /\ request[q].page \in Pages /\ list \in Seq(Names)
  BY TypedFacts, Constants DEF OrderInv, MatchFiles
<1>3. wanted \in Seq(Names) /\ Len(wanted) <= Len(list)
  <2> HIDE DEF S
  <2> QED BY <1>2, ChosenType
<1>4. ASSUME Agree PROVE wanted = Chosen(list, Matching)
  <2>1. pattern # Unset
    BY DEF OrderInv, MatchFiles
  <2>2. CASE patternCheck[q]
    BY <1>4, <2>1, <2>2, MatchingAgrees
  <2>3. CASE ~patternCheck[q]
    <3>1. S = Names
      BY <2>3
    <3>2. \A i \in 1 .. Len(list) : list[i] \in Names /\ list[i] \in Matching
      BY <1>2, <1>4, <2>3 DEF ListInv
    <3>3. Chosen(list, Names) = list /\ Chosen(list, Matching) = list
      BY <1>2, <3>2, ChosenAll
    <3> QED BY <3>1, <3>3
  <2> QED BY <2>2, <2>3
<1>5. IF page = <<>>
      THEN /\ answer' = [answer EXCEPT ![q] = [status |-> "NO_MORE_FILES", page |-> <<>>,
                                               index |-> from, failed |-> FALSE]]
           /\ list' = <<>>
      ELSE /\ answer' = [answer EXCEPT ![q] = [status |-> "SUCCESS", page |-> page,
                                               index |-> from + Len(page), failed |-> FALSE]]
           /\ list' = list
  BY <1>1 DEF NoMatch, NextIndex
<1> HIDE DEF wanted
<1>6. /\ page \in Seq(Names)
      /\ page # <<>> => /\ from + Len(page) <= Len(wanted) /\ Len(page) > 0
                        /\ page = SubSeq(wanted, from + 1, from + Len(page))
      /\ page = <<>> => Len(wanted) <= from \/ Size[wanted[from + 1]] > request[q].page.buffer
  <2> HIDE DEF from
  <2> QED BY <1>2, <1>3, PageOf
<1> HIDE DEF page
<1> QED BY <1>3, <1>4, <1>5, <1>6

\* What FindFiles puts into the list.
LEMMA Found ==
  ASSUME Typed, OrderInv, ListInv, NEW q \in Queries, FindFiles(q)
  PROVE  \/ /\ list' \in Seq(Names) /\ Len(list') <= MaxEntries /\ listed' = changes
            /\ event' = [event EXCEPT ![q] = "matching"] /\ answer' = answer
            /\ Agree => /\ list' = Reading
                        /\ callback # "FindFiles" => \A i \in 1 .. Len(list') : list'[i] \in Matching
         \/ /\ list' = <<>> /\ listed' = listed
            /\ event' = [event EXCEPT ![q] = "answering"]
            /\ \E status \in {"NO_SUCH_FILE", "NO_MORE_FILES"} :
                 answer' = [answer EXCEPT ![q] = [status |-> status, page |-> <<>>,
                                                  index |-> request[q].index, failed |-> TRUE]]
<1>1. CASE \E u \in Unwritten(MaxName) :
             LET reported == {name \in Names : callback = "FindFiles" \/ ~selects \/ Matches(name, u)}
             IN /\ list' = list \o Chosen(directory, reported) /\ listed' = changes
                /\ event' = [event EXCEPT ![q] = "matching"]
                /\ UNCHANGED answer
  <2> PICK u \in Unwritten(MaxName) :
        LET reported == {name \in Names : callback = "FindFiles" \/ ~selects \/ Matches(name, u)}
        IN /\ list' = list \o Chosen(directory, reported) /\ listed' = changes
           /\ event' = [event EXCEPT ![q] = "matching"]
           /\ UNCHANGED answer
    BY <1>1
  <2> DEFINE reported == {name \in Names : callback = "FindFiles" \/ ~selects \/ Matches(name, u)}
             chosen   == Chosen(directory, reported)
  <2>1. list = <<>> /\ directory \in Seq(Names) /\ Len(directory) <= MaxEntries
    BY Constants DEF Typed, ListInv, FindFiles
  <2>2. /\ chosen \in Seq(Names) /\ Len(chosen) <= Len(directory)
        /\ \A i \in 1 .. Len(chosen) : chosen[i] \in reported
    <3> HIDE DEF reported
    <3> QED BY <2>1, ChosenType
  <2>3. list' = list \o chosen
    OBVIOUS
  <2>4. ASSUME Agree
        PROVE  reported = IF callback = "FindFiles" THEN Names ELSE Matching
    <3>1. pattern # Unset
      BY DEF OrderInv, FindFiles
    <3>2. callback = "FindFiles" => reported = Names
      OBVIOUS
    <3>3. callback # "FindFiles" => reported = {name \in Names : Matches(name, u)}
      BY <2>4 DEF Agree
    <3> QED BY <2>4, <3>1, <3>2, <3>3, MatchingAgrees
  <2> HIDE DEF reported
  <2>5. list' = chosen
    <3> HIDE DEF chosen
    <3> QED BY <2>1, <2>2, <2>3
  <2>6. Agree => list' = Reading
    BY <2>4, <2>5 DEF Reading
  <2>7. Agree /\ callback # "FindFiles" => \A i \in 1 .. Len(list') : list'[i] \in Matching
    <3> HIDE DEF chosen
    <3> QED BY <2>2, <2>4, <2>5
  <2> HIDE DEF chosen
  <2>8. Len(list') <= MaxEntries
    BY <2>1, <2>2, <2>5, Constants
  <2> QED BY <2>2, <2>5, <2>6, <2>7, <2>8
<1>2. CASE /\ list' = <<>> /\ UNCHANGED listed
           /\ event' = [event EXCEPT ![q] = "answering"]
           /\ answer' = [answer EXCEPT ![q] =
                [status |-> IF request[q].index = 0 THEN "NO_SUCH_FILE" ELSE "NO_MORE_FILES",
                 page   |-> <<>>, index |-> request[q].index, failed |-> TRUE]]
  BY <1>2
<1> QED BY <1>1, <1>2 DEF FindFiles

\* The four things that may come of an answer.
Became(s, q) ==
  \/ s = NoScan
  \/ /\ answer[q].status = "SUCCESS" /\ request[q].index = 0
     /\ s.at = answer[q].index /\ s.names = answer[q].page /\ s.found = list
     /\ s.readings = {listed} /\ s.since = request[q].since /\ s.end = "no"
  \/ /\ answer[q].status = "SUCCESS" /\ request[q].index # 0
     /\ request[q].index = scan.at /\ scan.end = "no"
     /\ s.at = answer[q].index /\ s.names = scan.names \o answer[q].page
     /\ s.found = scan.found /\ s.readings = scan.readings \cup {listed}
     /\ s.since = scan.since /\ s.end = "no"
  \/ /\ answer[q].status = "NO_MORE_FILES" /\ request[q].index = scan.at /\ scan.end = "no"
     /\ s.at = scan.at /\ s.names = scan.names /\ s.found = scan.found
     /\ s.readings = scan.readings \cup {listed} /\ s.since = scan.since
     /\ s.end = (IF answer[q].failed THEN "failed" ELSE "reached")
     /\ s.buffer = request[q].page.buffer

\* They are what Extended says.
LEMMA ExtendedCases ==
  ASSUME Typed, ScanInv, NEW q \in Queries
  PROVE  Extended(q) \in ScanRecords /\ Became(Extended(q), q)
<1> DEFINE s == Extended(q)
<1>1. /\ scan \in ScanRecords /\ listed \in 0..MaxChanges /\ list \in Seq(Names)
      /\ answer[q].page \in Seq(Names) /\ answer[q].index \in 0 .. MaxEntries + 1
      /\ request[q].since \in 0..MaxChanges
  BY TypedFacts, Bounds DEF Typed
<1>2. request[q].page.buffer \in Nat
  <2>1. request[q] \in RequestRecords
    BY DEF Typed
  <2> QED BY <2>1 DEF RequestRecords
<1>7. /\ scan.names \o answer[q].page \in Seq(Names)
      /\ scan.readings \cup {listed} \in SUBSET (0..MaxChanges)
  BY <1>1, TypedFacts
<1>8. scan.at # 0
  BY Bounds DEF ScanInv, NoScan
<1>3. ASSUME answer[q].status = "SUCCESS", request[q].index = 0
      PROVE  s \in ScanRecords /\ Became(s, q)
  <2>1. s = [at |-> answer[q].index, names |-> answer[q].page, found |-> list, readings |-> {listed},
             since |-> request[q].since, end |-> "no", buffer |-> 0]
    BY <1>3, <1>8 DEF Extended
  <2> HIDE DEF s
  <2> QED BY <1>1, <1>3, <2>1 DEF ScanRecords, Became
<1>4. ASSUME answer[q].status = "SUCCESS", request[q].index # 0,
             request[q].index = scan.at, scan.end = "no"
      PROVE  s \in ScanRecords /\ Became(s, q)
  <2>1. s = [scan EXCEPT !.at = answer[q].index, !.names = @ \o answer[q].page,
                         !.readings = @ \cup {listed}]
    BY <1>4 DEF Extended
  <2> HIDE DEF s
  <2> QED BY <1>1, <1>4, <1>7, <2>1 DEF ScanRecords, Became
<1>5. ASSUME answer[q].status = "NO_MORE_FILES", request[q].index = scan.at, scan.end = "no"
      PROVE  s \in ScanRecords /\ Became(s, q)
  <2>1. s = [scan EXCEPT !.end = IF answer[q].failed THEN "failed" ELSE "reached",
                         !.buffer = request[q].page.buffer, !.readings = @ \cup {listed}]
    BY <1>5 DEF Extended
  <2> HIDE DEF s
  <2> QED BY <1>1, <1>2, <1>5, <1>7, <2>1 DEF ScanRecords, Became
<1>6. CASE /\ ~(answer[q].status = "SUCCESS" /\ request[q].index = 0)
           /\ ~(answer[q].status = "SUCCESS" /\ request[q].index = scan.at /\ scan.end = "no")
           /\ ~(answer[q].status = "NO_MORE_FILES" /\ request[q].index = scan.at /\ scan.end = "no")
  <2>1. s = NoScan
    BY <1>6 DEF Extended
  <2>2. NoScan \in ScanRecords
    BY Bounds DEF NoScan, ScanRecords
  <2> QED BY <2>1, <2>2 DEF Became
<1> QED BY <1>3, <1>4, <1>5, <1>6

-----------------------------------------------------------------------------
(* Beginnings of a sequence.                                               *)

\* A beginning, member by member.
LEMMA PrefixMembers ==
  ASSUME NEW T, NEW s \in Seq(T), NEW e \in Seq(T)
  PROVE  IsPrefix(s, e) <=> Len(s) <= Len(e) /\ \A i \in 1 .. Len(s) : s[i] = e[i]
<1>1. SubSeq(s, 1, Len(s)) = s
  OBVIOUS
<1>2. ASSUME Len(s) <= Len(e)
      PROVE  SubSeq(e, 1, Len(s)) = s <=> \A i \in 1 .. Len(s) : s[i] = e[i]
  <2> DEFINE b == SubSeq(e, 0 + 1, Len(s))
  <2>1. b \in Seq(T) /\ Len(b) = Len(s) - 0 /\ \A i \in 1 .. Len(s) - 0 : b[i] = e[0 + i]
    <3> HIDE DEF b
    <3> QED BY <1>2, PartOf DEF b
  <2>2. b = SubSeq(e, 1, Len(s))
    OBVIOUS
  <2> HIDE DEF b
  <2>3. Len(b) = Len(s) /\ \A i \in 1 .. Len(s) : b[i] = e[i]
    BY <2>1
  <2>4. (\A i \in 1 .. Len(s) : s[i] = e[i]) => s = b
    BY <2>1, <2>3, SameMembers
  <2> QED BY <2>2, <2>3, <2>4
<1> QED BY <1>1, <1>2 DEF IsPrefix

\* A beginning can be extended by what follows it.
LEMMA PrefixExtends ==
  ASSUME NEW T, NEW s \in Seq(T), NEW t \in Seq(T), NEW e \in Seq(T), IsPrefix(s, e),
         Len(s) + Len(t) <= Len(e), t = SubSeq(e, Len(s) + 1, Len(s) + Len(t))
  PROVE  IsPrefix(s \o t, e)
<1> DEFINE m == Len(s)
           n == Len(s) + Len(t)
<1>1. t \in Seq(T) /\ Len(t) = n - m /\ \A i \in 1 .. n - m : t[i] = e[m + i]
  <2>1. m \in Nat /\ n \in Nat /\ m <= n /\ n <= Len(e) /\ t = SubSeq(e, m + 1, n)
    OBVIOUS
  <2> HIDE DEF m, n
  <2> QED BY <2>1, PartOf
<1>2. s \o t \in Seq(T) /\ Len(s \o t) = n
  OBVIOUS
<1>3. \A i \in 1..m : s[i] = e[i]
  BY PrefixMembers
<1>4. ASSUME NEW i \in 1..n PROVE (s \o t)[i] = e[i]
  <2>1. CASE i <= m
    BY <1>3, <2>1
  <2>2. CASE i > m
    <3>1. i - m \in 1 .. n - m /\ (s \o t)[i] = t[i - m]
      BY <2>2
    <3>2. t[i - m] = e[m + (i - m)] /\ m + (i - m) = i
      BY <1>1, <3>1
    <3> QED BY <3>1, <3>2
  <2> QED BY <2>1, <2>2
<1> QED BY <1>2, <1>4, PrefixMembers

\* A beginning that is not shorter is the whole.
LEMMA PrefixWhole ==
  ASSUME NEW T, NEW s \in Seq(T), NEW e \in Seq(T), IsPrefix(s, e), Len(e) <= Len(s)
  PROVE  s = e
BY PrefixMembers, SameMembers

-----------------------------------------------------------------------------
(* The invariant holds in the beginning.                                   *)

\* Nothing has been asked, found or answered.
LEMMA InitInv == Init => IInv
<1> SUFFICES ASSUME Init PROVE IInv
  OBVIOUS
<1>0. /\ NoAnswer \in AnswerRecords /\ NoAnswer.status = "none"
      /\ NoRequest \in RequestRecords /\ NoRequest.since = 0
  BY Bounds DEF NoAnswer, NoRequest, Statuses, AnswerRecords, RequestRecords
<1>1. scan.readings = {} /\ scan.since = 0 /\ scan \in ScanRecords
  BY Bounds DEF Init, NoScan, ScanRecords
<1>2. Typed
  BY <1>0, <1>1, Constants DEF Init, Typed
<1>3. OrderInv
  BY DEF Init, OrderInv
<1>4. ListInv
  BY DEF Init, ListInv, Valid
<1>5. AnswerInv
  BY <1>0 DEF Init, AnswerInv
<1>6. ScanInv
  BY <1>1 DEF Init, ScanInv
<1>7. MixInv
  BY <1>1 DEF Init, MixInv, Continuing
<1> QED BY <1>2, <1>3, <1>4, <1>5, <1>6, <1>7 DEF IInv

-----------------------------------------------------------------------------
(* Every step keeps it.                                                    *)

\* Types are kept: a page cut from the list ends where the list does.
LEMMA TypedKept ==
  ASSUME Typed, OrderInv, ListInv, AnswerInv, ScanInv, Alone, [Next]_vars
  PROVE  Typed'
<1>1. CASE UNCHANGED vars
  BY <1>1 DEF Typed, vars, appVars, driverVars, listVars
<1>2. ASSUME NEW q \in Queries, QueryDirectory(q) PROVE Typed'
  <2>1. PICK i \in {0, context} \cup Indexes, p \in Pages :
          request' = [request EXCEPT ![q] = [index |-> i, page |-> p, since |-> changes]]
    BY <1>2 DEF QueryDirectory
  <2>2. i \in 0..MaxEntries /\ changes \in 0..MaxChanges
    <3>1. context \in 0..MaxEntries /\ 0 \in 0..MaxEntries /\ changes \in 0..MaxChanges
      BY Bounds DEF Typed
    <3>2. \A n \in Indexes : n \in 0..MaxEntries
      BY Constants
    <3> QED BY <3>1, <3>2
  <2>3. p \in [buffer : Nat, single : BOOLEAN]
    BY Constants
  <2>4. [index |-> i, page |-> p, since |-> changes] \in RequestRecords
    BY <2>2, <2>3 DEF RequestRecords
  <2>5. /\ request' \in [Queries -> RequestRecords]
        /\ \A r \in Queries : request'[r] = NoRequest \/ request'[r].page \in Pages
    BY <2>1, <2>4 DEF Typed
  <2>6. pattern' \in Patterns \cup {NoPattern, Unset}
    BY <1>2 DEF QueryDirectory, Typed
  <2> QED BY <1>2, <2>5, <2>6 DEF QueryDirectory, Typed, appVars, listVars
<1>3. ASSUME NEW q \in Queries, GiveUp(q) PROVE Typed'
  BY <1>3 DEF GiveUp, Typed, appVars, driverVars, listVars
<1>4. ASSUME NEW q \in Queries, AnswerUnknownClass(q) PROVE Typed'
  <2>1. [status |-> "NOT_IMPLEMENTED", page |-> <<>>, index |-> 0, failed |-> FALSE] \in AnswerRecords
    BY Bounds DEF Statuses, AnswerRecords
  <2>2. answer' \in [Queries -> AnswerRecords]
    BY <1>4, <2>1 DEF AnswerUnknownClass, Typed
  <2> QED BY <1>4, <2>2 DEF AnswerUnknownClass, Typed, appVars, driverVars, listVars
<1>5. ASSUME NEW q \in Queries, BeginQuery(q) PROVE Typed'
  <2>1. list' = <<>> \/ list' = list
    BY <1>5 DEF BeginQuery
  <2>2. list' \in Seq(Names) /\ Len(list') <= MaxEntries
    <3>1. CASE list' = <<>>
      BY <3>1, Bounds
    <3>2. CASE list' = list
      BY <3>2, TypedFacts
    <3> QED BY <2>1, <3>1, <3>2
  <2>3. event' \in [Queries -> {"none", "queued", "finding", "matching", "answering", "answered"}]
    BY <1>5 DEF BeginQuery, Typed
  <2> QED BY <1>5, <2>2, <2>3 DEF BeginQuery, Typed, appVars, driverVars
<1>6. ASSUME NEW q \in Queries, FindFiles(q) PROVE Typed'
  <2>1. list' \in Seq(Names) /\ Len(list') <= MaxEntries /\ listed' \in {listed, changes}
    <3>1. <<>> \in Seq(Names) /\ Len(<<>>) <= MaxEntries
      BY Constants
    <3> QED BY <1>6, <3>1, Found
  <2>2. answer' \in [Queries -> AnswerRecords]
    <3>1. ASSUME NEW status \in {"NO_SUCH_FILE", "NO_MORE_FILES"}
          PROVE  [status |-> status, page |-> <<>>, index |-> request[q].index, failed |-> TRUE]
                   \in AnswerRecords
      BY TypedFacts DEF Statuses, AnswerRecords
    <3>2. answer \in [Queries -> AnswerRecords]
      BY DEF Typed
    <3>3. \/ answer' = answer
          \/ \E status \in {"NO_SUCH_FILE", "NO_MORE_FILES"} :
               answer' = [answer EXCEPT ![q] = [status |-> status, page |-> <<>>,
                                                index |-> request[q].index, failed |-> TRUE]]
      BY <1>6, Found
    <3> QED BY <3>1, <3>2, <3>3
  <2>3. listed' \in 0..changes /\ listed <= listed'
    BY <2>1, TypedFacts
  <2>4. (\A n \in scan.readings : n <= listed') /\ scan.since <= listed'
    <3>1. scan.since <= listed /\ \A n \in scan.readings : n <= listed
      BY DEF Typed
    <3> QED BY <2>1, <2>3, <3>1, TypedFacts
  <2>5. /\ patternCheck' \in [Queries -> BOOLEAN]
        /\ event' \in [Queries -> {"none", "queued", "finding", "matching", "answering", "answered"}]
    BY <1>6 DEF FindFiles, Typed
  <2>6. UNCHANGED <<directory, changes, appVars, driverVars, irp, request, scan>>
    BY <1>6 DEF FindFiles
  <2> QED BY <2>1, <2>2, <2>3, <2>4, <2>5, <2>6 DEF Typed, appVars, driverVars
<1>7. ASSUME NEW q \in Queries, MatchFiles(q) PROVE Typed'
  <2>1. PICK page \in Seq(Names), n \in Nat :
          /\ page # <<>> => request[q].index + Len(page) <= n
          /\ n <= Len(list)
          /\ page = <<>> =>
               /\ answer' = [answer EXCEPT ![q] = [status |-> "NO_MORE_FILES", page |-> <<>>,
                                                   index |-> request[q].index, failed |-> FALSE]]
               /\ list' = <<>>
          /\ page # <<>> =>
               /\ answer' = [answer EXCEPT ![q] = [status |-> "SUCCESS", page |-> page,
                                                   index |-> request[q].index + Len(page),
                                                   failed |-> FALSE]]
               /\ list' = list
    <3>1. \A wanted \in Seq(Names) : Len(wanted) \in Nat
      OBVIOUS
    <3> QED BY <1>7, <3>1, Matched
  <2>2. list' \in Seq(Names) /\ Len(list') <= MaxEntries
    <3>1. list' = list \/ list' = <<>>
      BY <2>1
    <3>2. CASE list' = <<>>
      BY <3>2, Bounds
    <3>3. CASE list' = list
      BY <3>3, TypedFacts
    <3> QED BY <3>1, <3>2, <3>3
  <2>3. answer' \in [Queries -> AnswerRecords]
    <3>1. page # <<>> => request[q].index + Len(page) \in 0..MaxEntries
      <4>1. /\ request[q].index \in Nat /\ Len(page) \in Nat /\ Len(list) <= MaxEntries
            /\ Len(list) \in Nat /\ MaxEntries \in Nat
        BY TypedFacts, Bounds
      <4> QED BY <2>1, <4>1
    <3>2. page # <<>> => [status |-> "SUCCESS", page |-> page, index |-> request[q].index + Len(page),
                          failed |-> FALSE] \in AnswerRecords
      BY <3>1 DEF Statuses, AnswerRecords
    <3>3. [status |-> "NO_MORE_FILES", page |-> <<>>, index |-> request[q].index, failed |-> FALSE]
            \in AnswerRecords
      BY TypedFacts DEF Statuses, AnswerRecords
    <3>4. answer \in [Queries -> AnswerRecords]
      BY DEF Typed
    <3> QED BY <2>1, <3>2, <3>3, <3>4
  <2>4. event' \in [Queries -> {"none", "queued", "finding", "matching", "answering", "answered"}]
    BY <1>7 DEF MatchFiles, Typed
  <2>5. UNCHANGED <<directory, changes, appVars, driverVars, irp, request, patternCheck, listed, scan>>
    BY <1>7 DEF MatchFiles
  <2> QED BY <2>2, <2>3, <2>4, <2>5 DEF Typed, appVars, driverVars
<1>8. ASSUME NEW q \in Queries, Answer(q) PROVE Typed'
  <2>1. scan' \in ScanRecords /\ (\A n \in scan'.readings : n <= listed) /\ scan'.since <= listed
    <3>1. NoScan.readings = {} /\ NoScan.since = 0
      BY DEF NoScan
    <3>2. scan \in ScanRecords /\ (\A n \in scan.readings : n <= listed) /\ scan.since <= listed
      BY DEF Typed
    <3>3. scan' = scan \/ scan' = Extended(q)
      BY <1>8 DEF Answer
    <3>4. CASE scan' = Extended(q)
      <4>1. answer[q].status = "SUCCESS" /\ request[q].index = 0 => request[q].since <= listed
        BY TypedFacts DEF AnswerInv
      <4>2. scan' \in ScanRecords /\ scan'.since <= listed
        <5> DEFINE s == Extended(q)
        <5>1. /\ s \in ScanRecords
              /\ \/ s = NoScan \/ s.since = scan.since
                 \/ answer[q].status = "SUCCESS" /\ request[q].index = 0 /\ s.since = request[q].since
          BY ExtendedCases DEF Became
        <5>2. 0 <= listed
          BY TypedFacts
        <5> HIDE DEF s
        <5>3. scan' = s
          BY <3>4 DEF s
        <5> QED BY <3>1, <3>2, <4>1, <5>1, <5>2, <5>3
      <4>3. scan'.readings \subseteq scan.readings \cup {listed}
        BY <3>1, <3>4, ExtendedCases DEF Became
      <4> QED BY <3>2, <4>2, <4>3, TypedFacts
    <3> QED BY <3>2, <3>3, <3>4
  <2>2. /\ event' \in [Queries -> {"none", "queued", "finding", "matching", "answering", "answered"}]
        /\ irp' \in [Queries -> {"new", "pending", "done", "givenUp"}]
        /\ patternCheck' \in [Queries -> BOOLEAN]
        /\ context' \in 0..MaxEntries
    BY <1>8, TypedFacts DEF Answer, Typed
  <2>3. request' \in [Queries -> RequestRecords] /\ answer' \in [Queries -> AnswerRecords]
    <3>1. NoRequest \in RequestRecords /\ NoAnswer \in AnswerRecords
      BY Bounds DEF NoAnswer, NoRequest, Statuses, AnswerRecords, RequestRecords
    <3> QED BY <1>8, <3>1 DEF Answer, Typed
  <2>4. \A r \in Queries : request'[r] = NoRequest \/ request'[r].page \in Pages
    BY <1>8 DEF Answer, Typed
  <2>5. UNCHANGED <<directory, changes, appVars, pattern, listVars>>
    BY <1>8 DEF Answer
  <2> QED BY <2>1, <2>2, <2>3, <2>4, <2>5 DEF Typed, appVars, listVars
<1>9. ASSUME Change PROVE Typed'
  <2>1. changes' \in 0..MaxChanges /\ changes' = changes + 1
    BY <1>9, Constants DEF Change, Typed
  <2>2. listed \in 0..changes'
    BY <2>1, TypedFacts
  <2> QED BY <1>9, <2>1, <2>2 DEF Change, Typed, appVars, driverVars, listVars
<1> QED BY <1>1, <1>2, <1>3, <1>4, <1>5, <1>6, <1>7, <1>8, <1>9 DEF Next

\* The queries, and their events, go on one after the other.
LEMMA OrderKept ==
  ASSUME Typed, OrderInv, Alone, [Next]_vars
  PROVE  OrderInv'
<1>1. CASE UNCHANGED vars
  BY <1>1 DEF OrderInv, vars, appVars, driverVars, listVars
<1>2. ASSUME NEW q \in Queries, QueryDirectory(q) PROVE OrderInv'
  <2>1. \A r \in Queries : q < r => irp[r] = "new" /\ event[r] = "none"
    BY <1>2 DEF QueryDirectory, OrderInv
  <2>2. pattern' # Unset \/ pattern' = pattern
    BY <1>2 DEF QueryDirectory
  <2>3. /\ irp' = [irp EXCEPT ![q] = "pending"] /\ event' = [event EXCEPT ![q] = "queued"]
        /\ UNCHANGED <<list, scan>>
        /\ irp[q] = "new" /\ event[q] = "none"
        /\ \A p \in 1 .. q - 1 : irp[p] \notin {"new", "pending"}
    BY <1>2 DEF QueryDirectory, listVars, OrderInv
  <2>4. pattern' # Unset
    <3>1. NoPattern # Unset
      BY DEF NoPattern, Unset
    <3> QED BY <1>2, <3>1, DirectoryListingAssumption DEF QueryDirectory
  <2>5. ASSUME NEW p \in Queries, NEW r \in Queries, p < r
        PROVE  /\ irp'[r] # "new" => irp'[p] \notin {"new", "pending"}
               /\ event'[r] \notin {"none", "queued"} => event'[p] = "answered"
    <3>1. CASE r = q
      <4>1. p \in 1 .. q - 1 /\ p # q
        BY <2>5, <3>1, Bounds DEF Queries
      <4> QED BY <2>3, <3>1, <4>1 DEF Typed
    <3>2. CASE r # q
      <4>1. p = q => irp[r] = "new" /\ event[r] = "none"
        BY <2>1, <2>5
      <4> QED BY <2>3, <2>5, <3>2, <4>1 DEF OrderInv, Typed
    <3> QED BY <3>1, <3>2
  <2>6. ASSUME NEW r \in Queries
        PROVE  /\ event'[r] = "none" <=> irp'[r] = "new"
               /\ event'[r] = "answered" => irp'[r] \in {"done", "givenUp"}
               /\ irp'[r] = "done" => event'[r] = "answered"
               /\ event'[r] \in {"queued", "finding", "matching", "answering"}
                    => request'[r].page \in Pages
    <3>1. r # q => request'[r] = request[r]
      BY <1>2 DEF QueryDirectory, Typed
    <3>2. request'[q].page \in Pages
      BY <1>2 DEF QueryDirectory, Typed
    <3> QED BY <2>3, <3>1, <3>2 DEF OrderInv, Typed
  <2> QED BY <2>4, <2>5, <2>6 DEF OrderInv
<1>3. ASSUME NEW q \in Queries, GiveUp(q) PROVE OrderInv'
  BY <1>3 DEF GiveUp, OrderInv, Typed, appVars, driverVars, listVars
<1>4. ASSUME NEW q \in Queries, AnswerUnknownClass(q) PROVE OrderInv'
  <2>1. /\ event' = [event EXCEPT ![q] = "answering"] /\ event[q] = "queued"
        /\ UNCHANGED <<irp, request, pattern, list, scan>>
    BY <1>4 DEF AnswerUnknownClass, Taken, driverVars, listVars
  <2>2. /\ \A p \in Queries : p < q => event[p] = "answered"
        /\ \A p \in Queries : p # q /\ ~(p < q) => event[p] \in {"none", "queued"}
    BY <1>4, TakenLast DEF AnswerUnknownClass
  <2>3. ASSUME NEW p \in Queries, NEW r \in Queries, p < r,
               event'[r] \notin {"none", "queued"}
        PROVE  event'[p] = "answered"
    <3>1. ~(r < p) /\ p # r
      BY <2>3, Bounds DEF Queries
    <3>2. p # q
      BY <2>1, <2>2, <2>3, <3>1 DEF Typed
    <3>3. event'[p] = event[p]
      BY <2>1, <3>2 DEF Typed
    <3>4. r = q \/ event'[r] = event[r]
      BY <2>1 DEF Typed
    <3> QED BY <2>2, <2>3, <3>3, <3>4 DEF OrderInv
  <2> QED BY <2>1, <2>3 DEF OrderInv, Typed
<1>5. ASSUME NEW q \in Queries, BeginQuery(q) PROVE OrderInv'
  <2>1. /\ event' = [event EXCEPT ![q] = "finding"] \/ event' = [event EXCEPT ![q] = "matching"]
        /\ event[q] = "queued"
        /\ UNCHANGED <<irp, request, pattern, scan>>
        /\ list = <<>> => list' = <<>>
    BY <1>5 DEF BeginQuery, Taken, driverVars, listVars
  <2>2. /\ \A p \in Queries : p < q => event[p] = "answered"
        /\ \A p \in Queries : p # q /\ ~(p < q) => event[p] \in {"none", "queued"}
    BY <1>5, TakenLast DEF BeginQuery
  <2>3. ASSUME NEW p \in Queries, NEW r \in Queries, p < r,
               event'[r] \notin {"none", "queued"}
        PROVE  event'[p] = "answered"
    <3>1. ~(r < p) /\ p # r
      BY <2>3, Bounds DEF Queries
    <3>2. p # q
      BY <2>1, <2>2, <2>3, <3>1 DEF Typed
    <3>3. event'[p] = event[p]
      BY <2>1, <3>2 DEF Typed
    <3>4. r = q \/ event'[r] = event[r]
      BY <2>1 DEF Typed
    <3> QED BY <2>2, <2>3, <3>3, <3>4 DEF OrderInv
  <2> QED BY <2>1, <2>3 DEF OrderInv, Typed
<1>6. ASSUME NEW q \in Queries, FindFiles(q) PROVE OrderInv'
  <2>1. /\ event' = [event EXCEPT ![q] = "matching"] \/ event' = [event EXCEPT ![q] = "answering"]
        /\ event[q] = "finding"
        /\ UNCHANGED <<irp, request, pattern, scan>>
    BY <1>6 DEF FindFiles, driverVars
  <2>2. pattern # Unset
    BY <2>1 DEF OrderInv
  <2> QED BY <2>1, <2>2 DEF OrderInv, Typed
<1>7. ASSUME NEW q \in Queries, MatchFiles(q) PROVE OrderInv'
  <2>1. /\ event' = [event EXCEPT ![q] = "answering"] /\ event[q] = "matching"
        /\ UNCHANGED <<irp, request, pattern, scan>>
    BY <1>7 DEF MatchFiles, driverVars
  <2>2. pattern # Unset
    BY <2>1 DEF OrderInv
  <2> QED BY <2>1, <2>2 DEF OrderInv, Typed
<1>8. ASSUME NEW q \in Queries, Answer(q) PROVE OrderInv'
  <2>1. /\ event' = [event EXCEPT ![q] = "answered"] /\ event[q] = "answering"
        /\ irp' = [irp EXCEPT ![q] = IF irp[q] = "pending" THEN "done" ELSE irp[q]]
        /\ request' = [request EXCEPT ![q] = NoRequest]
        /\ UNCHANGED pattern
    BY <1>8 DEF Answer, Typed
  <2>2. pattern # Unset
    BY <2>1 DEF OrderInv
  <2>3. irp[q] \in {"pending", "givenUp"}
    BY <2>1 DEF OrderInv, Typed
  <2> QED BY <2>1, <2>2, <2>3 DEF OrderInv, Typed
<1>9. ASSUME Change PROVE OrderInv'
  BY <1>9 DEF Change, OrderInv, appVars, driverVars, listVars
<1> QED BY <1>1, <1>2, <1>3, <1>4, <1>5, <1>6, <1>7, <1>8, <1>9 DEF Next

\* The list is filled at once, when it is empty.
LEMMA ListKept ==
  ASSUME Typed, OrderInv, ListInv, Alone, [Next]_vars
  PROVE  ListInv'
<1>1. CASE UNCHANGED vars
  BY <1>1, PatternKept DEF ListInv, Valid, Reading, vars, appVars, driverVars, listVars
<1>2. ASSUME NEW q \in Queries, QueryDirectory(q) PROVE ListInv'
  <2>1. /\ event' = [event EXCEPT ![q] = "queued"]
        /\ UNCHANGED <<directory, changes, callback, selects, patternCheck, list, listed>>
        /\ pattern' = pattern \/ pattern = Unset
    BY <1>2 DEF QueryDirectory, appVars, listVars
  <2>2. Valid' => Valid
    BY <2>1 DEF Valid, Typed
  <2>3. CASE pattern' = pattern
    BY <2>1, <2>2, <2>3, PatternKept DEF ListInv, Reading, Typed
  <2>4. CASE pattern = Unset
    <3>1. ~Valid /\ list = <<>>
      BY <2>4 DEF OrderInv, Valid
    <3> QED BY <2>1, <2>2, <3>1 DEF ListInv, Typed
  <2> QED BY <2>1, <2>3, <2>4
<1>3. ASSUME NEW q \in Queries, GiveUp(q) PROVE ListInv'
  BY <1>3, PatternKept DEF GiveUp, ListInv, Valid, Reading, appVars, driverVars, listVars
<1>4. ASSUME NEW q \in Queries, AnswerUnknownClass(q) PROVE ListInv'
  <2>1. /\ event' = [event EXCEPT ![q] = "answering"]
        /\ UNCHANGED <<directory, changes, callback, selects, pattern, patternCheck, list, listed>>
    BY <1>4 DEF AnswerUnknownClass, appVars, driverVars, listVars
  <2>2. Valid' => Valid
    BY <2>1 DEF Valid, Typed
  <2> QED BY <2>1, <2>2, PatternKept DEF ListInv, Reading, Typed
<1>5. ASSUME NEW q \in Queries, BeginQuery(q) PROVE ListInv'
  <2>1. /\ \/ list' = <<>> /\ event' = [event EXCEPT ![q] = "finding"]
           \/ list' = list /\ list # <<>> /\ event' = [event EXCEPT ![q] = "matching"]
        /\ UNCHANGED <<directory, changes, callback, selects, pattern, patternCheck, listed>>
        /\ \A p \in Queries : event[p] \notin {"finding", "matching"}
    BY <1>5, TakenLast DEF BeginQuery, appVars, driverVars, InDispatch
  <2>2. CASE list' = <<>> /\ event' = [event EXCEPT ![q] = "finding"]
    <3>1. ~Valid'
      BY <2>1, <2>2 DEF Valid, Typed
    <3> QED BY <2>1, <2>2, <3>1 DEF ListInv, Typed
  <2>3. CASE list' = list /\ list # <<>> /\ event' = [event EXCEPT ![q] = "matching"]
    <3>1. Valid
      BY <2>3 DEF Valid
    <3> QED BY <2>1, <2>3, <3>1, PatternKept DEF ListInv, Reading, Typed
  <2> QED BY <2>1, <2>2, <2>3
<1>6. ASSUME NEW q \in Queries, FindFiles(q) PROVE ListInv'
  <2>1. /\ patternCheck' = [patternCheck EXCEPT ![q] = (callback = "FindFiles")]
        /\ UNCHANGED <<directory, changes, callback, selects, pattern>>
        /\ event[q] = "finding"
        /\ \A p \in Queries : p # q => event[p] \notin {"finding", "matching"}
    <3>1. \A p \in Queries : event[p] \in {"finding", "matching"} => p = q
      BY <1>6, OneInDispatch DEF FindFiles, InDispatch
    <3> QED BY <1>6, <3>1 DEF FindFiles, appVars, driverVars
  <2>2. \A p \in Queries : ~patternCheck'[p] => callback # "FindFiles"
    BY <2>1 DEF ListInv, Typed
  <2>3. \A p \in Queries : event'[p] # "finding"
    BY <1>6, <2>1, Found DEF Typed
  <2>4. CASE /\ listed' = changes
             /\ Agree => /\ list' = Reading
                         /\ callback # "FindFiles" => \A i \in 1 .. Len(list') : list'[i] \in Matching
    BY <2>1, <2>2, <2>3, <2>4, PatternKept DEF ListInv, Reading
  <2>5. CASE list' = <<>> /\ event' = [event EXCEPT ![q] = "answering"]
    <3>1. ~Valid'
      BY <2>1, <2>5 DEF Valid, Typed
    <3> QED BY <2>1, <2>2, <2>3, <2>5, <3>1 DEF ListInv
  <2> QED BY <1>6, <2>4, <2>5, Found
<1>7. ASSUME NEW q \in Queries, MatchFiles(q) PROVE ListInv'
  <2>1. /\ event' = [event EXCEPT ![q] = "answering"] /\ event[q] = "matching"
        /\ UNCHANGED <<directory, changes, callback, selects, pattern, patternCheck, listed>>
    BY <1>7 DEF MatchFiles, appVars, driverVars
  <2>2. list' = list \/ list' = <<>>
    BY <1>7, Matched
  <2>3. (Valid' => Valid /\ list' = list) /\ Valid
    <3>1. \A p \in Queries : event'[p] # "matching"
      <4>1. \A p \in Queries : event[p] = "matching" => p = q
        BY <2>1, OneInDispatch DEF InDispatch
      <4> QED BY <2>1, <4>1 DEF Typed
    <3> QED BY <2>1, <2>2, <3>1 DEF Valid, Typed
  <2>4. CASE list' = list
    BY <2>1, <2>3, <2>4, PatternKept DEF ListInv, Reading, Typed
  <2>5. CASE list' = <<>>
    BY <2>1, <2>3, <2>5, PatternKept DEF ListInv, Reading, Typed
  <2> QED BY <2>2, <2>4, <2>5
<1>8. ASSUME NEW q \in Queries, Answer(q) PROVE ListInv'
  <2>1. /\ event' = [event EXCEPT ![q] = "answered"]
        /\ patternCheck' = [patternCheck EXCEPT ![q] = TRUE]
        /\ UNCHANGED <<directory, changes, callback, selects, pattern, list, listed>>
    BY <1>8 DEF Answer, appVars, listVars
  <2>2. Valid' => Valid
    BY <2>1 DEF Valid, Typed
  <2> QED BY <2>1, <2>2, PatternKept DEF ListInv, Reading, Typed
<1>9. ASSUME Change PROVE ListInv'
  <2>1. /\ UNCHANGED <<callback, selects, pattern, event, patternCheck, list, listed>>
        /\ changes' = changes + 1
    BY <1>9 DEF Change, appVars, driverVars, listVars
  <2>2. listed' # changes'
    BY <2>1, TypedFacts
  <2> QED BY <2>1, <2>2, PatternKept DEF ListInv
<1> QED BY <1>1, <1>2, <1>3, <1>4, <1>5, <1>6, <1>7, <1>8, <1>9 DEF Next

\* An answer is cut from the list while no other query touches it.
LEMMA AnswerKept ==
  ASSUME Typed, OrderInv, ListInv, AnswerInv, ScanInv, Alone, [Next]_vars
  PROVE  AnswerInv'
<1>0. NoAnswer.status = "none" /\ NoRequest.since = 0 /\ NoRequest.index = 0
  BY DEF NoAnswer, NoRequest
<1>1. CASE UNCHANGED vars
  BY <1>1, PatternKept DEF AnswerInv, Expected, vars, appVars, driverVars, listVars
<1>2. ASSUME NEW q \in Queries, QueryDirectory(q) PROVE AnswerInv'
  <2>1. /\ event[q] = "none" /\ event' = [event EXCEPT ![q] = "queued"]
        /\ UNCHANGED <<changes, callback, selects, answer, list, listed, scan>>
        /\ pattern' = pattern \/ pattern = Unset
        /\ request'[q].since = changes
        /\ \A r \in Queries : r # q => request'[r] = request[r]
    BY <1>2 DEF QueryDirectory, OrderInv, Typed, appVars, listVars
  <2>2. answer[q] = NoAnswer
    BY <2>1 DEF AnswerInv
  <2>3. request'[q].since <= changes
    BY <2>1, TypedFacts
  <2>4. CASE pattern' = pattern
    BY <1>0, <2>1, <2>2, <2>3, <2>4, PatternKept DEF AnswerInv, Expected, Typed
  <2>5. CASE pattern = Unset
    <3>1. \A r \in Queries : event[r] = "none" /\ answer[r] = NoAnswer
      BY <2>5 DEF OrderInv, AnswerInv
    <3> QED BY <1>0, <2>1, <2>3, <3>1 DEF AnswerInv, Typed
  <2> QED BY <2>1, <2>4, <2>5
<1>3. ASSUME NEW q \in Queries, GiveUp(q) PROVE AnswerInv'
  BY <1>3, PatternKept DEF GiveUp, AnswerInv, Expected, appVars, driverVars, listVars
<1>4. ASSUME NEW q \in Queries, AnswerUnknownClass(q) PROVE AnswerInv'
  <2>1. /\ event' = [event EXCEPT ![q] = "answering"]
        /\ answer'[q].status = "NOT_IMPLEMENTED"
        /\ \A r \in Queries : r # q => answer'[r] = answer[r]
        /\ UNCHANGED <<changes, callback, selects, pattern, request, list, listed, scan>>
    BY <1>4 DEF AnswerUnknownClass, Typed, appVars, driverVars, listVars
  <2> QED BY <2>1, PatternKept DEF AnswerInv, Expected, Typed
<1>5. ASSUME NEW q \in Queries, BeginQuery(q) PROVE AnswerInv'
  <2>1. /\ \/ event' = [event EXCEPT ![q] = "finding"]
           \/ event' = [event EXCEPT ![q] = "matching"] /\ request[q].index # 0
        /\ UNCHANGED <<changes, request, answer, listed>>
    BY <1>5 DEF BeginQuery, appVars, driverVars
  <2>2. \A r \in Queries : answer[r] = NoAnswer
    BY <1>5, TakenLast DEF BeginQuery, InDispatch, AnswerInv
  <2> QED BY <1>0, <2>1, <2>2 DEF AnswerInv, Typed
<1>6. ASSUME NEW q \in Queries, FindFiles(q) PROVE AnswerInv'
  <2>1. /\ event[q] = "finding"
        /\ UNCHANGED <<changes, request>>
        /\ \A r \in Queries : answer[r] = NoAnswer
        /\ \A r \in Queries : r # q => event[r] # "matching"
    <3>1. \A r \in Queries : event[r] \in {"answering", "matching"} => r = q
      BY <1>6, OneInDispatch DEF FindFiles, InDispatch
    <3> QED BY <1>6, <3>1 DEF FindFiles, AnswerInv
  <2>2. CASE listed' = changes /\ event' = [event EXCEPT ![q] = "matching"] /\ answer' = answer
    <3>1. \A r \in Queries : request'[r].since <= changes' /\ listed' >= request'[r].since
      BY <2>1, <2>2, TypedFacts DEF AnswerInv
    <3>2. \A r \in Queries : answer'[r] = NoAnswer /\ event'[r] # "answering"
      <4>1. \A r \in Queries : event[r] # "answering"
        BY <1>6, OneInDispatch DEF FindFiles, InDispatch
      <4> QED BY <2>1, <2>2, <4>1 DEF Typed
    <3> QED BY <1>0, <3>1, <3>2 DEF AnswerInv
  <2>3. CASE /\ event' = [event EXCEPT ![q] = "answering"]
             /\ \E status \in {"NO_SUCH_FILE", "NO_MORE_FILES"} :
                  answer' = [answer EXCEPT ![q] = [status |-> status, page |-> <<>>,
                                                   index |-> request[q].index, failed |-> TRUE]]
    <3>1. /\ answer'[q].status \in {"NO_SUCH_FILE", "NO_MORE_FILES"} /\ answer'[q].failed
          /\ \A r \in Queries : r # q => answer'[r] = NoAnswer
      BY <2>1, <2>3 DEF Typed
    <3> QED BY <1>0, <2>1, <2>3, <3>1 DEF AnswerInv, Typed
  <2> QED BY <1>6, <2>2, <2>3, Found
<1>7. ASSUME NEW q \in Queries, MatchFiles(q) PROVE AnswerInv'
  <2> DEFINE from == request[q].index
  <2>1. /\ event[q] = "matching" /\ event' = [event EXCEPT ![q] = "answering"]
        /\ UNCHANGED <<changes, callback, selects, pattern, request, listed, scan>>
    BY <1>7 DEF MatchFiles, appVars, driverVars
  <2>2. \A r \in Queries : r # q => answer[r] = NoAnswer
    BY <2>1, OneInDispatch DEF InDispatch, AnswerInv
  <2>3. PICK wanted \in Seq(Names), page \in Seq(Names) :
           /\ Len(wanted) <= Len(list)
           /\ Agree => wanted = Chosen(list, Matching)
           /\ page # <<>> => /\ from + Len(page) <= Len(wanted) /\ Len(page) > 0
                             /\ page = SubSeq(wanted, from + 1, from + Len(page))
           /\ page = <<>> => Len(wanted) <= from \/ Size[wanted[from + 1]] > request[q].page.buffer
           /\ page = <<>> =>
                /\ answer' = [answer EXCEPT ![q] = [status |-> "NO_MORE_FILES", page |-> <<>>,
                                                    index |-> from, failed |-> FALSE]]
                /\ list' = <<>>
           /\ page # <<>> =>
                /\ answer' = [answer EXCEPT ![q] = [status |-> "SUCCESS", page |-> page,
                                                    index |-> from + Len(page), failed |-> FALSE]]
                /\ list' = list
    BY <1>7, Matched
  <2>4. \A r \in Queries : request'[r].since <= changes'
    BY <2>1 DEF AnswerInv
  <2>5. \A r \in Queries : r # q => answer'[r] = NoAnswer /\ event'[r] # "answering"
    <3>1. \A r \in Queries : event[r] = "answering" => r = q
      BY <2>1, OneInDispatch DEF InDispatch
    <3> QED BY <2>1, <2>2, <2>3, <3>1 DEF Typed
  <2>6. \A r \in Queries : event'[r] # "matching"
    <3>1. \A r \in Queries : event[r] = "matching" => r = q
      BY <2>1, OneInDispatch DEF InDispatch
    <3> QED BY <2>1, <3>1 DEF Typed
  <2>7. CASE page = <<>>
    <3>1. answer'[q].status = "NO_MORE_FILES"
      BY <2>3, <2>7 DEF Typed
    <3>2. ASSUME Agree, scan.readings = {listed}
          PROVE  Len(Expected) <= from \/ Size[Expected[from + 1]] > request[q].page.buffer
      <4>1. list = scan.found
        BY <2>1, <3>2 DEF ScanInv, Valid
      <4> QED BY <2>3, <2>7, <3>2, <4>1 DEF Expected
    <3>3. Agree' = Agree /\ Expected' = Expected
      BY <2>1, PatternKept DEF Expected
    <3> QED BY <1>0, <2>1, <2>4, <2>5, <2>6, <3>1, <3>2, <3>3 DEF AnswerInv
  <2>8. CASE page # <<>>
    <3>1. /\ answer'[q].status = "SUCCESS" /\ answer'[q].page = page
          /\ answer'[q].index = from + Len(page) /\ list' = list
      BY <2>3, <2>8 DEF Typed
    <3>2. list # <<>>
      <4>1. Len(list) > 0
        BY <2>3, <2>8, TypedFacts
      <4> QED BY <4>1
    <3>3. from = 0 => listed >= request[q].since
      BY <2>1 DEF AnswerInv
    <3>4. Agree' = Agree /\ Matching' = Matching
      BY <2>1, PatternKept
    <3>5. Agree => /\ answer'[q].index <= Len(Chosen(list', Matching))
                   /\ answer'[q].page = SubSeq(Chosen(list', Matching), from + 1, answer'[q].index)
      BY <2>3, <2>8, <3>1
    <3>6. request' = request /\ listed' = listed /\ page # <<>> /\ list' # <<>>
      BY <2>1, <2>8, <3>1, <3>2
    <3>7. /\ answer'[q].status # "none" /\ answer'[q].status # "NO_MORE_FILES"
          /\ answer'[q].index = request'[q].index + Len(answer'[q].page)
          /\ request'[q].index = 0 => listed' >= request'[q].since
          /\ Agree' => /\ answer'[q].index <= Len(Chosen(list', Matching'))
                       /\ answer'[q].page =
                            SubSeq(Chosen(list', Matching'), request'[q].index + 1, answer'[q].index)
      BY <3>1, <3>3, <3>4, <3>5, <3>6
    <3>8. event'[q] = "answering"
      BY <2>1 DEF Typed
    <3> QED BY <1>0, <2>4, <2>5, <2>6, <3>1, <3>6, <3>7, <3>8 DEF AnswerInv
  <2> QED BY <2>7, <2>8
<1>8. ASSUME NEW q \in Queries, Answer(q) PROVE AnswerInv'
  <2>1. /\ event[q] = "answering" /\ event' = [event EXCEPT ![q] = "answered"]
        /\ request' = [request EXCEPT ![q] = NoRequest] /\ answer' = [answer EXCEPT ![q] = NoAnswer]
        /\ UNCHANGED <<changes, listed>>
    BY <1>8 DEF Answer, listVars
  <2>2. \A r \in Queries : r # q => answer[r] = NoAnswer /\ event[r] \notin {"matching", "answering"}
    BY <2>1, OneInDispatch DEF InDispatch, AnswerInv
  <2>3. \A r \in Queries : request'[r].since <= changes'
    BY <1>0, <2>1, TypedFacts DEF AnswerInv, Typed
  <2>4. \A r \in Queries : answer'[r] = NoAnswer /\ event'[r] \notin {"matching", "answering"}
    BY <2>1, <2>2 DEF Typed
  <2> QED BY <1>0, <2>3, <2>4 DEF AnswerInv
<1>9. ASSUME Change PROVE AnswerInv'
  <2>1. /\ UNCHANGED <<callback, selects, pattern, event, request, answer, list, listed, scan>>
        /\ changes' = changes + 1
    BY <1>9 DEF Change, appVars, driverVars, listVars
  <2>2. \A r \in Queries : request'[r].since <= changes'
    BY <2>1, TypedFacts DEF AnswerInv
  <2> QED BY <2>1, <2>2, PatternKept DEF AnswerInv, Expected
<1> QED BY <1>1, <1>2, <1>3, <1>4, <1>5, <1>6, <1>7, <1>8, <1>9 DEF Next

\* What the issuer has after an answer.
LEMMA ExtendedInOrder ==
  ASSUME Typed, OrderInv, ListInv, AnswerInv, ScanInv, NEW q \in Queries, event[q] = "answering",
         NEW s, s = Extended(q)
  PROVE  /\ \A n \in s.readings : s.since <= n
         /\ s = NoScan \/ (s.at = Len(s.names) /\ s.at \in 1..MaxEntries /\ s.readings # {})
         /\ Agree =>
              /\ s.readings = {changes} => s.found = Reading
              /\ Valid /\ s.readings = {listed} => list = s.found
              /\ \A n \in 0..MaxChanges : s.readings = {n} =>
                   /\ IsPrefix(s.names, Chosen(s.found, Matching))
                   /\ s.end = "reached" =>
                        \/ s.names = Chosen(s.found, Matching)
                        \/ Size[Chosen(s.found, Matching)[Len(s.names) + 1]] > s.buffer
<1> DEFINE a == answer[q]
           r == request[q]
<1>1. CASE s = NoScan
  <2>1. s.readings = {}
    BY <1>1 DEF NoScan
  <2> QED BY <1>1, <2>1
<1>2. ASSUME a.status = "SUCCESS"
      PROVE  /\ list # <<>> /\ Valid /\ a.page # <<>> /\ a.page \in Seq(Names) /\ Len(a.page) > 0
             /\ a.index = r.index + Len(a.page) /\ a.index \in 1..MaxEntries
             /\ r.index = 0 => listed >= r.since
             /\ Agree => /\ a.index <= Len(Chosen(list, Matching))
                         /\ a.page = SubSeq(Chosen(list, Matching), r.index + 1, a.index)
  <2>1. /\ list # <<>> /\ a.page # <<>> /\ a.index = r.index + Len(a.page)
        /\ r.index = 0 => listed >= r.since
        /\ Agree => /\ a.index <= Len(Chosen(list, Matching))
                    /\ a.page = SubSeq(Chosen(list, Matching), r.index + 1, a.index)
    BY <1>2 DEF AnswerInv
  <2>2. a.page \in Seq(Names) /\ r.index \in 0..MaxEntries /\ a.index \in 0..MaxEntries
    BY TypedFacts
  <2> HIDE DEF a, r
  <2>3. Len(a.page) > 0
    BY <2>1, <2>2
  <2> QED BY <2>1, <2>2, <2>3, Bounds DEF Valid
<1>3. ASSUME NEW found \in Seq(Names) PROVE Chosen(found, Matching) \in Seq(Names)
  BY ChosenType
<1>4. CASE /\ a.status = "SUCCESS" /\ r.index = 0
           /\ s.at = a.index /\ s.names = a.page /\ s.found = list
           /\ s.readings = {listed} /\ s.since = r.since /\ s.end = "no"
  <2> HIDE DEF a, r
  <2>1. s.at = Len(s.names)
    BY <1>2, <1>4
  <2>2. ASSUME Agree PROVE IsPrefix(s.names, Chosen(s.found, Matching))
    <3> DEFINE e == Chosen(list, Matching)
    <3>1. e \in Seq(Names)
      BY <1>3, TypedFacts
    <3> HIDE DEF e
    <3>2. a.index \in Nat /\ a.index <= Len(e) /\ a.page = SubSeq(e, 0 + 1, a.index)
      BY <1>2, <1>4, <2>2 DEF e
    <3>3. Len(a.page) = a.index - 0 /\ \A i \in 1 .. a.index - 0 : a.page[i] = e[0 + i]
      BY <3>1, <3>2, PartOf
    <3>4. Len(a.page) <= Len(e) /\ \A i \in 1 .. Len(a.page) : a.page[i] = e[i]
      BY <3>1, <3>2, <3>3
    <3>5. IsPrefix(a.page, e)
      BY <1>2, <1>4, <3>1, <3>4, PrefixMembers
    <3> QED BY <1>4, <3>5 DEF e
  <2>3. Agree /\ listed = changes => list = Reading
    BY <1>2, <1>4 DEF ListInv
  <2> QED BY <1>2, <1>4, <2>1, <2>2, <2>3
<1>5. CASE /\ a.status = "SUCCESS" /\ r.index # 0 /\ r.index = scan.at /\ scan.end = "no"
           /\ s.at = a.index /\ s.names = scan.names \o a.page
           /\ s.found = scan.found /\ s.readings = scan.readings \cup {listed}
           /\ s.since = scan.since /\ s.end = "no"
  <2>0. /\ scan.names \in Seq(Names) /\ scan.found \in Seq(Names) /\ r.index \in 0..MaxEntries
        /\ listed \in 0..MaxChanges
    BY TypedFacts, Bounds
  <2> HIDE DEF a, r
  <2>1. scan # NoScan
    BY <1>5, <2>0, Bounds DEF NoScan
  <2>2. scan.at = Len(scan.names) /\ scan.readings # {}
    BY <2>1 DEF ScanInv
  <2>3. s.at = Len(s.names) /\ s.at \in 1..MaxEntries /\ s.readings # {}
    <3>1. Len(scan.names \o a.page) = Len(scan.names) + Len(a.page)
      BY <1>2, <1>5, <2>0
    <3> QED BY <1>2, <1>5, <2>2, <3>1
  <2>4. \A n \in s.readings : s.since <= n
    <3>1. scan.since <= listed
      BY DEF Typed
    <3> QED BY <1>5, <3>1 DEF ScanInv
  <2>5. ASSUME NEW n, s.readings = {n} PROVE n = listed /\ scan.readings = {listed}
    BY <1>5, <2>2, <2>5
  <2>6. ASSUME Agree, scan.readings = {listed} PROVE IsPrefix(s.names, Chosen(s.found, Matching))
    <3>1. list = scan.found
      BY <1>2, <1>5, <2>6 DEF ScanInv
    <3>2. IsPrefix(scan.names, Chosen(scan.found, Matching))
      BY <2>0, <2>6 DEF ScanInv, Expected
    <3> DEFINE e == Chosen(scan.found, Matching)
    <3>3. e \in Seq(Names)
      BY <1>3, <2>0
    <3>4. Len(scan.names) + Len(a.page) <= Len(e)
          /\ a.page = SubSeq(e, Len(scan.names) + 1, Len(scan.names) + Len(a.page))
      BY <1>2, <1>5, <2>2, <2>6, <3>1
    <3> HIDE DEF e
    <3>5. IsPrefix(scan.names \o a.page, e)
      BY <1>2, <1>5, <2>0, <3>2, <3>3, <3>4, PrefixExtends DEF e
    <3> QED BY <1>5, <3>5 DEF e
  <2>7. Agree => /\ s.readings = {changes} => s.found = Reading
                 /\ Valid /\ s.readings = {listed} => list = s.found
    BY <1>5, <2>5 DEF ScanInv
  <2> QED BY <1>5, <2>3, <2>4, <2>5, <2>6, <2>7
<1>6. CASE /\ a.status = "NO_MORE_FILES" /\ r.index = scan.at /\ scan.end = "no"
           /\ s.at = scan.at /\ s.names = scan.names /\ s.found = scan.found
           /\ s.readings = scan.readings \cup {listed} /\ s.since = scan.since
           /\ s.end = (IF a.failed THEN "failed" ELSE "reached")
           /\ s.buffer = r.page.buffer
  <2>0. /\ scan.names \in Seq(Names) /\ scan.found \in Seq(Names) /\ r.index \in 0..MaxEntries
        /\ listed \in 0..MaxChanges /\ a.failed \in BOOLEAN
    BY TypedFacts, Bounds
  <2>9. ASSUME ~a.failed, Agree, scan.readings = {listed}
        PROVE  \/ Len(Expected) <= r.index
               \/ Size[Expected[r.index + 1]] > r.page.buffer
    BY <1>6, <2>9 DEF AnswerInv
  <2> HIDE DEF a, r
  <2>1. scan # NoScan
    BY <1>6, <2>0, Bounds DEF NoScan
  <2>2. scan.at = Len(scan.names) /\ scan.at \in 1..MaxEntries /\ scan.readings # {}
    BY <2>1 DEF ScanInv
  <2>4. \A n \in s.readings : s.since <= n
    <3>1. scan.since <= listed
      BY DEF Typed
    <3> QED BY <1>6, <3>1 DEF ScanInv
  <2>5. ASSUME NEW n, s.readings = {n} PROVE n = listed /\ scan.readings = {listed}
    BY <1>6, <2>2, <2>5
  <2>6. ASSUME Agree, scan.readings = {listed}
        PROVE  /\ IsPrefix(s.names, Chosen(s.found, Matching))
               /\ s.end = "reached" =>
                    \/ s.names = Chosen(s.found, Matching)
                    \/ Size[Chosen(s.found, Matching)[Len(s.names) + 1]] > s.buffer
    <3>1. IsPrefix(scan.names, Expected)
      BY <2>0, <2>6 DEF ScanInv
    <3>2. Expected \in Seq(Names)
      BY <1>3, <2>0 DEF Expected
    <3>3. ASSUME ~a.failed, Len(Expected) <= r.index PROVE scan.names = Expected
      BY <1>6, <2>0, <2>2, <3>1, <3>2, <3>3, PrefixWhole
    <3>4. Expected = Chosen(s.found, Matching)
      BY <1>6 DEF Expected
    <3> QED BY <1>6, <2>2, <2>6, <2>9, <3>1, <3>3, <3>4
  <2>7. Agree => /\ s.readings = {changes} => s.found = Reading
                 /\ Valid /\ s.readings = {listed} => list = s.found
    BY <1>6, <2>5 DEF ScanInv
  <2> QED BY <1>6, <2>2, <2>4, <2>5, <2>6, <2>7
<1>7. Became(s, q)
  BY ExtendedCases
<1> QED BY <1>1, <1>4, <1>5, <1>6, <1>7 DEF Became

\* The scan grows by what the list has next.
LEMMA ScanKept ==
  ASSUME Typed, OrderInv, ListInv, AnswerInv, ScanInv, Alone, [Next]_vars
  PROVE  ScanInv'
<1>0. /\ NoScan.readings = {}
      /\ \A n \in 0..MaxChanges : n \notin {}
  BY DEF NoScan
<1>1. CASE UNCHANGED vars
  BY <1>1, PatternKept DEF ScanInv, Expected, Valid, Reading, vars, appVars, driverVars,
     listVars
<1>2. ASSUME NEW q \in Queries, QueryDirectory(q) PROVE ScanInv'
  <2>1. /\ event' = [event EXCEPT ![q] = "queued"]
        /\ UNCHANGED <<directory, changes, callback, selects, list, listed, scan>>
        /\ pattern' = pattern \/ pattern = Unset
    BY <1>2 DEF QueryDirectory, appVars, listVars
  <2>2. Valid' => Valid
    BY <2>1 DEF Valid, Typed
  <2>3. CASE pattern' = pattern
    BY <2>1, <2>2, <2>3, PatternKept DEF ScanInv, Expected, Reading
  <2>4. CASE pattern = Unset
    <3>1. scan = NoScan
      BY <2>4 DEF OrderInv
    <3>2. scan' = NoScan /\ \A n : scan'.readings # {n}
      BY <1>0, <2>1, <3>1
    <3> QED BY <1>0, <3>2 DEF ScanInv
  <2> QED BY <2>1, <2>3, <2>4
<1>3. ASSUME NEW q \in Queries, GiveUp(q) PROVE ScanInv'
  BY <1>3, PatternKept DEF GiveUp, ScanInv, Expected, Valid, Reading, appVars, driverVars,
     listVars
<1>4. ASSUME NEW q \in Queries, AnswerUnknownClass(q) PROVE ScanInv'
  <2>1. /\ event' = [event EXCEPT ![q] = "answering"]
        /\ UNCHANGED <<directory, changes, callback, selects, pattern, list, listed, scan>>
    BY <1>4 DEF AnswerUnknownClass, appVars, driverVars, listVars
  <2>2. Valid' => Valid
    BY <2>1 DEF Valid, Typed
  <2> QED BY <2>1, <2>2, PatternKept DEF ScanInv, Expected, Reading
<1>5. ASSUME NEW q \in Queries, BeginQuery(q) PROVE ScanInv'
  <2>1. /\ \/ list' = <<>> /\ event' = [event EXCEPT ![q] = "finding"]
           \/ list' = list /\ list # <<>>
        /\ UNCHANGED <<directory, changes, callback, selects, pattern, listed, scan>>
        /\ \A p \in Queries : event[p] # "matching"
    BY <1>5, TakenLast DEF BeginQuery, appVars, driverVars, InDispatch
  <2>2. Valid' => Valid /\ list' = list
    BY <2>1 DEF Valid, Typed
  <2> QED BY <2>1, <2>2, PatternKept DEF ScanInv, Expected, Reading
<1>6. ASSUME NEW q \in Queries, FindFiles(q) PROVE ScanInv'
  <2>1. /\ UNCHANGED <<directory, changes, callback, selects, pattern, scan>>
        /\ event[q] = "finding" /\ \A p \in Queries : p # q => event[p] # "matching"
    <3>1. \A p \in Queries : event[p] = "matching" => p = q
      BY <1>6, OneInDispatch DEF FindFiles, InDispatch
    <3> QED BY <1>6, <3>1 DEF FindFiles, appVars, driverVars
  <2>2. CASE listed' = changes /\ (Agree => list' = Reading)
    BY <2>1, <2>2, PatternKept DEF ScanInv, Expected, Reading
  <2>3. CASE list' = <<>> /\ event' = [event EXCEPT ![q] = "answering"]
    <3>1. ~Valid'
      BY <2>1, <2>3 DEF Valid, Typed
    <3> QED BY <2>1, <3>1, PatternKept DEF ScanInv, Expected, Reading
  <2> QED BY <1>6, <2>2, <2>3, Found
<1>7. ASSUME NEW q \in Queries, MatchFiles(q) PROVE ScanInv'
  <2>1. /\ event' = [event EXCEPT ![q] = "answering"] /\ event[q] = "matching"
        /\ UNCHANGED <<directory, changes, callback, selects, pattern, listed, scan>>
    BY <1>7 DEF MatchFiles, appVars, driverVars
  <2>2. list' = list \/ list' = <<>>
    BY <1>7, Matched
  <2>3. \A p \in Queries : event'[p] # "matching"
    <3>1. \A p \in Queries : event[p] = "matching" => p = q
      BY <2>1, OneInDispatch DEF InDispatch
    <3> QED BY <2>1, <3>1 DEF Typed
  <2>4. Valid' => Valid /\ list' = list
    BY <2>1, <2>2, <2>3 DEF Valid
  <2> QED BY <2>1, <2>4, PatternKept DEF ScanInv, Expected, Reading
<1>8. ASSUME NEW q \in Queries, Answer(q) PROVE ScanInv'
  <2>1. /\ event' = [event EXCEPT ![q] = "answered"] /\ event[q] = "answering"
        /\ UNCHANGED <<directory, changes, callback, selects, pattern, list, listed>>
        /\ scan' = scan \/ scan' = Extended(q)
    BY <1>8 DEF Answer, appVars, listVars
  <2>2. Valid' => Valid
    BY <2>1 DEF Valid, Typed
  <2>3. CASE scan' = scan
    BY <2>1, <2>2, <2>3, PatternKept DEF ScanInv, Expected, Reading
  <2>4. CASE scan' = Extended(q)
    <3>1. /\ \A n \in scan'.readings : scan'.since <= n
          /\ scan' = NoScan \/ (scan'.at = Len(scan'.names) /\ scan'.at \in 1..MaxEntries
                               /\ scan'.readings # {})
          /\ Agree =>
               /\ scan'.readings = {changes} => scan'.found = Reading
               /\ Valid /\ scan'.readings = {listed} => list = scan'.found
               /\ \A n \in 0..MaxChanges : scan'.readings = {n} =>
                    /\ IsPrefix(scan'.names, Chosen(scan'.found, Matching))
                    /\ scan'.end = "reached" =>
                         \/ scan'.names = Chosen(scan'.found, Matching)
                         \/ Size[Chosen(scan'.found, Matching)[Len(scan'.names) + 1]] > scan'.buffer
      BY <2>1, <2>4, ExtendedInOrder
    <3> QED BY <2>1, <2>2, <3>1, PatternKept DEF ScanInv, Expected, Reading
  <2> QED BY <2>1, <2>3, <2>4
<1>9. ASSUME Change PROVE ScanInv'
  <2>1. /\ UNCHANGED <<callback, selects, pattern, event, list, listed, scan>>
        /\ changes' = changes + 1
    BY <1>9 DEF Change, appVars, driverVars, listVars
  <2>2. scan.readings # {changes'}
    <3>1. ASSUME changes' \in scan.readings PROVE FALSE
      <4>1. changes' <= listed /\ listed <= changes /\ listed \in Nat /\ changes \in Nat
        BY <3>1, TypedFacts
      <4> QED BY <2>1, <4>1
    <3> QED BY <3>1
  <2> QED BY <2>1, <2>2, PatternKept DEF ScanInv, Expected, Valid
<1> QED BY <1>1, <1>2, <1>3, <1>4, <1>5, <1>6, <1>7, <1>8, <1>9 DEF Next

\* Unless an answer is dropped, the scan knows when its list has gone.
LEMMA MixKept ==
  ASSUME Typed, OrderInv, ListInv, AnswerInv, ScanInv, MixInv, Alone, [Next]_vars
  PROVE  MixInv'
<1> DEFINE Ended == \E q \in Queries : answer[q].status = "NO_MORE_FILES" /\ ~answer[q].failed
           Fresh == \E q \in Queries : InDispatch(q) /\ request[q].index = 0
<1>0. NoAnswer.status = "none" /\ NoScan.readings = {}
  BY DEF NoAnswer, NoScan
<1> SUFFICES ASSUME \A q \in Queries : irp'[q] # "givenUp"
             PROVE  /\ \A m, n \in scan'.readings : m = n
                    /\ Continuing' => (scan'.readings = {listed'} /\ (list' # <<>> \/ Ended')) \/ Fresh'
  BY DEF MixInv
<1>a. \A q \in Queries : irp[q] # "givenUp"
  BY DEF Typed, Next, vars, QueryDirectory, GiveUp, AnswerUnknownClass, BeginQuery, FindFiles,
         MatchFiles, Answer, Change
<1>b. /\ \A m, n \in scan.readings : m = n
      /\ Continuing => (scan.readings = {listed} /\ (list # <<>> \/ Ended)) \/ Fresh
  BY <1>a DEF MixInv
\* Only a query being answered has an answer.
<1>c. ASSUME NEW q \in Queries, answer[q].status = "NO_MORE_FILES" PROVE event[q] = "answering"
  BY <1>0, <1>c DEF AnswerInv
<1>1. ASSUME UNCHANGED vars PROVE MixInv'
  BY <1>1, <1>b DEF MixInv, Continuing, InDispatch, vars, appVars, driverVars, listVars
<1>2. ASSUME NEW q \in Queries, QueryDirectory(q) PROVE MixInv'
  <2>1. /\ event[q] = "none" /\ event' = [event EXCEPT ![q] = "queued"]
        /\ UNCHANGED <<answer, list, listed, scan>>
        /\ \A r \in Queries : r # q => request'[r] = request[r]
    BY <1>2 DEF QueryDirectory, OrderInv, Typed, listVars
  <2>2. Fresh => Fresh'
    BY <2>1 DEF InDispatch, Typed
  <2> QED BY <1>b, <2>1, <2>2 DEF MixInv, Continuing
<1>3. ASSUME NEW q \in Queries, GiveUp(q) PROVE MixInv'
  <2>1. irp'[q] = "givenUp"
    BY <1>3 DEF GiveUp, Typed
  <2> QED BY <2>1
<1>4. ASSUME NEW q \in Queries, AnswerUnknownClass(q) PROVE MixInv'
  <2>1. UNCHANGED <<list, listed, scan>>
    BY <1>4 DEF AnswerUnknownClass, listVars
  <2>2. ~Fresh /\ ~Ended
    BY <1>4, <1>c, TakenLast DEF AnswerUnknownClass, InDispatch
  <2> QED BY <1>b, <2>1, <2>2 DEF MixInv, Continuing
<1>5. ASSUME NEW q \in Queries, BeginQuery(q) PROVE MixInv'
  <2>1. /\ \/ event' = [event EXCEPT ![q] = "finding"]
           \/ event' = [event EXCEPT ![q] = "matching"]
        /\ list' = IF request[q].index = 0 THEN <<>> ELSE list
        /\ UNCHANGED <<listed, scan, request>>
    BY <1>5 DEF BeginQuery
  <2>2. ~Fresh /\ ~Ended
    BY <1>5, <1>c, TakenLast DEF BeginQuery, InDispatch
  <2>3. request[q].index = 0 => Fresh'
    BY <2>1 DEF InDispatch, Typed
  <2> QED BY <1>b, <2>1, <2>2, <2>3 DEF MixInv, Continuing
<1>6. ASSUME NEW q \in Queries, FindFiles(q) PROVE MixInv'
  <2>1. event[q] = "finding" /\ list = <<>> /\ UNCHANGED <<request, scan>>
    BY <1>6 DEF FindFiles, ListInv
  <2>2. ~Ended
    BY <1>c, <2>1, OneInDispatch DEF InDispatch
  <2>3. ASSUME Fresh PROVE Fresh'
    <3>1. request[q].index = 0
      BY <2>1, <2>3, OneInDispatch DEF InDispatch
    <3>2. event' = [event EXCEPT ![q] = "matching"] \/ event' = [event EXCEPT ![q] = "answering"]
      BY <1>6 DEF FindFiles
    <3> QED BY <2>1, <3>1, <3>2 DEF InDispatch, Typed
  <2> QED BY <1>b, <2>1, <2>2, <2>3 DEF MixInv, Continuing
<1>7. ASSUME NEW q \in Queries, MatchFiles(q) PROVE MixInv'
  <2>1. /\ event[q] = "matching" /\ event' = [event EXCEPT ![q] = "answering"]
        /\ UNCHANGED <<request, listed, scan>>
    BY <1>7 DEF MatchFiles
  <2>2. Fresh => Fresh'
    BY <2>1 DEF InDispatch, Typed
  <2>3. ~Ended
    BY <1>c, <2>1, OneInDispatch DEF InDispatch
  <2>4. list' = list \/ Ended'
    <3>1. \/ list' = list
          \/ answer' = [answer EXCEPT ![q] = [status |-> "NO_MORE_FILES", page |-> <<>>,
                                              index |-> request[q].index, failed |-> FALSE]]
      BY <1>7, Matched
    <3> QED BY <3>1 DEF Typed
  <2> QED BY <1>b, <2>1, <2>2, <2>3, <2>4 DEF MixInv, Continuing
<1>8. ASSUME NEW q \in Queries, Answer(q) PROVE MixInv'
  <2>1. event[q] = "answering" /\ UNCHANGED <<list, listed>>
    BY <1>8 DEF Answer, listVars
  <2>2. scan' = Extended(q)
    <3>1. irp[q] = "pending"
      BY <1>a, <2>1 DEF OrderInv, Typed
    <3> QED BY <1>8, <3>1 DEF Answer
  <2>3. Became(scan', q)
    BY <2>2, ExtendedCases
  <2>4. CASE scan' = NoScan
    BY <1>0, <2>4 DEF MixInv, Continuing
  <2>5. CASE answer[q].status = "SUCCESS" /\ scan'.readings = {listed}
    <3>1. list # <<>>
      BY <2>5 DEF AnswerInv
    <3> QED BY <2>1, <2>5, <3>1 DEF MixInv
  <2>6. CASE request[q].index = scan.at /\ scan.end = "no" /\ request[q].index # 0
    <3>1. Continuing
      <4>1. request[q].index <= MaxEntries
        BY TypedFacts, Bounds
      <4> QED BY <2>6, <4>1, Bounds DEF Continuing, NoScan
    <3>2. ~Fresh
      BY <2>1, <2>6, OneInDispatch DEF InDispatch
    <3>3. scan.readings = {listed}
      BY <1>b, <3>1, <3>2
    <3>4. scan'.readings = {listed} \/ scan' = NoScan
      BY <2>3, <3>3 DEF Became
    <3>5. answer[q].status = "SUCCESS" \/ scan'.end # "no" \/ scan' = NoScan
      BY <2>3 DEF Became
    <3>6. answer[q].status = "SUCCESS" => list # <<>>
      BY DEF AnswerInv
    <3> QED BY <1>0, <2>1, <3>4, <3>5, <3>6 DEF MixInv, Continuing
  <2>7. request[q].index = scan.at => request[q].index # 0
    BY Bounds DEF ScanInv, NoScan
  <2> QED BY <2>3, <2>4, <2>5, <2>6, <2>7 DEF Became
<1>9. ASSUME Change PROVE MixInv'
  BY <1>9, <1>b DEF Change, MixInv, Continuing, InDispatch, appVars, driverVars, listVars
<1>10. MixInv'
  BY <1>1, <1>2, <1>3, <1>4, <1>5, <1>6, <1>7, <1>8, <1>9 DEF Next
<1> QED BY <1>10 DEF MixInv

-----------------------------------------------------------------------------
(* The theorems.                                                           *)

\* A query that was given up remains so.
LEMMA AloneBefore ==
  ASSUME IrpType, [Next]_vars
  PROVE  IrpType' /\ (Alone' => Alone)
BY DEF IrpType, Alone, Next, vars, QueryDirectory, GiveUp, AnswerUnknownClass, BeginQuery,
       FindFiles, MatchFiles, Answer, Change

\* IInv is an invariant as long as the library works on one query at a time.
THEOREM Invariance == Spec => [](Alone => IInv)
<1>1. Init => IrpType /\ IInv
  BY InitInv DEF IInv, Typed, IrpType
<1>2. IInv /\ Alone /\ [Next]_vars => IInv'
  BY TypedKept, OrderKept, ListKept, AnswerKept, ScanKept, MixKept DEF IInv
<1>3. IrpType /\ (Alone => IInv) /\ [Next]_vars => IrpType' /\ (Alone => IInv)'
  BY <1>2, AloneBefore
<1> QED BY <1>1, <1>3, PTL DEF Spec

\* The type of every variable, in particular that the library's index for the
\* next entry never leaves the directory, however the queries interleave with
\* changes and are given up.
THEOREM TypeCorrect == Spec => [](Alone => TypeOK)
<1>1. IInv => TypeOK
  <2> SUFFICES ASSUME IInv PROVE TypeOK
    OBVIOUS
  <2>1. Typed
    BY DEF IInv
  <2>2. request \in [Queries -> {NoRequest}
                      \cup [index : 0..MaxEntries, page : Pages, since : 0..MaxChanges]]
    <3>1. ASSUME NEW q \in Queries
          PROVE  request[q] \in {NoRequest}
                   \cup [index : 0..MaxEntries, page : Pages, since : 0..MaxChanges]
      BY <2>1 DEF Typed, RequestRecords
    <3> QED BY <2>1, <3>1 DEF Typed
  <2>3. ASSUME NEW s \in Seq(Names) PROVE ToSet(s) \subseteq Names
    BY DEF ToSet
  <2>4. /\ \A q \in Queries : answer[q].index \in 0..MaxEntries /\ ToSet(answer[q].page) \subseteq Names
        /\ ToSet(list) \subseteq Names
        /\ scan.at \in 0 .. MaxEntries + 1 /\ scan.readings \subseteq 0..MaxChanges
        /\ listed \in 0..MaxChanges
    BY <2>1, <2>3, TypedFacts, Bounds
  <2> QED BY <2>1, <2>2, <2>4 DEF TypeOK, Typed
<1> QED BY <1>1, Invariance, PTL

\* A set of readings with at most one member, or with more than one.
LEMMA ReadingsCount ==
  ASSUME Typed
  PROVE  /\ Cardinality(scan.readings) <= 1 => scan.readings = {} \/ \E n \in 0..MaxChanges : scan.readings = {n}
         /\ Cardinality(scan.readings) > 1 => \E m, n \in scan.readings : m # n
         /\ Cardinality(scan.readings) = 1 => \E n \in 0..MaxChanges : scan.readings = {n}
<1>1. scan.readings \subseteq 0..MaxChanges
  BY TypedFacts
<1>2. IsFiniteSet(scan.readings) /\ Cardinality(scan.readings) \in Nat
  <2>1. IsFiniteSet(0..MaxChanges)
    BY Bounds, FS_Interval
  <2>2. IsFiniteSet(scan.readings)
    BY <1>1, <2>1, FS_Subset
  <2> QED BY <2>2, FS_CardinalityType
<1>3. Cardinality(scan.readings) = 0 => scan.readings = {}
  BY <1>2, FS_EmptySet
<1>4. Cardinality(scan.readings) = 1 => \E n \in 0..MaxChanges : scan.readings = {n}
  <2>1. Cardinality(scan.readings) = 1 => \E n : scan.readings = {n}
    BY <1>2, FS_Singleton
  <2> QED BY <1>1, <2>1
<1>5. ASSUME \A m, n \in scan.readings : m = n PROVE Cardinality(scan.readings) <= 1
  <2>1. CASE scan.readings = {}
    BY <2>1, FS_EmptySet
  <2>2. CASE scan.readings # {}
    <3>1. \E n : scan.readings = {n}
      BY <1>5, <2>2
    <3> QED BY <1>2, <3>1, FS_Singleton
  <2> QED BY <2>1, <2>2
<1> QED BY <1>2, <1>3, <1>4, <1>5

\* The names an issuer gets in a scan are the first of those that match, each
\* once and in order, and none of them is older than the scan; two readings of
\* the directory get mixed only after an answer has been given up.
THEOREM PagesAreInOrder == Spec => [](Alone => PagesInOrder)
<1>1. IInv => PagesInOrder
  <2> SUFFICES ASSUME IInv PROVE PagesInOrder
    OBVIOUS
  <2> USE DEF IInv
  <2>1. \A n \in scan.readings : n >= scan.since
    BY TypedFacts DEF ScanInv
  <2>2. ASSUME Agree, Cardinality(scan.readings) <= 1 PROVE IsPrefix(scan.names, Expected)
    <3>1. CASE scan.readings = {}
      <4>1. scan.names = <<>> /\ scan.found = <<>>
        BY <3>1 DEF ScanInv, NoScan
      <4>2. Expected \in Seq(Names) /\ scan.names \in Seq(Names) /\ Len(scan.names) = 0
        BY <4>1, TypedFacts, ChosenType DEF Expected
      <4> QED BY <4>2, PrefixMembers
    <3>2. CASE \E n \in 0..MaxChanges : scan.readings = {n}
      BY <2>2, <3>2 DEF ScanInv
    <3> QED BY <2>2, <3>1, <3>2, ReadingsCount
  <2>3. ASSUME Cardinality(scan.readings) > 1 PROVE \E q \in Queries : irp[q] = "givenUp"
    BY <2>3, ReadingsCount DEF MixInv
  <2> QED BY <2>1, <2>2, <2>3 DEF PagesInOrder
<1> QED BY <1>1, Invariance, PTL

\* A scan that ends has brought every name that matches, or stopped before one
\* that did not fit into the buffer of the last query.
THEOREM ListingIsComplete == Spec => [](Alone => ListingComplete)
<1>1. IInv => ListingComplete
  BY ReadingsCount DEF IInv, ListingComplete, ScanInv
<1> QED BY <1>1, Invariance, PTL

\* For any patterns that have "?" and "*" alone, and any file names: no name that
\* the comment above DokanIsNameInExpression says is matched is missed, and no other
\* is matched unless a question mark has run past its end into a final star.
THEOREM MatchMissesNothingHolds == Spec => []MatchMissesNothing
<1>1. ASSUME NEW e \in Commented, NEW f \in FileNames
      PROVE  /\ InExpression(e, f) =>
                  \A u \in Unwritten(Len(f)) : DokanIsNameInExpression(e, f, u)
             /\ DokanIsNameInExpression(e, f, Zeroes) => InExpression(e, f) \/ StarMakesUp(e)
  <2>1. e \in Seq(Plain) /\ f \in Seq(Ordinary)
    <3>1. e \in Seq(STRING) /\ \A i \in DOMAIN e : e[i] \notin {DOS_STAR, DOS_QM, DOS_DOT}
      BY DirectoryListingAssumption DEF Commented
    <3>2. e \in Seq(Plain)
      BY <3>1 DEF Plain
    <3>3. f \in Seq(Ordinary)
      BY DirectoryListingAssumption DEF Ordinary
    <3> QED BY <3>2, <3>3
  <2>2. ~Zeroes.luck
    BY DEF Zeroes
  <2>3. DokanIsNameInExpression(e, f, Zeroes) <=> InExpression(TailDropped(e), f)
    BY <2>1, <2>2, AsDocumented
  <2>4. InExpression(TailDropped(e), f) => InExpression(e, f) \/ StarMakesUp(e)
    BY <2>1, TailOfStars
  <2>5. InExpression(e, f) => \A u \in Unwritten(Len(f)) : DokanIsNameInExpression(e, f, u)
    BY <2>1, NoneMissed
  <2> QED BY <2>3, <2>4, <2>5
<1>2. MatchMissesNothing
  BY <1>1 DEF MatchMissesNothing
<1> QED BY <1>2, PTL

\* For any patterns and any file names: when DOS_STAR stands in front, with a dot to
\* find, and no star after a "?" or DOS_QM, the answer of DokanIsNameInExpression
\* depends neither on what lies behind the name nor on what lastDot was before.
THEOREM MatchSettledHolds == Spec => []MatchSettled
<1>1. ASSUME NEW e \in Expressions, NEW f \in FileNames, Settled(e, f)
      PROVE  Defined(e, f, Len(f))
  <2>1. e \in Seq(STRING) /\ f \in Seq(STRING)
    BY DirectoryListingAssumption
  <2>2. \A u \in Unwritten(Len(f)) :
          DokanIsNameInExpression(e, f, u) = DokanIsNameInExpression(e, f, Zeroes)
    BY <1>1, <2>1, NothingUnread
  <2> QED BY <2>2 DEF Defined
<1>2. MatchSettled
  BY <1>1 DEF MatchSettled
<1> QED BY <1>2, PTL
=============================================================================
