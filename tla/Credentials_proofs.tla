-------------------------- MODULE Credentials_proofs --------------------------
(***************************************************************************)
(* Proofs about Credentials, for any number of programs and runs, and      *)
(* about the lookups of VirtualDrive, for any accounts and paths.          *)
(*                                                                         *)
(* The invariant says what of a save is in the file: as long as no         *)
(* statement was lost and no two saves overlapped, the rows are those of   *)
(* one renewal, in the order of the keys, and perhaps not all of them.     *)
(*                                                                         *)
(* A lookup is a recursion over the levels of its path, and what a request *)
(* answers one over the items of the account.  The provers can use that a  *)
(* non-empty set of numbers has a least member, and the induction that     *)
(* follows from it.  The two halves of a lookup, before and after a        *)
(* change, can disagree about one item only; an item is not in itself, so  *)
(* it is in one of the halves, and the other account has the whole chain.  *)
(***************************************************************************)
EXTENDS VirtualDrive, FiniteSetTheorems, SequenceTheorems, WellFoundedInduction, TLAPS

-----------------------------------------------------------------------------
(* The rows.                                                               *)

\* What TLC computes from the tuple.
LEMMA KeysAre ==
  /\ Len(Keys) = 4 /\ DOMAIN Keys = 1..4
  /\ Keys[1] = "ACCESS_TOKEN" /\ Keys[2] = "AUTH_REQUEST"
  /\ Keys[3] = "EXPIRES" /\ Keys[4] = "REFRESH_TOKEN"
  /\ ToSet(Keys) = {"ACCESS_TOKEN", "AUTH_REQUEST", "EXPIRES", "REFRESH_TOKEN"}
<1>1. /\ Len(Keys) = 4 /\ DOMAIN Keys = 1..4
      /\ Keys[1] = "ACCESS_TOKEN" /\ Keys[2] = "AUTH_REQUEST"
      /\ Keys[3] = "EXPIRES" /\ Keys[4] = "REFRESH_TOKEN"
  BY DEF Keys
<1>2. ToSet(Keys) = {Keys[i] : i \in 1..4}
  BY <1>1 DEF ToSet
<1> QED BY <1>1, <1>2

\* A set of numbers has a least one.
LEMMA LeastOf ==
  ASSUME NEW I, I \subseteq Nat, I # {}
  PROVE  Min(I) \in I /\ \A j \in I : Min(I) <= j
<1> DEFINE Less == {ss \in Nat \X Nat : ss[1] < ss[2]}
<1>1. IsWellFoundedOn(Less, Nat)
  BY NatLessThanWellFounded DEF OpToRel
<1>2. PICK x \in I : \A y \in I : ~(<<y, x>> \in Less)
  <2> HIDE DEF Less
  <2> QED BY <1>1, WFMin
<1>3. ASSUME NEW y \in I PROVE x <= y
  <2>1. y < x => <<y, x>> \in Less
    <3>1. x \in Nat /\ y \in Nat /\ <<y, x>>[1] = y /\ <<y, x>>[2] = x
      OBVIOUS
    <3> QED BY <3>1
  <2>2. ~(y < x)
    BY <1>2, <2>1
  <2> QED BY <2>2
<1> QED BY <1>3 DEF Min

\* Preferences::loadData finds a row of each key that has one.
LEMMA FirstRowFound ==
  ASSUME NEW S, NEW rows \in Seq(S), NEW k \in ToSet(Keys)
  PROVE  \/ FirstRows(rows)[k] = 0 /\ \A i \in DOMAIN rows : rows[i][1] # k
         \/ \E i \in DOMAIN rows : rows[i][1] = k /\ FirstRows(rows)[k] = rows[i][2]
<1>1. CASE \E i \in DOMAIN rows : rows[i][1] = k
  <2> DEFINE I == {i \in 1..Len(rows) : rows[i][1] = k}
  <2>1. I \subseteq Nat /\ I # {} /\ DOMAIN rows = 1..Len(rows)
    BY <1>1
  <2>2. Min(I) \in I
    BY <2>1, LeastOf
  <2>3. SelectInSeq(rows, LAMBDA row : row[1] = k) = Min(I)
    BY <2>1 DEF SelectInSeq
  <2>4. FirstRows(rows)[k] = rows[Min(I)][2]
    BY <1>1, <2>3 DEF FirstRows
  <2> QED BY <2>1, <2>2, <2>4
<1>2. CASE ~ \E i \in DOMAIN rows : rows[i][1] = k
  BY <1>2 DEF FirstRows
<1> QED BY <1>1, <1>2

-----------------------------------------------------------------------------
(* The invariant.                                                          *)

\* No statement was lost and no two saves have overlapped.
Clean == torn \cap {"lost", "mixed"} = {}

\* The programs that may still renew.
Renewing == {p \in Programs : state[p] \in {"loading", "renewing"}}

\* Each run of a program renews once at most, so the numbers of the renewals last.
CountInv == renewals >= 1 /\ renewals + Cardinality(Renewing) <= runs + 1

\* A row that has a token at all has one of a renewal that was answered; nobody
\* saves an empty refresh token.
RowsInv ==
  /\ db \in Seq(ToSet(Keys) \X Tokens)
  /\ \A i \in DOMAIN db : db[i][2] \in 1..renewals

ProgramInv(p) ==
  /\ state[p] = "saving" => loaded[p].refresh # 0 /\ token[p] \in 1..renewals
  /\ step[p] > 0 => state[p] = "saving"
  /\ began[p] >= 0 => state[p] = "serving"
  /\ loaded[p].refresh <= renewals /\ token[p] <= renewals

\* The refresh token is missing only while a save is under way.
RefreshInv ==
  \/ emptied
  \/ \E i \in DOMAIN db : db[i][1] = "REFRESH_TOKEN"
  \/ \E p \in Programs : step[p] > 0

\* What a program that saves has saved, and what the last save has left.
SavedInv ==
  Clean =>
    /\ \A p, q \in Programs : state[p] = "saving" /\ state[q] = "saving" => p = q
    /\ Len(db) <= 4 /\ \A i \in DOMAIN db : db[i][1] = Keys[i]
    /\ Len(db) >= 2 => db[1][2] = db[2][2]
    /\ \A p \in Programs : step[p] > 0 =>
         Len(db) = step[p] - 1 /\ (Len(db) >= 1 => db[1][2] = token[p])

\* A token that was taken from the file was good then.
FreshInv ==
  Clean /\ Offset >= 0 =>
    \A p \in Programs : began[p] >= 0 /\ loaded[p].auth # 0 =>
      token[p] \in 1..renewals /\ began[p] - issued[token[p]] <= Life

IInv ==
  /\ TypeOK /\ CountInv /\ RowsInv /\ (\A p \in Programs : ProgramInv(p))
  /\ RefreshInv /\ SavedInv /\ FreshInv

-----------------------------------------------------------------------------
(* The steps.                                                              *)

\* The rows of one save have different keys.
LEMMA PrefixDiffers ==
  ASSUME NEW rows \in Seq(ToSet(Keys) \X Tokens), Len(rows) <= 4,
         \A i \in DOMAIN rows : rows[i][1] = Keys[i]
  PROVE  \A i, j \in DOMAIN rows : rows[i][1] = rows[j][1] => i = j
<1>1. \A i, j \in 1..4 : Keys[i] = Keys[j] => i = j
  BY KeysAre
<1>2. DOMAIN rows = 1..Len(rows) /\ Len(rows) \in Nat
  OBVIOUS
<1>3. \A i \in DOMAIN rows : i \in 1..4
  BY <1>2
<1> QED BY <1>1, <1>3

\* What most steps leave alone.
LEMMA CountKept ==
  ASSUME TypeOK, CountInv, Renewing' \subseteq Renewing, renewals' = renewals, runs' = runs
  PROVE  CountInv'
<1>1. IsFiniteSet(Renewing)
  BY CredentialsAssumption, FS_Subset DEF Renewing
<1>2. /\ Cardinality(Renewing) \in Nat /\ Cardinality(Renewing') \in Nat
      /\ Cardinality(Renewing') <= Cardinality(Renewing)
  BY <1>1, FS_Subset, FS_CardinalityType
<1>3. renewals \in Int /\ runs \in Int
  BY CredentialsAssumption DEF TypeOK, Tokens
<1> QED BY <1>2, <1>3 DEF CountInv

\* What a save has left stays known until a save goes on, or one begins.
LEMMA SavedKept ==
  ASSUME SavedInv, db' = db, torn \subseteq torn',
         \A q \in Programs : /\ state'[q] = "saving" => state[q] = "saving"
                             /\ step'[q] > 0 => step'[q] = step[q] /\ token'[q] = token[q]
  PROVE  SavedInv'
BY DEF SavedInv, Clean

\* A token that was good when a program took it stays judged by the same times.
LEMMA FreshKept ==
  ASSUME FreshInv, torn \subseteq torn', renewals \in Nat, renewals' \in Nat, renewals <= renewals',
         \A g \in 1..renewals : issued'[g] = issued[g],
         \A q \in Programs : began'[q] >= 0 /\ loaded'[q].auth # 0 =>
           began'[q] = began[q] /\ loaded'[q] = loaded[q] /\ token'[q] = token[q]
  PROVE  FreshInv'
<1>1. SUFFICES ASSUME Clean', Offset >= 0,
                      NEW p \in Programs, began'[p] >= 0, loaded'[p].auth # 0
               PROVE  token'[p] \in 1..renewals' /\ began'[p] - issued'[token'[p]] <= Life
  BY DEF FreshInv
<1>2. Clean
  BY <1>1 DEF Clean
<1>3. /\ began[p] = began'[p] /\ token'[p] = token[p] /\ token[p] \in 1..renewals
      /\ began[p] - issued[token[p]] <= Life
  BY <1>1, <1>2 DEF FreshInv
<1> QED BY <1>3

\* The part of the type that is about the rows, in steps that leave them alone.
LEMMA UniqueKept ==
  ASSUME TypeOK, db' = db, torn \subseteq torn'
  PROVE  /\ \A i \in DOMAIN db' : db'[i][1] \in ToSet(Keys) /\ db'[i][2] \in Tokens
         /\ torn' \cap {"lost", "mixed"} = {} =>
              \A i, j \in DOMAIN db' : db'[i][1] = db'[j][1] => i = j
BY DEF TypeOK

\* The numbers of the model.
LEMMA Types ==
  ASSUME TypeOK
  PROVE  /\ now \in Nat /\ now <= MaxTime /\ renewals \in Nat /\ renewals <= MaxRuns + 1
         /\ runs \in Nat /\ runs <= MaxRuns /\ 0 \in Tokens /\ Tokens \subseteq Nat
         /\ \A g \in 1..renewals : g \in Tokens /\ issued[g] \in Int
         /\ \A p \in Programs : /\ token[p] \in Nat /\ step[p] \in 0..4 /\ began[p] \in Int
                                /\ loaded[p].refresh \in Nat
BY CredentialsAssumption, KeysAre DEF TypeOK, Tokens

\* Changing a function at one place.
LEMMA ExceptAt ==
  ASSUME NEW D, NEW S, NEW f \in [D -> S], NEW d \in D, NEW v
  PROVE  /\ [f EXCEPT ![d] = v][d] = v
         /\ \A e \in D : e # d => [f EXCEPT ![d] = v][e] = f[e]
         /\ v \in S => [f EXCEPT ![d] = v] \in [D -> S]
OBVIOUS

\* A program starts, with a renewal to its credit.
LEMMA StartSteps ==
  ASSUME IInv, NEW p \in Programs, Start(p)
  PROVE  IInv'
<1>a. /\ TypeOK /\ CountInv /\ RowsInv /\ (\A q \in Programs : ProgramInv(q))
      /\ RefreshInv /\ SavedInv /\ FreshInv
  BY DEF IInv
<1>b. /\ state[p] = "off" /\ runs < MaxRuns /\ runs' = runs + 1
      /\ state' = [state EXCEPT ![p] = "loading"]
      /\ UNCHANGED <<now, issued, renewals, db, step, loaded, token>>
      /\ UNCHANGED <<began, torn, emptied>>
  BY DEF Start, To, history
<1>c. /\ state'[p] = "loading" /\ \A q \in Programs : q # p => state'[q] = state[q]
      /\ state' \in [Programs -> {"off", "loading", "renewing", "saving", "serving"}]
  BY <1>a, <1>b, ExceptAt DEF TypeOK
<1>1. CountInv'
  <2>1. Renewing' = Renewing \cup {p} /\ p \notin Renewing
    BY <1>b, <1>c DEF Renewing
  <2>2. IsFiniteSet(Renewing)
    BY CredentialsAssumption, FS_Subset DEF Renewing
  <2>3. Cardinality(Renewing') = Cardinality(Renewing) + 1 /\ Cardinality(Renewing) \in Nat
    BY <2>1, <2>2, FS_AddElement, FS_CardinalityType
  <2> QED BY <1>a, <1>b, <2>3, Types DEF CountInv
<1>2. RowsInv'
  BY <1>a, <1>b DEF RowsInv
<1>3. ASSUME NEW q \in Programs PROVE ProgramInv(q)'
  <2>1. CASE q = p
    BY <1>a, <1>b, <1>c, <2>1, Types DEF ProgramInv
  <2>2. CASE q # p
    BY <1>a, <1>b, <1>c, <2>2 DEF ProgramInv
  <2> QED BY <2>1, <2>2
<1>4. RefreshInv'
  BY <1>a, <1>b DEF RefreshInv
<1>5. SavedInv'
  BY <1>a, <1>b, <1>c, SavedKept
<1>6. FreshInv'
  BY <1>a, <1>b, FreshKept, Types
<1>7. TypeOK'
  <2>1. runs' \in 0..MaxRuns /\ UNCHANGED torn
    BY <1>a, <1>b, CredentialsAssumption, Types
  <2> QED BY <1>a, <1>b, <1>c, <2>1, UniqueKept DEF TypeOK, Tokens
<1> QED BY <1>1, <1>2, <1>3, <1>4, <1>5, <1>6, <1>7 DEF IInv

\* What a program finds in the file: the access token there is as old as the
\* time says that is saved with it.
LEMMA LoadDataFinds ==
  ASSUME IInv, NEW p \in Programs, LoadData(p)
  PROVE  \E auth, refresh, access \in 0..renewals : \E valid \in BOOLEAN :
           /\ loaded' = [loaded EXCEPT ![p] = [auth |-> auth, refresh |-> refresh]]
           /\ state' = [state EXCEPT ![p] = IF valid THEN "serving" ELSE "renewing"]
           /\ token' = [token EXCEPT ![p] = IF valid THEN access ELSE 0]
           /\ began' = [began EXCEPT ![p] = IF valid THEN now ELSE -1]
           /\ valid /\ auth # 0 /\ Clean /\ Offset >= 0 =>
                access \in 1..renewals /\ now - issued[access] <= Life
<1>a. TypeOK /\ RowsInv /\ SavedInv
  BY DEF IInv
<1>1. PICK rows \in {db, <<>>} :
        /\ loaded' = [loaded EXCEPT ![p] = [auth |-> FirstRows(rows)["AUTH_REQUEST"],
                                             refresh |-> FirstRows(rows)["REFRESH_TOKEN"]]]
        /\ \E valid \in Valid(FirstRows(rows)) :
             /\ state' = [state EXCEPT ![p] = IF valid THEN "serving" ELSE "renewing"]
             /\ token' = [token EXCEPT ![p] = IF valid THEN FirstRows(rows)["ACCESS_TOKEN"] ELSE 0]
             /\ began' = [began EXCEPT ![p] = IF valid THEN now ELSE -1]
  <2> DEFINE R == {db} \cup (IF Writing(p) THEN {<<>>} ELSE {})
             Read(rows) ==
               /\ loaded' = [loaded EXCEPT ![p] = [auth |-> FirstRows(rows)["AUTH_REQUEST"],
                                             refresh |-> FirstRows(rows)["REFRESH_TOKEN"]]]
               /\ \E valid \in Valid(FirstRows(rows)) :
                    /\ state' = [state EXCEPT ![p] = IF valid THEN "serving" ELSE "renewing"]
                    /\ token' = [token EXCEPT ![p] = IF valid THEN FirstRows(rows)["ACCESS_TOKEN"] ELSE 0]
                    /\ began' = [began EXCEPT ![p] = IF valid THEN now ELSE -1]
  <2>1. \E rows \in R : Read(rows)
    BY DEF LoadData, To
  <2>2. R \subseteq {db, <<>>}
    OBVIOUS
  <2> HIDE DEF R, Read
  <2>3. \E rows \in {db, <<>>} : Read(rows)
    BY <2>1, <2>2
  <2> QED BY <2>3 DEF Read
<1>2. PICK valid \in Valid(FirstRows(rows)) :
        /\ state' = [state EXCEPT ![p] = IF valid THEN "serving" ELSE "renewing"]
        /\ token' = [token EXCEPT ![p] = IF valid THEN FirstRows(rows)["ACCESS_TOKEN"] ELSE 0]
        /\ began' = [began EXCEPT ![p] = IF valid THEN now ELSE -1]
  BY <1>1
<1>3. /\ FirstRows(rows)["AUTH_REQUEST"] \in 0..renewals
      /\ FirstRows(rows)["ACCESS_TOKEN"] \in 0..renewals
      /\ FirstRows(rows)["REFRESH_TOKEN"] \in 0..renewals
  <2>1. rows \in Seq(ToSet(Keys) \X Tokens) /\ \A i \in DOMAIN rows : rows[i][2] \in 1..renewals
    <3>1. CASE rows = db
      BY <1>a, <3>1 DEF RowsInv
    <3>2. CASE rows = <<>>
      BY <3>2
    <3> QED BY <1>1, <3>1, <3>2
  <2>2. ASSUME NEW k \in ToSet(Keys) PROVE FirstRows(rows)[k] \in 0..renewals
    <3>1. FirstRows(rows)[k] = 0 \/ \E i \in DOMAIN rows : FirstRows(rows)[k] = rows[i][2]
      BY <2>1, FirstRowFound
    <3>2. renewals \in Nat
      BY <1>a, Types
    <3> QED BY <2>1, <3>1, <3>2
  <2> QED BY <2>2, KeysAre
<1>5. ASSUME valid, FirstRows(rows)["AUTH_REQUEST"] # 0, Clean, Offset >= 0
      PROVE  /\ FirstRows(rows)["ACCESS_TOKEN"] \in 1..renewals
             /\ now - issued[FirstRows(rows)["ACCESS_TOKEN"]] <= Life
  <2>1. FirstRows(rows)["AUTH_REQUEST"] = FirstRows(rows)["ACCESS_TOKEN"]
    <3>1. /\ db \in Seq(ToSet(Keys) \X Tokens) /\ DOMAIN db = 1..Len(db) /\ Len(db) \in Nat
          /\ Len(db) <= 4 /\ \A i \in DOMAIN db : db[i][1] = Keys[i]
          /\ Len(db) >= 2 => db[1][2] = db[2][2]
      BY <1>a, <1>5 DEF RowsInv, SavedInv
    <3>2. rows = db
      <4>1. rows = <<>> => FirstRows(rows)["AUTH_REQUEST"] = 0
        BY KeysAre DEF FirstRows
      <4> QED BY <1>1, <1>5, <4>1
    <3>3. "AUTH_REQUEST" \in ToSet(Keys) /\ "ACCESS_TOKEN" \in ToSet(Keys)
      BY KeysAre
    <3>4. PICK i \in DOMAIN db : db[i][1] = "AUTH_REQUEST" /\ FirstRows(db)["AUTH_REQUEST"] = db[i][2]
      BY <1>5, <3>1, <3>2, <3>3, FirstRowFound
    <3>5. i \in Nat /\ i >= 1 /\ i <= 4 /\ i <= Len(db) /\ Keys[i] = "AUTH_REQUEST"
      <4>1. i \in 1..Len(db)
        BY <3>1
      <4> QED BY <3>1, <3>4, <4>1
    <3>6. i = 2 /\ Len(db) >= 2
      <4>1. i \in {1, 2, 3, 4}
        BY <3>5
      <4>2. i = 2
        BY <3>5, <4>1, KeysAre
      <4> QED BY <3>5, <4>2
    <3>7. 1 \in DOMAIN db /\ db[1][1] = "ACCESS_TOKEN"
      <4>1. 1 \in DOMAIN db
        BY <3>1, <3>6
      <4> QED BY <3>1, <4>1, KeysAre
    <3>8. PICK j \in DOMAIN db : db[j][1] = "ACCESS_TOKEN" /\ FirstRows(db)["ACCESS_TOKEN"] = db[j][2]
      BY <3>1, <3>3, <3>7, FirstRowFound
    <3>9. j = 1
      <4>1. \A k, l \in DOMAIN db : db[k][1] = db[l][1] => k = l
        BY <3>1, PrefixDiffers
      <4> QED BY <3>7, <3>8, <4>1
    <3> QED BY <3>1, <3>2, <3>4, <3>6, <3>8, <3>9
  <2> DEFINE g == FirstRows(rows)["AUTH_REQUEST"]
             late == now - RequestTime(g)
             life == IF FirstRows(rows)["EXPIRES"] = 0 THEN 0 ELSE Life
  <2>2. late <= life
    <3>1. valid \in {late <= life}
      BY <1>2, <1>5 DEF Valid
    <3> HIDE DEF late, life
    <3> QED BY <1>5, <3>1
  <2>3. life <= Life /\ life \in Int
    BY CredentialsAssumption
  <2>4. late = now - (issued[g] - Offset)
    BY DEF RequestTime
  <2>5. g \in 1..renewals
    <3>1. renewals \in Nat
      BY <1>a, Types
    <3> HIDE DEF g
    <3> QED BY <1>3, <1>5, <3>1 DEF g
  <2>6. issued[g] \in Int /\ now \in Int /\ Life \in Int /\ Offset \in Int
    <3> HIDE DEF g
    <3> QED BY <1>a, <2>5, CredentialsAssumption, Types
  <2>7. now - issued[g] <= Life
    <3> HIDE DEF g, late, life
    <3> QED BY <1>5, <2>2, <2>3, <2>4, <2>6
  <2> QED BY <2>1, <2>5, <2>7
<1> DEFINE auth    == FirstRows(rows)["AUTH_REQUEST"]
           refresh == FirstRows(rows)["REFRESH_TOKEN"]
           access  == FirstRows(rows)["ACCESS_TOKEN"]
<1>6. loaded' = [loaded EXCEPT ![p] = [auth |-> auth, refresh |-> refresh]]
  BY <1>1
<1> HIDE DEF auth, refresh, access
<1>7. auth \in 0..renewals /\ refresh \in 0..renewals /\ access \in 0..renewals
  BY <1>3 DEF auth, refresh, access
<1>8. /\ token' = [token EXCEPT ![p] = IF valid THEN access ELSE 0]
      /\ valid /\ auth # 0 /\ Clean /\ Offset >= 0 =>
           access \in 1..renewals /\ now - issued[access] <= Life
  BY <1>2, <1>5 DEF auth, access
<1>9. valid \in BOOLEAN
  <2>1. CASE FirstRows(rows)["AUTH_REQUEST"] = 0
    BY <1>2, <2>1 DEF Valid
  <2>2. CASE FirstRows(rows)["AUTH_REQUEST"] # 0
    <3>1. \A m, n : (m <= n) \in BOOLEAN
      OBVIOUS
    <3>2. valid = (now - RequestTime(FirstRows(rows)["AUTH_REQUEST"]) <=
                     IF FirstRows(rows)["EXPIRES"] = 0 THEN 0 ELSE Life)
      BY <1>2, <2>2, Zenon DEF Valid
    <3> QED BY <3>1, <3>2
  <2> QED BY <2>1, <2>2
<1> QED BY <1>2, <1>6, <1>7, <1>8, <1>9

\* The access token in the file is as old as the time says that is saved with it.
LEMMA LoadDataSteps ==
  ASSUME IInv, NEW p \in Programs, LoadData(p)
  PROVE  IInv'
<1>a. /\ TypeOK /\ CountInv /\ RowsInv /\ (\A q \in Programs : ProgramInv(q))
      /\ RefreshInv /\ SavedInv /\ FreshInv
  BY DEF IInv
<1>b. state[p] = "loading" /\ UNCHANGED <<now, issued, renewals, db, step, runs, torn, emptied>>
  BY DEF LoadData
<1>c. PICK auth \in 0..renewals, refresh \in 0..renewals, access \in 0..renewals, valid \in BOOLEAN :
        /\ loaded' = [loaded EXCEPT ![p] = [auth |-> auth, refresh |-> refresh]]
        /\ state' = [state EXCEPT ![p] = IF valid THEN "serving" ELSE "renewing"]
        /\ token' = [token EXCEPT ![p] = IF valid THEN access ELSE 0]
        /\ began' = [began EXCEPT ![p] = IF valid THEN now ELSE -1]
        /\ valid /\ auth # 0 /\ Clean /\ Offset >= 0 =>
             access \in 1..renewals /\ now - issued[access] <= Life
  BY LoadDataFinds
<1>d. /\ loaded'[p] = [auth |-> auth, refresh |-> refresh]
      /\ state'[p] = (IF valid THEN "serving" ELSE "renewing")
      /\ token'[p] = (IF valid THEN access ELSE 0)
      /\ began'[p] = (IF valid THEN now ELSE -1)
  BY <1>a, <1>c, ExceptAt DEF TypeOK
<1>e. ASSUME NEW q \in Programs, q # p
      PROVE  /\ state'[q] = state[q] /\ loaded'[q] = loaded[q] /\ token'[q] = token[q]
             /\ began'[q] = began[q]
  BY <1>a, <1>c, <1>e, ExceptAt DEF TypeOK
<1>f. step[p] = 0
  BY <1>a, <1>b, Types DEF ProgramInv
<1>1. CountInv'
  <2>1. Renewing' \subseteq Renewing
    BY <1>b, <1>e DEF Renewing
  <2> QED BY <1>a, <1>b, <2>1, CountKept
<1>2. RowsInv'
  BY <1>a, <1>b DEF RowsInv
<1>3. ASSUME NEW q \in Programs PROVE ProgramInv(q)'
  <2>1. CASE q = p
    <3>1. loaded'[p].refresh = refresh /\ token'[p] \in 0..renewals /\ state'[p] # "saving"
      BY <1>a, <1>d, Types
    <3>2. began'[p] >= 0 => state'[p] = "serving"
      BY <1>d
    <3> QED BY <1>a, <1>b, <1>f, <2>1, <3>1, <3>2, Types DEF ProgramInv
  <2>2. CASE q # p
    BY <1>a, <1>b, <1>e, <2>2 DEF ProgramInv
  <2> QED BY <2>1, <2>2
<1>4. RefreshInv'
  BY <1>a, <1>b DEF RefreshInv
<1>5. SavedInv'
  <2>1. ASSUME NEW q \in Programs
        PROVE  /\ state'[q] = "saving" => state[q] = "saving"
               /\ step'[q] > 0 => step'[q] = step[q] /\ token'[q] = token[q]
    BY <1>b, <1>d, <1>e, <1>f
  <2> QED BY <1>a, <1>b, <2>1, SavedKept
<1>6. FreshInv'
  <2> SUFFICES ASSUME Clean, Offset >= 0, NEW q \in Programs, began'[q] >= 0, loaded'[q].auth # 0
               PROVE  token'[q] \in 1..renewals /\ began'[q] - issued[token'[q]] <= Life
    BY <1>b DEF FreshInv, Clean
  <2>1. CASE q # p
    BY <1>a, <1>e, <2>1 DEF FreshInv
  <2>2. CASE q = p
    <3>1. valid
      BY <1>d, <2>2
    <3>2. auth # 0
      BY <1>d, <2>2
    <3> QED BY <1>c, <1>d, <2>2, <3>1, <3>2
  <2> QED BY <2>1, <2>2
<1>7. TypeOK'
  <2>1. auth \in Tokens /\ refresh \in Tokens /\ access \in Tokens /\ 0 \in Tokens
    BY <1>a, CredentialsAssumption, Types DEF Tokens
  <2>2. loaded' \in [Programs -> [auth : Tokens, refresh : Tokens]]
    <3> DEFINE v == [auth |-> auth, refresh |-> refresh]
    <3>1. v \in [auth : Tokens, refresh : Tokens]
      BY <2>1
    <3> HIDE DEF v
    <3>2. loaded' = [loaded EXCEPT ![p] = v] /\ loaded \in [Programs -> [auth : Tokens, refresh : Tokens]]
      BY <1>a, <1>c DEF TypeOK, v
    <3> QED BY <3>1, <3>2, ExceptAt
  <2>3. token' \in [Programs -> Tokens]
    BY <1>a, <1>c, <2>1 DEF TypeOK
  <2>4. state' \in [Programs -> {"off", "loading", "renewing", "saving", "serving"}]
    BY <1>a, <1>c DEF TypeOK
  <2>5. began' \in [Programs -> -1..MaxTime]
    <3>1. now \in -1..MaxTime /\ -1 \in -1..MaxTime
      BY <1>a, CredentialsAssumption, Types
    <3> QED BY <1>a, <1>c, <3>1 DEF TypeOK
  <2>6. UNCHANGED torn
    BY <1>b
  <2> QED BY <1>a, <1>b, <2>2, <2>3, <2>4, <2>5, <2>6, UniqueKept DEF TypeOK, Tokens
<1> QED BY <1>1, <1>2, <1>3, <1>4, <1>5, <1>6, <1>7 DEF IInv

\* A renewal is answered: it is newer than every other, and its save begins.
LEMMA RenewAuthSteps ==
  ASSUME IInv, NEW p \in Programs, RenewAuth(p)
  PROVE  IInv'
<1>a. /\ TypeOK /\ CountInv /\ RowsInv /\ (\A q \in Programs : ProgramInv(q))
      /\ RefreshInv /\ SavedInv /\ FreshInv
  BY DEF IInv
<1>b. /\ state[p] = "renewing" /\ loaded[p].refresh # 0 /\ renewals' = renewals + 1
      /\ issued' = [issued EXCEPT ![renewals + 1] = now]
      /\ token' = [token EXCEPT ![p] = renewals + 1]
      /\ state' = [state EXCEPT ![p] = "saving"] /\ step' = [step EXCEPT ![p] = 0]
      /\ torn' = (IF Writing(p) THEN torn \cup {"mixed"} ELSE torn)
      /\ UNCHANGED <<now, db, loaded, runs, began, emptied>>
  BY DEF RenewAuth, To
<1>c. /\ state'[p] = "saving" /\ step'[p] = 0 /\ token'[p] = renewals + 1
      /\ \A q \in Programs : q # p =>
           state'[q] = state[q] /\ step'[q] = step[q] /\ token'[q] = token[q]
  BY <1>a, <1>b, ExceptAt DEF TypeOK
<1>d. renewals \in Nat /\ renewals' \in Nat /\ torn \subseteq torn' /\ step[p] = 0
  BY <1>a, <1>b, Types DEF ProgramInv
<1>e. p \in Renewing /\ Renewing' = Renewing \ {p} /\ IsFiniteSet(Renewing)
  <2>1. p \in Renewing /\ Renewing' = Renewing \ {p}
    BY <1>b, <1>c DEF Renewing
  <2>2. IsFiniteSet(Renewing)
    BY CredentialsAssumption, FS_Subset DEF Renewing
  <2> QED BY <2>1, <2>2
<1>f. /\ Cardinality(Renewing') = Cardinality(Renewing) - 1
      /\ Cardinality(Renewing) \in Nat /\ Cardinality(Renewing') \in Nat
  BY <1>e, FS_RemoveElement, FS_CardinalityType
<1>1. CountInv'
  BY <1>a, <1>b, <1>d, <1>f, Types DEF CountInv
<1>2. RowsInv'
  <2>1. \A n \in 1..renewals : n \in 1..renewals'
    BY <1>b, <1>d
  <2> QED BY <1>a, <1>b, <2>1 DEF RowsInv
<1>3. ASSUME NEW q \in Programs PROVE ProgramInv(q)'
  <2>1. CASE q = p
    <3>1. token'[p] \in 1..renewals' /\ loaded'[p].refresh <= renewals'
      BY <1>a, <1>b, <1>c, <1>d, Types DEF ProgramInv
    <3>2. ~(began'[p] >= 0)
      BY <1>a, <1>b DEF ProgramInv
    <3> QED BY <1>b, <1>c, <1>d, <2>1, <3>1, <3>2 DEF ProgramInv
  <2>2. CASE q # p
    <3>1. /\ token[q] \in 1..renewals => token[q] \in 1..renewals'
          /\ token[q] <= renewals' /\ loaded[q].refresh <= renewals'
      BY <1>a, <1>b, <1>d, Types DEF ProgramInv
    <3> QED BY <1>a, <1>b, <1>c, <2>2, <3>1 DEF ProgramInv
  <2> QED BY <2>1, <2>2
<1>4. RefreshInv'
  BY <1>a, <1>b, <1>c, <1>d DEF RefreshInv
<1>5. SavedInv'
  <2> SUFFICES ASSUME Clean' PROVE SavedInv'
    BY DEF SavedInv
  <2>1. Clean /\ ~Writing(p)
    BY <1>b DEF Clean
  <2>2. \A q \in Programs : state'[q] = "saving" => q = p
    BY <1>c, <2>1 DEF Writing
  <2>3. \A q \in Programs : ~(step'[q] > 0)
    BY <1>c, <1>d, <1>3, <2>2 DEF ProgramInv
  <2> QED BY <1>a, <1>b, <2>1, <2>2, <2>3 DEF SavedInv
<1>6. FreshInv'
  <2>1. \A g \in 1..renewals : issued'[g] = issued[g]
    <3>1. \A g \in 1..renewals : g # renewals + 1 /\ g \in Tokens
      BY <1>a, <1>d, Types
    <3> QED BY <1>a, <1>b, <3>1 DEF TypeOK
  <2>2. ASSUME NEW q \in Programs, began'[q] >= 0, loaded'[q].auth # 0
        PROVE  began'[q] = began[q] /\ loaded'[q] = loaded[q] /\ token'[q] = token[q]
    <3>1. q # p
      BY <1>a, <1>b, <2>2 DEF ProgramInv
    <3> QED BY <1>b, <1>c, <3>1
  <2>3. renewals <= renewals'
    BY <1>b, <1>d
  <2> QED BY <1>a, <1>d, <2>1, <2>2, <2>3, FreshKept
<1>7. TypeOK'
  <2>1. renewals + 1 \in Tokens
    BY <1>a, <1>f, CredentialsAssumption, Types DEF CountInv, Tokens
  <2>2. issued' \in [Tokens -> 0..MaxTime] /\ renewals' \in Tokens /\ token' \in [Programs -> Tokens]
    <3>1. now \in 0..MaxTime
      BY <1>a DEF TypeOK
    <3> QED BY <1>a, <1>b, <2>1, <3>1, ExceptAt DEF TypeOK
  <2>3. state' \in [Programs -> {"off", "loading", "renewing", "saving", "serving"}]
    BY <1>a, <1>b, ExceptAt DEF TypeOK
  <2>4. step' \in [Programs -> 0..Len(Keys)]
    <3>1. 0 \in 0..Len(Keys)
      BY KeysAre
    <3> QED BY <1>a, <1>b, <3>1, ExceptAt DEF TypeOK
  <2>5. torn' \subseteq {"cut", "lost", "mixed"}
    BY <1>a, <1>b DEF TypeOK
  <2> QED BY <1>a, <1>b, <1>d, <2>2, <2>3, <2>4, <2>5, UniqueKept DEF TypeOK, Tokens
<1> QED BY <1>1, <1>2, <1>3, <1>4, <1>5, <1>6, <1>7 DEF IInv

\* A renewal without an answer ends the program, and leaves the file alone.
LEMMA RenewFailedSteps ==
  ASSUME IInv, NEW p \in Programs, RenewFailed(p)
  PROVE  IInv'
<1>a. /\ TypeOK /\ CountInv /\ RowsInv /\ (\A q \in Programs : ProgramInv(q))
      /\ RefreshInv /\ SavedInv /\ FreshInv
  BY DEF IInv
<1>b. /\ state[p] = "renewing" /\ state' = [state EXCEPT ![p] = "off"]
      /\ loaded' = [loaded EXCEPT ![p] = Blank]
      /\ UNCHANGED <<now, issued, renewals, db, step, token, runs>>
      /\ UNCHANGED <<began, torn, emptied>>
  BY DEF RenewFailed, To, history
<1>c. /\ state'[p] = "off" /\ loaded'[p] = Blank
      /\ \A q \in Programs : q # p => state'[q] = state[q] /\ loaded'[q] = loaded[q]
  BY <1>a, <1>b, ExceptAt DEF TypeOK
<1>d. step[p] = 0 /\ ~(began[p] >= 0) /\ renewals \in Nat
  BY <1>a, <1>b, Types DEF ProgramInv
<1>1. CountInv'
  <2>1. Renewing' \subseteq Renewing
    BY <1>c DEF Renewing
  <2> QED BY <1>a, <1>b, <2>1, CountKept
<1>2. RowsInv'
  BY <1>a, <1>b DEF RowsInv
<1>3. ASSUME NEW q \in Programs PROVE ProgramInv(q)'
  <2>1. CASE q = p
    <3>1. loaded'[p].refresh = 0 /\ 0 <= renewals
      BY <1>c, <1>d DEF Blank
    <3> QED BY <1>a, <1>b, <1>c, <1>d, <2>1, <3>1 DEF ProgramInv
  <2>2. CASE q # p
    BY <1>a, <1>b, <1>c, <2>2 DEF ProgramInv
  <2> QED BY <2>1, <2>2
<1>4. RefreshInv'
  BY <1>a, <1>b DEF RefreshInv
<1>5. SavedInv'
  BY <1>a, <1>b, <1>c, SavedKept
<1>6. FreshInv'
  <2>1. ASSUME NEW q \in Programs, began'[q] >= 0, loaded'[q].auth # 0
        PROVE  began'[q] = began[q] /\ loaded'[q] = loaded[q] /\ token'[q] = token[q]
    BY <1>b, <1>c, <1>d, <2>1
  <2> QED BY <1>a, <1>b, <1>d, <2>1, FreshKept
<1>7. TypeOK'
  <2>1. state' \in [Programs -> {"off", "loading", "renewing", "saving", "serving"}]
    BY <1>a, <1>b, ExceptAt DEF TypeOK
  <2>2. loaded' \in [Programs -> [auth : Tokens, refresh : Tokens]]
    <3>1. Blank \in [auth : Tokens, refresh : Tokens]
      BY <1>a, Types DEF Blank
    <3> QED BY <1>a, <1>b, <3>1, ExceptAt DEF TypeOK
  <2>3. UNCHANGED torn
    BY <1>b
  <2> QED BY <1>a, <1>b, <2>1, <2>2, <2>3, UniqueKept DEF TypeOK, Tokens
<1> QED BY <1>1, <1>2, <1>3, <1>4, <1>5, <1>6, <1>7 DEF IInv

\* The DELETE of a save: nothing is left, or the statement was lost.
LEMMA SaveDeleteSteps ==
  ASSUME IInv, NEW p \in Programs, SaveDelete(p)
  PROVE  IInv'
<1>a. /\ TypeOK /\ CountInv /\ RowsInv /\ (\A q \in Programs : ProgramInv(q))
      /\ RefreshInv /\ SavedInv /\ FreshInv
  BY DEF IInv
<1>b. /\ state[p] = "saving" /\ step[p] = 0 /\ step' = [step EXCEPT ![p] = 1]
      /\ UNCHANGED <<now, issued, renewals, state, loaded, token, runs, began>>
  BY DEF SaveDelete
<1>c. /\ emptied' = emptied
      /\ \/ db' = <<>> /\ torn' = torn
         \/ db' = db /\ torn' = torn \cup {"lost"}
  <2>1. emptied \in BOOLEAN
    BY <1>a DEF TypeOK
  <2>2. (emptied \/ FALSE) = emptied
    BY <2>1, Zenon
  <2> QED BY <2>2 DEF SaveDelete, Statement, Delete
<1>d. step'[p] = 1 /\ \A q \in Programs : q # p => step'[q] = step[q]
  BY <1>a, <1>b, ExceptAt DEF TypeOK
<1>e. torn \subseteq torn' /\ renewals \in Nat
  BY <1>a, <1>c, Types
<1>1. CountInv'
  <2>1. Renewing' \subseteq Renewing
    BY <1>b DEF Renewing
  <2> QED BY <1>a, <1>b, <2>1, CountKept
<1>2. RowsInv'
  <2>1. CASE db' = <<>>
    BY <2>1 DEF RowsInv
  <2>2. CASE db' = db
    BY <1>a, <1>b, <2>2 DEF RowsInv
  <2> QED BY <1>c, <2>1, <2>2
<1>3. ASSUME NEW q \in Programs PROVE ProgramInv(q)'
  <2>1. CASE q = p
    BY <1>a, <1>b, <2>1 DEF ProgramInv
  <2>2. CASE q # p
    BY <1>a, <1>b, <1>d, <2>2 DEF ProgramInv
  <2> QED BY <2>1, <2>2
<1>4. RefreshInv'
  BY <1>d DEF RefreshInv
<1>5. SavedInv'
  <2> SUFFICES ASSUME Clean' PROVE SavedInv'
    BY DEF SavedInv
  <2>1. db' = <<>> /\ torn' = torn /\ Clean
    BY <1>c DEF Clean
  <2>2. \A q, r \in Programs : state'[q] = "saving" /\ state'[r] = "saving" => q = r
    BY <1>a, <1>b, <2>1 DEF SavedInv
  <2>3. ASSUME NEW q \in Programs, step'[q] > 0
        PROVE  Len(db') = step'[q] - 1 /\ ~(Len(db') >= 1)
    <3>1. state[q] = "saving"
      BY <1>b, <1>3, <2>3 DEF ProgramInv
    <3>2. q = p
      BY <1>b, <2>2, <3>1
    <3> QED BY <1>d, <2>1, <3>2
  <2> QED BY <2>1, <2>2, <2>3 DEF SavedInv
<1>6. FreshInv'
  BY <1>a, <1>b, <1>e, FreshKept
<1>7. TypeOK'
  <2>1. step' \in [Programs -> 0..Len(Keys)]
    <3>1. 1 \in 0..Len(Keys)
      BY KeysAre
    <3> QED BY <1>a, <1>b, <3>1, ExceptAt DEF TypeOK
  <2>2. torn' \subseteq {"cut", "lost", "mixed"} /\ emptied' \in BOOLEAN
    BY <1>a, <1>c DEF TypeOK
  <2>3. /\ \A i \in DOMAIN db' : db'[i][1] \in ToSet(Keys) /\ db'[i][2] \in Tokens
        /\ torn' \cap {"lost", "mixed"} = {} =>
             \A i, j \in DOMAIN db' : db'[i][1] = db'[j][1] => i = j
    <3>1. CASE db' = <<>>
      BY <3>1
    <3>2. CASE db' = db
      BY <1>a, <1>e, <3>2, UniqueKept
    <3> QED BY <1>c, <3>1, <3>2
  <2> QED BY <1>a, <1>b, <2>1, <2>2, <2>3 DEF TypeOK, Tokens
<1> QED BY <1>1, <1>2, <1>3, <1>4, <1>5, <1>6, <1>7 DEF IInv

\* An INSERT of a save: the next row of the renewal is there, or the statement
\* was lost; with the last one the refresh token is back.
LEMMA SaveInsertSteps ==
  ASSUME IInv, NEW p \in Programs, SaveInsert(p)
  PROVE  IInv'
<1>a. /\ TypeOK /\ CountInv /\ RowsInv /\ (\A q \in Programs : ProgramInv(q))
      /\ RefreshInv /\ SavedInv /\ FreshInv
  BY DEF IInv
<1> DEFINE i == step[p]
           row == <<Keys[i], Value(p, Keys[i])>>
<1>b. /\ state[p] = "saving" /\ i > 0
      /\ UNCHANGED <<now, issued, renewals, loaded, token, runs, began>>
  BY DEF SaveInsert
<1>c. i \in 1..4 /\ renewals \in Nat
  BY <1>a, <1>b, Types
<1>d. \/ i < 4 /\ step' = [step EXCEPT ![p] = i + 1] /\ state' = state
      \/ i = 4 /\ step' = [step EXCEPT ![p] = 0] /\ state' = [state EXCEPT ![p] = "serving"]
  BY <1>c, KeysAre DEF SaveInsert, To
<1>e. \/ db' = Append(db, row) /\ torn' = torn /\ emptied' = emptied
      \/ db' = db /\ torn' = torn \cup {"lost"} /\ emptied' = (emptied \/ Keys[i] = "REFRESH_TOKEN")
  BY DEF SaveInsert, Statement
<1>f. /\ i < 4 => step'[p] = i + 1 /\ state'[p] = "saving"
      /\ i = 4 => step'[p] = 0 /\ state'[p] = "serving"
      /\ \A q \in Programs : q # p => step'[q] = step[q] /\ state'[q] = state[q]
  <2>1. /\ step \in [Programs -> 0..Len(Keys)] /\ state[p] = "saving"
        /\ state \in [Programs -> {"off", "loading", "renewing", "saving", "serving"}]
    BY <1>a, <1>b DEF TypeOK
  <2> HIDE DEF i
  <2>2. CASE i < 4 /\ step' = [step EXCEPT ![p] = i + 1] /\ state' = state
    BY <1>c, <2>1, <2>2, ExceptAt
  <2>3. CASE i = 4 /\ step' = [step EXCEPT ![p] = 0] /\ state' = [state EXCEPT ![p] = "serving"]
    BY <1>c, <2>1, <2>3, ExceptAt
  <2> QED BY <1>d, <2>2, <2>3
<1>g. /\ row[1] = Keys[i] /\ row[2] = Value(p, Keys[i])
      /\ row \in ToSet(Keys) \X Tokens /\ row[2] \in 1..renewals
      /\ i \in {1, 2} => row[2] = token[p]
  <2>1. token[p] \in 1..renewals /\ loaded[p].refresh \in 1..renewals /\ 1 \in 1..renewals
    BY <1>a, <1>b, <1>c, Types DEF ProgramInv, CountInv
  <2>2. Value(p, Keys[i]) \in 1..renewals /\ (i \in {1, 2} => Value(p, Keys[i]) = token[p])
    BY <1>c, <2>1, KeysAre DEF Value, RefreshToken
  <2>3. Keys[i] \in ToSet(Keys) /\ Value(p, Keys[i]) \in Tokens
    BY <1>a, <1>c, <2>2, KeysAre, Types
  <2> QED BY <2>2, <2>3
<1> HIDE DEF row
<1>h. torn \subseteq torn' /\ db \in Seq(ToSet(Keys) \X Tokens)
  BY <1>a, <1>e DEF RowsInv
<1>i. /\ Len(Append(db, row)) = Len(db) + 1 /\ DOMAIN Append(db, row) = 1..(Len(db) + 1)
      /\ Append(db, row) \in Seq(ToSet(Keys) \X Tokens) /\ Len(db) \in Nat /\ DOMAIN db = 1..Len(db)
      /\ Append(db, row)[Len(db) + 1] = row
      /\ \A k \in DOMAIN db : Append(db, row)[k] = db[k]
  BY <1>g, <1>h
<1>1. CountInv'
  <2>1. Renewing' \subseteq Renewing
    BY <1>c, <1>f DEF Renewing
  <2> QED BY <1>a, <1>b, <2>1, CountKept
<1>2. RowsInv'
  <2>1. CASE db' = Append(db, row)
    <3>1. ASSUME NEW k \in DOMAIN db' PROVE db'[k][2] \in 1..renewals'
      <4>1. k \in DOMAIN db \/ k = Len(db) + 1
        BY <1>i, <2>1, <3>1
      <4> QED BY <1>a, <1>b, <1>g, <1>i, <2>1, <4>1 DEF RowsInv
    <3> QED BY <1>i, <2>1, <3>1 DEF RowsInv
  <2>2. CASE db' = db
    BY <1>a, <1>b, <2>2 DEF RowsInv
  <2> QED BY <1>e, <2>1, <2>2
<1>3. ASSUME NEW q \in Programs PROVE ProgramInv(q)'
  <2>1. CASE q = p
    <3>1. ~(began[p] >= 0)
      BY <1>a, <1>b DEF ProgramInv
    <3> QED BY <1>a, <1>b, <1>c, <1>f, <2>1, <3>1 DEF ProgramInv
  <2>2. CASE q # p
    BY <1>a, <1>b, <1>f, <2>2 DEF ProgramInv
  <2> QED BY <2>1, <2>2
<1>4. RefreshInv'
  <2>1. CASE i < 4
    <3>1. step'[p] > 0
      BY <1>c, <1>f, <2>1
    <3> QED BY <3>1 DEF RefreshInv
  <2>2. CASE i = 4 /\ db' = Append(db, row)
    <3>1. Len(db) + 1 \in DOMAIN db' /\ db'[Len(db) + 1][1] = "REFRESH_TOKEN"
      BY <1>g, <1>i, <2>2, KeysAre
    <3> QED BY <3>1 DEF RefreshInv
  <2>3. CASE i = 4 /\ emptied' = (emptied \/ Keys[i] = "REFRESH_TOKEN")
    <3>1. Keys[i] = "REFRESH_TOKEN"
      BY <2>3, KeysAre
    <3>2. emptied'
      BY <2>3, <3>1, Zenon
    <3> QED BY <3>2 DEF RefreshInv
  <2> QED BY <1>c, <1>e, <2>1, <2>2, <2>3
<1>5. ASSUME Clean'
      PROVE  /\ db' = Append(db, row) /\ Len(db) = i - 1 /\ Len(db') <= 4
             /\ \A k \in DOMAIN db' : db'[k][1] = Keys[k]
             /\ SavedInv'
  <2>1. db' = Append(db, row) /\ Clean
    BY <1>e, <1>5 DEF Clean
  <2>2. /\ \A q, r \in Programs : state[q] = "saving" /\ state[r] = "saving" => q = r
        /\ \A k \in DOMAIN db : db[k][1] = Keys[k]
        /\ Len(db) >= 2 => db[1][2] = db[2][2]
        /\ Len(db) = i - 1 /\ (Len(db) >= 1 => db[1][2] = token[p])
    BY <1>a, <1>b, <2>1 DEF SavedInv
  <2>3. Len(db') = i /\ Len(db) + 1 = i /\ DOMAIN db' = 1..i
    BY <1>c, <1>i, <2>1, <2>2
  <2>4. ASSUME NEW k \in DOMAIN db' PROVE db'[k][1] = Keys[k]
    <3>1. k \in DOMAIN db \/ k = i
      BY <1>i, <2>3, <2>4
    <3> QED BY <1>g, <1>i, <2>1, <2>2, <2>3, <3>1
  <2>5. db'[1][2] = token[p]
    <3>1. CASE i = 1
      BY <1>g, <1>i, <2>1, <2>3, <3>1
    <3>2. CASE i # 1
      <4>1. 1 \in DOMAIN db /\ Len(db) >= 1
        BY <1>c, <1>i, <2>3, <3>2
      <4> QED BY <1>i, <2>1, <2>2, <4>1
    <3> QED BY <3>1, <3>2
  <2>6. i >= 2 => db'[1][2] = db'[2][2]
    <3>1. CASE i = 2
      BY <1>g, <1>i, <2>1, <2>3, <2>5, <3>1
    <3>2. CASE i > 2
      <4>1. 1 \in DOMAIN db /\ 2 \in DOMAIN db /\ Len(db) >= 2
        BY <1>c, <1>i, <2>3, <3>2
      <4> QED BY <1>i, <2>1, <2>2, <4>1
    <3> QED BY <1>c, <3>1, <3>2
  <2>7. \A q, r \in Programs : state'[q] = "saving" /\ state'[r] = "saving" => q = r
    BY <1>b, <1>c, <1>f, <2>2
  <2>8. ASSUME NEW q \in Programs, step'[q] > 0
        PROVE  Len(db') = step'[q] - 1 /\ db'[1][2] = token'[q]
    <3>1. state[q] = "saving"
      <4>1. state'[q] = "saving"
        BY <1>3, <2>8 DEF ProgramInv
      <4> QED BY <1>b, <1>f, <4>1
    <3>2. q = p
      BY <1>b, <2>2, <3>1
    <3>3. step'[p] = i + 1
      BY <1>c, <1>f, <2>8, <3>2
    <3> QED BY <1>b, <1>c, <2>3, <2>5, <3>2, <3>3
  <2>9. Len(db') <= 4
    BY <1>c, <2>3
  <2> QED BY <2>1, <2>2, <2>3, <2>4, <2>6, <2>7, <2>8, <2>9 DEF SavedInv
<1>6. SavedInv'
  BY <1>5 DEF SavedInv
<1>7. FreshInv'
  BY <1>a, <1>b, <1>c, <1>h, FreshKept
<1>8. TypeOK'
  <2>1. step' \in [Programs -> 0..Len(Keys)]
    <3>1. 0 \in 0..Len(Keys) /\ (i < 4 => i + 1 \in 0..Len(Keys))
      BY <1>c, KeysAre
    <3>2. step \in [Programs -> 0..Len(Keys)]
      BY <1>a DEF TypeOK
    <3> HIDE DEF i
    <3> QED BY <1>d, <3>1, <3>2
  <2>2. state' \in [Programs -> {"off", "loading", "renewing", "saving", "serving"}]
    BY <1>a, <1>d, ExceptAt DEF TypeOK
  <2>3. torn' \subseteq {"cut", "lost", "mixed"} /\ emptied' \in BOOLEAN
    <3>1. (emptied \/ Keys[i] = "REFRESH_TOKEN") \in BOOLEAN
      BY Zenon
    <3> QED BY <1>a, <1>e, <3>1 DEF TypeOK
  <2>4. \A k \in DOMAIN db' : db'[k][1] \in ToSet(Keys) /\ db'[k][2] \in Tokens
    BY <1>2 DEF RowsInv, Tokens
  <2>5. Clean' => \A j, k \in DOMAIN db' : db'[j][1] = db'[k][1] => j = k
    <3> SUFFICES ASSUME Clean' PROVE \A j, k \in DOMAIN db' : db'[j][1] = db'[k][1] => j = k
      OBVIOUS
    <3>1. Len(db') <= 4 /\ (\A k \in DOMAIN db' : db'[k][1] = Keys[k]) /\ db' \in Seq(ToSet(Keys) \X Tokens)
      BY <1>5, <1>i
    <3> QED BY <3>1, PrefixDiffers
  <2> QED BY <1>a, <1>b, <2>1, <2>2, <2>3, <2>4, <2>5 DEF TypeOK, Tokens, Clean
<1> QED BY <1>1, <1>2, <1>3, <1>4, <1>6, <1>7, <1>8 DEF IInv

\* A program ends; only a save that is under way can lose something by it.
LEMMA EndSteps ==
  ASSUME IInv, NEW p \in Programs, End(p)
  PROVE  IInv'
<1>a. /\ TypeOK /\ CountInv /\ RowsInv /\ (\A q \in Programs : ProgramInv(q))
      /\ RefreshInv /\ SavedInv /\ FreshInv
  BY DEF IInv
<1>b. /\ state' = [state EXCEPT ![p] = "off"] /\ step' = [step EXCEPT ![p] = 0]
      /\ torn' = (IF state[p] = "saving" THEN torn \cup {"cut"} ELSE torn)
      /\ emptied' = (emptied \/ step[p] > 0)
      /\ loaded' = [loaded EXCEPT ![p] = Blank] /\ token' = [token EXCEPT ![p] = 0]
      /\ began' = [began EXCEPT ![p] = -1]
      /\ UNCHANGED <<now, issued, renewals, db, runs>>
  BY DEF End, To
<1>c. /\ state'[p] = "off" /\ step'[p] = 0 /\ loaded'[p] = Blank /\ token'[p] = 0 /\ began'[p] = -1
      /\ \A q \in Programs : q # p =>
           /\ state'[q] = state[q] /\ step'[q] = step[q] /\ loaded'[q] = loaded[q]
           /\ token'[q] = token[q] /\ began'[q] = began[q]
  BY <1>a, <1>b, ExceptAt DEF TypeOK
<1>d. torn \subseteq torn' /\ renewals \in Nat
  BY <1>a, <1>b, Types
<1>1. CountInv'
  <2>1. Renewing' \subseteq Renewing
    BY <1>c DEF Renewing
  <2> QED BY <1>a, <1>b, <2>1, CountKept
<1>2. RowsInv'
  BY <1>a, <1>b DEF RowsInv
<1>3. ASSUME NEW q \in Programs PROVE ProgramInv(q)'
  <2>1. CASE q = p
    <3>1. loaded'[p].refresh = 0 /\ 0 <= renewals
      BY <1>c, <1>d DEF Blank
    <3> QED BY <1>b, <1>c, <2>1, <3>1 DEF ProgramInv
  <2>2. CASE q # p
    BY <1>a, <1>b, <1>c, <2>2 DEF ProgramInv
  <2> QED BY <2>1, <2>2
<1>4. RefreshInv'
  <2>1. CASE step[p] > 0 \/ emptied
    <3>1. emptied'
      BY <1>b, <2>1, Zenon
    <3> QED BY <3>1 DEF RefreshInv
  <2>2. CASE ~(step[p] > 0) /\ ~emptied
    BY <1>a, <1>b, <1>c, <2>2 DEF RefreshInv
  <2> QED BY <2>1, <2>2
<1>5. SavedInv'
  BY <1>a, <1>b, <1>c, <1>d, SavedKept
<1>6. FreshInv'
  <2>1. ASSUME NEW q \in Programs, began'[q] >= 0, loaded'[q].auth # 0
        PROVE  began'[q] = began[q] /\ loaded'[q] = loaded[q] /\ token'[q] = token[q]
    BY <1>c, <2>1
  <2> QED BY <1>a, <1>b, <1>d, <2>1, FreshKept
<1>7. TypeOK'
  <2>1. state' \in [Programs -> {"off", "loading", "renewing", "saving", "serving"}]
    BY <1>a, <1>b, ExceptAt DEF TypeOK
  <2>2. loaded' \in [Programs -> [auth : Tokens, refresh : Tokens]]
    <3>1. Blank \in [auth : Tokens, refresh : Tokens]
      BY <1>a, Types DEF Blank
    <3> QED BY <1>a, <1>b, <3>1, ExceptAt DEF TypeOK
  <2>3. token' \in [Programs -> Tokens]
    <3>1. 0 \in Tokens
      BY <1>a, Types
    <3> QED BY <1>a, <1>b, <3>1, ExceptAt DEF TypeOK
  <2>4. step' \in [Programs -> 0..Len(Keys)] /\ began' \in [Programs -> -1..MaxTime]
    <3>1. 0 \in 0..Len(Keys) /\ -1 \in -1..MaxTime
      BY CredentialsAssumption, KeysAre
    <3> QED BY <1>a, <1>b, <3>1, ExceptAt DEF TypeOK
  <2>5. torn' \subseteq {"cut", "lost", "mixed"} /\ emptied' \in BOOLEAN
    <3>1. (emptied \/ step[p] > 0) \in BOOLEAN
      BY Zenon
    <3> QED BY <1>a, <1>b, <3>1 DEF TypeOK
  <2> QED BY <1>a, <1>b, <1>d, <2>1, <2>2, <2>3, <2>4, <2>5, UniqueKept DEF TypeOK, Tokens
<1> QED BY <1>1, <1>2, <1>3, <1>4, <1>5, <1>6, <1>7 DEF IInv

\* Time passes, which no part of the invariant is about.
LEMMA TickSteps ==
  ASSUME IInv, Tick
  PROVE  IInv'
<1>a. /\ TypeOK /\ CountInv /\ RowsInv /\ (\A q \in Programs : ProgramInv(q))
      /\ RefreshInv /\ SavedInv /\ FreshInv
  BY DEF IInv
<1>b. /\ now < MaxTime /\ now' = now + 1
      /\ UNCHANGED <<issued, renewals, db, state, step, loaded, token, runs>>
      /\ UNCHANGED <<began, torn, emptied>>
  BY DEF Tick, programVars, history
<1>1. CountInv'
  BY <1>a, <1>b, CountKept DEF Renewing
<1>2. RowsInv'
  BY <1>a, <1>b DEF RowsInv
<1>3. ASSUME NEW q \in Programs PROVE ProgramInv(q)'
  BY <1>a, <1>b DEF ProgramInv
<1>4. RefreshInv'
  BY <1>a, <1>b DEF RefreshInv
<1>5. SavedInv'
  BY <1>a, <1>b, SavedKept
<1>6. FreshInv'
  BY <1>a, <1>b, FreshKept, Types
<1>7. TypeOK'
  <2>1. now' \in 0..MaxTime /\ UNCHANGED torn
    BY <1>a, <1>b, CredentialsAssumption, Types
  <2> QED BY <1>a, <1>b, <2>1, UniqueKept DEF TypeOK, Tokens
<1> QED BY <1>1, <1>2, <1>3, <1>4, <1>5, <1>6, <1>7 DEF IInv

\* After the registration the file has its token.
LEMMA InitSteps ==
  ASSUME Init
  PROVE  IInv
<1>1. /\ now = 0 /\ renewals = 1 /\ runs = 0 /\ torn = {} /\ emptied = FALSE
      /\ issued = [g \in Tokens |-> 0] /\ state = [p \in Programs |-> "off"]
      /\ step = [p \in Programs |-> 0] /\ loaded = [p \in Programs |-> Blank]
      /\ token = [p \in Programs |-> 0] /\ began = [p \in Programs |-> -1]
  BY DEF Init
<1>2. 0 \in Tokens /\ 1 \in Tokens /\ Tokens \subseteq Nat /\ 0 \in 0..MaxTime
  BY CredentialsAssumption DEF Tokens
<1>3. /\ db \in Seq(ToSet(Keys) \X Tokens) /\ Len(db) = 4 /\ DOMAIN db = 1..4
      /\ \A i \in 1..4 : db[i][1] = Keys[i] /\ db[i][2] = 1
  <2>1. db = [i \in 1..4 |-> <<Keys[i], 1>>]
    BY KeysAre DEF Init
  <2>2. \A i \in 1..4 : Keys[i] \in ToSet(Keys)
    BY KeysAre
  <2> QED BY <1>2, <2>1, <2>2
<1>4. CountInv
  <2>1. Renewing = {}
    BY <1>1 DEF Renewing
  <2> QED BY <1>1, <2>1, FS_EmptySet DEF CountInv
<1>5. RowsInv
  BY <1>1, <1>3 DEF RowsInv
<1>6. ASSUME NEW p \in Programs PROVE ProgramInv(p)
  BY <1>1 DEF ProgramInv, Blank
<1>7. RefreshInv
  BY <1>3, KeysAre DEF RefreshInv
<1>8. SavedInv
  BY <1>1, <1>3 DEF SavedInv
<1>9. FreshInv
  BY <1>1 DEF FreshInv
<1>10. TypeOK
  <2>1. \A i, j \in DOMAIN db : db[i][1] = db[j][1] => i = j
    <3>1. Len(db) <= 4 /\ \A i \in DOMAIN db : db[i][1] = Keys[i]
      BY <1>3
    <3> QED BY <1>3, <3>1, PrefixDiffers
  <2>2. \A i \in DOMAIN db : db[i][1] \in ToSet(Keys) /\ db[i][2] \in Tokens
    BY <1>2, <1>3, KeysAre
  <2>3. loaded \in [Programs -> [auth : Tokens, refresh : Tokens]]
    BY <1>1, <1>2 DEF Blank
  <2>4. issued \in [Tokens -> 0..MaxTime] /\ renewals \in Tokens /\ token \in [Programs -> Tokens]
    BY <1>1, <1>2
  <2>5. step \in [Programs -> 0..Len(Keys)] /\ began \in [Programs -> -1..MaxTime]
    BY <1>1, CredentialsAssumption, KeysAre
  <2> QED BY <1>1, <1>2, <2>1, <2>2, <2>3, <2>4, <2>5, CredentialsAssumption DEF TypeOK
<1> QED BY <1>4, <1>5, <1>6, <1>7, <1>8, <1>9, <1>10 DEF IInv

-----------------------------------------------------------------------------
(* The theorems.                                                           *)

\* No step of any program, and no tick, leaves the invariant.
THEOREM Invariance == Spec => []IInv
<1>1. Init => IInv
  BY InitSteps
<1>2. IInv /\ [Next]_vars => IInv'
  <2> SUFFICES ASSUME IInv, [Next]_vars PROVE IInv'
    OBVIOUS
  <2>1. CASE Tick
    BY <2>1, TickSteps
  <2>2. ASSUME NEW p \in Programs, Program(p) PROVE IInv'
    BY <2>2, StartSteps, LoadDataSteps, RenewAuthSteps, RenewFailedSteps, SaveDeleteSteps,
       SaveInsertSteps, EndSteps DEF Program
  <2>3. CASE UNCHANGED vars
    <3>1. /\ UNCHANGED <<now, issued, renewals, db, state, step, loaded, token, runs>>
          /\ UNCHANGED <<began, torn, emptied>>
      BY <2>3 DEF vars, programVars, history
    <3>2. TypeOK'
      BY <3>1 DEF IInv, TypeOK
    <3>3. CountInv' /\ RowsInv' /\ RefreshInv' /\ FreshInv'
      BY <3>1 DEF IInv, CountInv, Renewing, RowsInv, RefreshInv, FreshInv, Clean
    <3>4. SavedInv' /\ \A p \in Programs : ProgramInv(p)'
      BY <3>1 DEF IInv, SavedInv, ProgramInv, Clean
    <3> QED BY <3>2, <3>3, <3>4 DEF IInv
  <2> QED BY <2>1, <2>2, <2>3 DEF Next
<1> QED BY <1>1, <1>2, PTL DEF Spec

\* Every variable keeps its type: there are never more renewals than starts of
\* programs, and the file has no two rows of a key unless two saves overlapped
\* or a DELETE failed.
THEOREM TypeCorrect == Spec => []TypeOK
<1>1. IInv => TypeOK
  BY DEF IInv
<1> QED BY <1>1, Invariance, PTL

\* The refresh token is in the file whenever no save is under way, unless a save
\* was cut short after its DELETE or its INSERT of the token failed: whatever
\* the number of programs, and however their saves overlap.
THEOREM RefreshKeptHolds == Spec => []RefreshKept
<1>1. IInv => RefreshKept
  <2> SUFFICES ASSUME IInv, \A p \in Programs : state[p] # "saving", ~emptied
               PROVE  FirstRows(db)["REFRESH_TOKEN"] # 0
    BY DEF RefreshKept
  <2>1. \A p \in Programs : ~(step[p] > 0)
    BY DEF IInv, ProgramInv
  <2>2. PICK i \in DOMAIN db : db[i][1] = "REFRESH_TOKEN"
    BY <2>1 DEF IInv, RefreshInv
  <2>3. db \in Seq(ToSet(Keys) \X Tokens) /\ \A j \in DOMAIN db : db[j][2] \in 1..renewals
    BY DEF IInv, RowsInv
  <2>4. "REFRESH_TOKEN" \in ToSet(Keys)
    BY KeysAre
  <2>5. PICK j \in DOMAIN db : FirstRows(db)["REFRESH_TOKEN"] = db[j][2]
    BY <2>2, <2>3, <2>4, FirstRowFound
  <2> QED BY <2>3, <2>5
<1> QED BY <1>1, Invariance, PTL

\* A program that takes the saved access token for good has one that has not
\* expired, as long as local time is not behind UTC, no statement was lost and
\* no two saves overlapped, however many saves were cut short.
THEOREM StartsFreshHolds == Spec => []StartsFresh
<1>1. IInv => StartsFresh
  <2> SUFFICES ASSUME IInv, Clean, Offset >= 0, NEW p \in Programs, began[p] >= 0, loaded[p].auth # 0
               PROVE  token[p] # 0 /\ began[p] - issued[token[p]] <= Life
    BY DEF StartsFresh, Clean
  <2>1. token[p] \in 1..renewals /\ began[p] - issued[token[p]] <= Life
    BY DEF IInv, FreshInv
  <2> QED BY <2>1
<1> QED BY <1>1, Invariance, PTL

-----------------------------------------------------------------------------
(* Induction, without an operator as a parameter.                          *)

\* Induction, for a set of natural numbers.
LEMMA SetInduction ==
  ASSUME NEW A, 0 \in A, \A n \in Nat : n \in A => n + 1 \in A
  PROVE  Nat \subseteq A
<1> SUFFICES ASSUME ~(Nat \subseteq A) PROVE FALSE
  OBVIOUS
<1>1. PICK n \in Nat \ A : \A m \in Nat \ A : n <= m
  <2> DEFINE I == Nat \ A
  <2>1. I \subseteq Nat /\ I # {}
    OBVIOUS
  <2> HIDE DEF I
  <2>2. Min(I) \in I /\ \A m \in I : Min(I) <= m
    BY <2>1, LeastOf
  <2>3. \E n \in I : \A m \in I : n <= m
    BY <2>2
  <2> QED BY <2>3 DEF I
<1>2. n # 0 /\ n - 1 \in Nat /\ n - 1 \in A
  BY <1>1
<1> QED BY <1>1, <1>2

-----------------------------------------------------------------------------
(* What the lists of requests have.                                        *)

\* One step of the recursion of Chosen.
ChosenStep(s, S, first, n) ==
  IF n = 0 THEN <<>>
  ELSE IF s[n] \in S THEN Append(first[n - 1], s[n]) ELSE first[n - 1]

\* The recursion defines a function.
LEMMA ChosenExists ==
  ASSUME NEW s, NEW S
  PROVE  \A n \in Nat : \E f : f = [i \in 0..n |-> ChosenStep(s, S, f, i)]
<1> DEFINE A == {n \in Nat : \E f : f = [i \in 0..n |-> ChosenStep(s, S, f, i)]}
<1>1. 0 \in A
  <2> DEFINE f == [i \in 0..0 |-> <<>>]
  <2>1. f = [i \in 0..0 |-> ChosenStep(s, S, f, i)]
    BY DEF ChosenStep
  <2> QED BY <2>1
<1>2. ASSUME NEW n \in Nat, n \in A PROVE n + 1 \in A
  <2>1. PICK f : f = [i \in 0..n |-> ChosenStep(s, S, f, i)]
    BY <1>2
  <2> DEFINE g == [i \in 0..n+1 |-> IF i = n + 1 THEN ChosenStep(s, S, f, i) ELSE f[i]]
  <2>2. ASSUME NEW i \in 0..n+1 PROVE g[i] = ChosenStep(s, S, g, i)
    <3>1. i # 0 => i - 1 \in 0..n /\ g[i-1] = f[i-1]
      OBVIOUS
    <3>2. ChosenStep(s, S, g, i) = ChosenStep(s, S, f, i)
      BY <3>1 DEF ChosenStep
    <3>3. i # n + 1 => i \in 0..n /\ f[i] = ChosenStep(s, S, f, i)
      BY <2>1
    <3> QED BY <3>2, <3>3
  <2>3. g = [i \in 0..n+1 |-> g[i]]
    OBVIOUS
  <2> HIDE DEF g
  <2>4. g = [i \in 0..n+1 |-> ChosenStep(s, S, g, i)]
    BY <2>2, <2>3
  <2>5. \E h : h = [i \in 0..n+1 |-> ChosenStep(s, S, h, i)]
    BY <2>4
  <2> QED BY <2>5
<1> HIDE DEF A
<1>3. Nat \subseteq A
  BY <1>1, <1>2, SetInduction
<1> QED BY <1>3 DEF A

\* It has the members of the list that are in S.
LEMMA ChosenMembers ==
  ASSUME NEW T, NEW s \in Seq(T), NEW S
  PROVE  /\ Chosen(s, S) \in Seq(T)
         /\ \A x : x \in ToSet(Chosen(s, S)) <=> x \in ToSet(s) /\ x \in S
<1> DEFINE first == CHOOSE f : f = [n \in 0 .. Len(s) |-> ChosenStep(s, S, f, n)]
<1>0. Len(s) \in Nat /\ \A i \in 1 .. Len(s) : s[i] \in T
  OBVIOUS
<1>1. \E f : f = [n \in 0 .. Len(s) |-> ChosenStep(s, S, f, n)]
  BY <1>0, ChosenExists
<1>2. first = [n \in 0 .. Len(s) |-> ChosenStep(s, S, first, n)]
  BY <1>1, Zenon
<1>3. Chosen(s, S) = first[Len(s)]
  BY Zenon DEF Chosen, ChosenStep
<1> HIDE DEF first
<1> DEFINE Good(n) == n <= Len(s) =>
             /\ first[n] \in Seq(T)
             /\ \A x : (\E i \in 1 .. Len(first[n]) : first[n][i] = x)
                         <=> x \in S /\ \E i \in 1..n : s[i] = x
           A == {n \in Nat : Good(n)}
<1>4. 0 \in A
  <2>1. first[0] = <<>>
    BY <1>2 DEF ChosenStep
  <2>2. <<>> \in Seq(T) /\ Len(<<>>) = 0
    OBVIOUS
  <2>3. Good(0)
    BY <2>1, <2>2
  <2> QED BY <2>3
<1>5. ASSUME NEW n \in Nat, n \in A PROVE n + 1 \in A
  <2> SUFFICES ASSUME n + 1 <= Len(s) PROVE Good(n + 1)
    OBVIOUS
  <2>1. first[n + 1] = IF s[n + 1] \in S THEN Append(first[n], s[n + 1]) ELSE first[n]
    <3>1. n + 1 \in 0 .. Len(s) /\ n + 1 # 0 /\ (n + 1) - 1 = n
      BY <1>0
    <3>2. first[n + 1] = ChosenStep(s, S, first, n + 1)
      BY <1>2, <3>1
    <3> QED BY <3>1, <3>2 DEF ChosenStep
  <2>2. /\ first[n] \in Seq(T) /\ s[n + 1] \in T
        /\ \A x : (\E i \in 1 .. Len(first[n]) : first[n][i] = x)
                    <=> x \in S /\ \E i \in 1..n : s[i] = x
    <3>1. Good(n)
      BY <1>5
    <3>2. n <= Len(s) /\ s[n + 1] \in T
      BY <1>0
    <3> QED BY <3>1, <3>2
  <2>3. \A i : i \in 1 .. n + 1 <=> i \in 1..n \/ i = n + 1
    OBVIOUS
  <2>4. CASE s[n + 1] \notin S
    BY <2>1, <2>2, <2>3, <2>4
  <2>5. CASE s[n + 1] \in S
    <3> DEFINE t == Append(first[n], s[n + 1])
               m == Len(first[n])
    <3>1. /\ t \in Seq(T) /\ Len(t) = m + 1 /\ m \in Nat /\ t[m + 1] = s[n + 1]
          /\ \A i \in 1..m : t[i] = first[n][i]
      BY <2>2
    <3>2. \A i : i \in 1 .. m + 1 <=> i \in 1..m \/ i = m + 1
      BY <3>1
    <3>3. first[n + 1] = t
      BY <2>1, <2>5
    <3> HIDE DEF t, m
    <3>4. \A x : (\E i \in 1 .. m + 1 : t[i] = x) <=> (\E i \in 1..m : t[i] = x) \/ x = s[n + 1]
      BY <3>1, <3>2
    <3>5. \A x : (\E i \in 1..m : t[i] = x) <=> x \in S /\ \E i \in 1..n : s[i] = x
      BY <2>2, <3>1 DEF m
    <3>6. \A x : (\E i \in 1 .. n + 1 : s[i] = x) <=> (\E i \in 1..n : s[i] = x) \/ x = s[n + 1]
      BY <2>3
    <3> QED BY <2>5, <3>1, <3>3, <3>4, <3>5, <3>6
  <2> QED BY <2>4, <2>5
<1> HIDE DEF A
<1>6. Nat \subseteq A
  BY <1>4, <1>5, SetInduction
<1>7. Good(Len(s))
  BY <1>0, <1>6 DEF A
<1>8. ToSet(s) = {s[i] : i \in 1 .. Len(s)}
  BY DEF ToSet
<1>9. ToSet(first[Len(s)]) = {first[Len(s)][i] : i \in 1 .. Len(first[Len(s)])}
  BY <1>7 DEF ToSet
<1> QED BY <1>3, <1>7, <1>8, <1>9

\* A page has no other members than the list.
LEMMA PageMembers ==
  ASSUME NEW T, NEW list \in Seq(T)
  PROVE  FirstPage(list) \in Seq(T) /\ ToSet(FirstPage(list)) \subseteq ToSet(list)
<1>1. PageLength \in Nat
  BY VirtualDriveAssumption
<1> DEFINE n == IF Len(list) < PageLength THEN Len(list) ELSE PageLength
<1>2. n \in 0 .. Len(list)
  BY <1>1
<1>3. FirstPage(list) = SubSeq(list, 1, n)
  BY DEF FirstPage
<1> HIDE DEF n
<1>4. /\ SubSeq(list, 1, n) \in Seq(T) /\ Len(SubSeq(list, 1, n)) = n
      /\ \A i \in 1..n : SubSeq(list, 1, n)[i] = list[i]
  BY <1>2
<1> QED BY <1>2, <1>3, <1>4 DEF ToSet

\* What is in an account.
LEMMA AccountItems ==
  ASSUME NEW account \in Seq(Items)
  PROVE  \A item \in ToSet(account) :
           /\ item \in Items /\ item # Root /\ item # Nothing /\ item # Crash
           /\ item.parents[1] \in ToSet(item.parents)
<1>1. \A item \in ToSet(account) : item \in Items
  BY DEF ToSet
<1>2. Root.id = 0 /\ Nothing.id = -1 /\ Crash.id = -2
  BY DEF Root, Nothing, Crash, RootId
<1>3. \A item \in Items : item.id \in Nat \ {0} /\ item.parents \in Seq(Nat) /\ item.parents # <<>>
  BY DEF Items, RootId
<1>4. ASSUME NEW s \in Seq(Nat), s # <<>> PROVE s[1] \in ToSet(s)
  BY <1>4 DEF ToSet
<1> QED BY <1>1, <1>2, <1>3, <1>4

\* listRoot answers with live items of the root, and with all of the first page
\* whose first parent it is.
LEMMA RootListed ==
  ASSUME NEW account \in Seq(Items)
  PROVE  /\ ListRoot(account) \in Seq(Items)
         /\ \A item \in ToSet(ListRoot(account)) :
              item \in ToSet(account) /\ RootId \in ToSet(item.parents) /\ ~item.trashed
         /\ \A item \in ToSet(FirstPage(account)) :
              item.parents[1] = RootId /\ ~item.trashed => item \in ToSet(ListRoot(account))
<1> DEFINE S == {item \in ToSet(account) : item.parents[1] = RootId /\ ~item.trashed}
<1>1. ListRoot(account) = Chosen(FirstPage(account), S)
  BY DEF ListRoot
<1>2. FirstPage(account) \in Seq(Items) /\ ToSet(FirstPage(account)) \subseteq ToSet(account)
  BY PageMembers
<1>3. /\ ListRoot(account) \in Seq(Items)
      /\ \A x : x \in ToSet(ListRoot(account)) <=> x \in ToSet(FirstPage(account)) /\ x \in S
  <2> HIDE DEF S
  <2> QED BY <1>1, <1>2, ChosenMembers
<1> QED BY <1>2, <1>3, AccountItems

\* listFolder answers with live items of the folder, and with all of the first
\* page of them.
LEMMA FolderListed ==
  ASSUME NEW account \in Seq(Items), NEW id
  PROVE  /\ ListFolder(account, id) \in Seq(Items)
         /\ \A item \in ToSet(ListFolder(account, id)) :
              item \in ToSet(account) /\ id \in ToSet(item.parents) /\ ~item.trashed
         /\ \A item \in ToSet(FirstPage(InFolder(account, id))) :
              ~item.trashed => item \in ToSet(ListFolder(account, id))
<1> DEFINE S == {item \in ToSet(account) : id \in ToSet(item.parents)}
           L == {item \in ToSet(account) : ~item.trashed}
           folder == InFolder(account, id)
<1>1. /\ folder \in Seq(Items)
      /\ \A x : x \in ToSet(folder) <=> x \in ToSet(account) /\ x \in S
  <2>1. folder = Chosen(account, S)
    BY DEF InFolder
  <2> HIDE DEF S, folder
  <2> QED BY <2>1, ChosenMembers
<1>2. ListFolder(account, id) = Chosen(FirstPage(folder), L)
  BY DEF ListFolder
<1>3. FirstPage(folder) \in Seq(Items) /\ ToSet(FirstPage(folder)) \subseteq ToSet(folder)
  <2> HIDE DEF folder
  <2> QED BY <1>1, PageMembers
<1>4. /\ ListFolder(account, id) \in Seq(Items)
      /\ \A x : x \in ToSet(ListFolder(account, id)) <=> x \in ToSet(FirstPage(folder)) /\ x \in L
  <2> HIDE DEF L, folder
  <2> QED BY <1>2, <1>3, ChosenMembers
<1> QED BY <1>1, <1>3, <1>4

\* findNodeInList finds an item of the name, if there is one.
LEMMA NodeInList ==
  ASSUME NEW list \in Seq(Items), NEW name, NEW node, node = FindNodeInList(name, list)
  PROVE  /\ node = Nothing \/ (node \in ToSet(list) /\ ShownName(node) = name /\ Found(node))
         /\ \A item \in ToSet(list) : ShownName(item) = name => Found(node)
<1> DEFINE named == {i \in DOMAIN list : ShownName(list[i]) = name}
<1>1. node = IF named = {} THEN Nothing ELSE list[Min(named)]
  BY DEF FindNodeInList
<1>2. DOMAIN list = 1 .. Len(list) /\ ToSet(list) = {list[i] : i \in 1 .. Len(list)}
  BY DEF ToSet
<1>3. ASSUME named # {} PROVE node \in ToSet(list) /\ ShownName(node) = name
  <2>1. Min(named) \in named
    <3>1. named \subseteq Nat
      BY <1>2
    <3> HIDE DEF named
    <3> QED BY <1>3, <3>1, LeastOf
  <2> QED BY <1>1, <1>2, <1>3, <2>1
<1>4. node \in ToSet(list) => Found(node)
  BY AccountItems DEF Found
<1>5. \A item \in ToSet(list) : ShownName(item) = name => named # {}
  BY <1>2
<1> QED BY <1>1, <1>3, <1>4, <1>5

-----------------------------------------------------------------------------
(* A lookup, level by level.                                               *)

\* One step of the recursion of FindFile.
NodeStep(seen, path, node, i) ==
  IF i = 0 THEN FindNodeInList(GetFolder(path, 0), ListRoot(seen[1]))
  ELSE IF node[i - 1] \in {Nothing, Crash} THEN Crash
  ELSE FindNodeInList(GetFolder(path, i), ListFolder(seen[i + 1], node[i - 1].id))

Walk(seen, path, node) ==
  \A i \in 0 .. Len(path) - 1 : node[i] = NodeStep(seen, path, node, i)

\* The recursion defines a function.
LEMMA NodesExist ==
  ASSUME NEW seen, NEW path
  PROVE  \A n \in Nat : \E f : f = [i \in 0..n |-> NodeStep(seen, path, f, i)]
<1> DEFINE A == {n \in Nat : \E f : f = [i \in 0..n |-> NodeStep(seen, path, f, i)]}
<1>1. 0 \in A
  <2> DEFINE f == [i \in 0..0 |-> FindNodeInList(GetFolder(path, 0), ListRoot(seen[1]))]
  <2>1. f = [i \in 0..0 |-> NodeStep(seen, path, f, i)]
    BY DEF NodeStep
  <2> QED BY <2>1
<1>2. ASSUME NEW n \in Nat, n \in A PROVE n + 1 \in A
  <2>1. PICK f : f = [i \in 0..n |-> NodeStep(seen, path, f, i)]
    BY <1>2
  <2> DEFINE g == [i \in 0..n+1 |-> IF i = n + 1 THEN NodeStep(seen, path, f, i) ELSE f[i]]
  <2>2. ASSUME NEW i \in 0..n+1 PROVE g[i] = NodeStep(seen, path, g, i)
    <3>1. i # 0 => i - 1 \in 0..n /\ g[i-1] = f[i-1]
      OBVIOUS
    <3>2. NodeStep(seen, path, g, i) = NodeStep(seen, path, f, i)
      BY <3>1 DEF NodeStep
    <3>3. i # n + 1 => i \in 0..n /\ f[i] = NodeStep(seen, path, f, i)
      BY <2>1
    <3> QED BY <3>2, <3>3
  <2>3. g = [i \in 0..n+1 |-> g[i]]
    OBVIOUS
  <2> HIDE DEF g
  <2>4. g = [i \in 0..n+1 |-> NodeStep(seen, path, g, i)]
    BY <2>2, <2>3
  <2>5. \E h : h = [i \in 0..n+1 |-> NodeStep(seen, path, h, i)]
    BY <2>4
  <2> QED BY <2>5
<1> HIDE DEF A
<1>3. Nat \subseteq A
  BY <1>1, <1>2, SetInduction
<1> QED BY <1>3 DEF A

\* So findFile ends with the last node of a walk.
LEMMA FindFileWalks ==
  ASSUME NEW seen, NEW path \in Seq(STRING) \ {<<>>}, path # RootPath
  PROVE  \E node : Walk(seen, path, node) /\ FindFile(seen, path) = node[Len(path) - 1]
<1> DEFINE node == CHOOSE f : f = [i \in 0 .. GetFolderLevels(path) |-> NodeStep(seen, path, f, i)]
<1>1. GetFolderLevels(path) = Len(path) - 1 /\ GetFolderLevels(path) \in Nat
  BY DEF GetFolderLevels
<1>2. \E f : f = [i \in 0 .. GetFolderLevels(path) |-> NodeStep(seen, path, f, i)]
  BY <1>1, NodesExist
<1>3. node = [i \in 0 .. GetFolderLevels(path) |-> NodeStep(seen, path, node, i)]
  BY <1>2, Zenon
<1>4. FindFile(seen, path) = node[GetFolderLevels(path)]
  BY Zenon DEF FindFile, NodeStep
<1> HIDE DEF node
<1> QED BY <1>1, <1>3, <1>4 DEF Walk

\* What a node that was found has to do with the one before it.
Linked(seen, path, node, i) ==
  /\ Found(node[i - 1]) /\ node[i - 1] \in ToSet(seen[i])
  /\ ShownName(node[i - 1]) = path[i] /\ ~node[i - 1].trashed
  /\ (IF i = 1 THEN RootId ELSE node[i - 2].id) \in ToSet(node[i - 1].parents)

\* A node is found in a folder that was found.
LEMMA StepLinked ==
  ASSUME NEW path \in Seq(STRING) \ {<<>>}, NEW seen, NEW node, Walk(seen, path, node),
         NEW i \in 1 .. Len(path), seen[i] \in Seq(Items), Found(node[i - 1])
  PROVE  Linked(seen, path, node, i) /\ (i # 1 => Found(node[i - 2]))
<1>0. GetFolder(path, i - 1) = path[i] /\ i - 1 \in 0 .. Len(path) - 1
  BY DEF GetFolder
<1>1. node[i - 1] = NodeStep(seen, path, node, i - 1)
  BY <1>0 DEF Walk
<1>2. CASE i = 1
  <2>1. node[i - 1] = FindNodeInList(path[i], ListRoot(seen[i]))
    BY <1>0, <1>1, <1>2 DEF NodeStep
  <2>2. node[i - 1] \in ToSet(ListRoot(seen[i])) /\ ShownName(node[i - 1]) = path[i]
    BY <2>1, RootListed, NodeInList DEF Found
  <2> QED BY <1>2, <2>2, RootListed DEF Linked
<1>3. CASE i # 1
  <2>0. (i - 1) - 1 = i - 2 /\ (i - 1) + 1 = i /\ i - 1 # 0
    BY <1>3
  <2>1. Found(node[i - 2])
    BY <1>1, <2>0 DEF NodeStep, Found
  <2>2. node[i - 1] = FindNodeInList(path[i], ListFolder(seen[i], node[i - 2].id))
    BY <1>0, <1>1, <2>0, <2>1 DEF NodeStep, Found
  <2>3. node[i - 1] \in ToSet(ListFolder(seen[i], node[i - 2].id)) /\ ShownName(node[i - 1]) = path[i]
    BY <2>2, FolderListed, NodeInList DEF Found
  <2> QED BY <1>3, <2>1, <2>3, FolderListed DEF Linked
<1> QED BY <1>2, <1>3

\* When the last node of a walk was found, so were the others, each in the one
\* before.
LEMMA AllLinked ==
  ASSUME NEW path \in Seq(STRING) \ {<<>>}, NEW seen, NEW node, Walk(seen, path, node),
         \A i \in 1 .. Len(path) : seen[i] \in Seq(Items), Found(node[Len(path) - 1])
  PROVE  \A i \in 1 .. Len(path) : Linked(seen, path, node, i)
<1> DEFINE n == Len(path)
           A == {m \in Nat : m < n => Found(node[(n - m) - 1])}
<1>0. n \in Nat \ {0}
  OBVIOUS
<1>1. 0 \in A
  BY <1>0
<1>2. ASSUME NEW m \in Nat, m \in A PROVE m + 1 \in A
  <2> SUFFICES ASSUME m + 1 < n PROVE Found(node[(n - (m + 1)) - 1])
    OBVIOUS
  <2>1. n - m \in 1..n /\ n - m # 1 /\ (n - (m + 1)) - 1 = (n - m) - 2
    BY <1>0
  <2>2. Found(node[(n - m) - 1])
    BY <1>0, <1>2
  <2> HIDE DEF n
  <2> QED BY <2>1, <2>2, StepLinked DEF n
<1>3. Nat \subseteq A
  <2> HIDE DEF A
  <2> QED BY <1>1, <1>2, SetInduction
<1>4. ASSUME NEW i \in 1..n PROVE Linked(seen, path, node, i)
  <2>1. n - i \in Nat /\ n - i < n /\ (n - (n - i)) - 1 = i - 1
    BY <1>0
  <2>2. Found(node[i - 1])
    BY <1>3, <2>1
  <2> QED BY <2>2, StepLinked
<1> QED BY <1>4

\* A chain of items, each in the one before, in one account.
LEMMA ChainOf ==
  ASSUME NEW path \in Seq(STRING) \ {<<>>}, NEW seen, NEW node, NEW account,
         \A i \in 1 .. Len(path) : Linked(seen, path, node, i),
         \A i \in 1 .. Len(path) : node[i - 1] \in ToSet(account)
  PROVE  Names(account, path, node[Len(path) - 1].id)
<1> DEFINE n == Len(path)
           chain == [i \in 1..n |-> node[i - 1]]
<1>1. chain \in [1..n -> ToSet(account)] /\ n \in 1..n /\ DOMAIN path = 1..n
  OBVIOUS
<1>2. ASSUME NEW i \in 1..n
      PROVE  /\ ShownName(chain[i]) = path[i] /\ ~chain[i].trashed
             /\ (IF i = 1 THEN RootId ELSE chain[i - 1].id) \in ToSet(chain[i].parents)
  <2>1. Linked(seen, path, node, i)
    OBVIOUS
  <2>2. i # 1 => i - 1 \in 1..n /\ (i - 1) - 1 = i - 2
    OBVIOUS
  <2> QED BY <2>1, <2>2 DEF Linked
<1>3. chain[n] = node[n - 1]
  BY <1>1
<1> HIDE DEF chain
<1>4. chain \in Chains(account, path)
  BY <1>1, <1>2 DEF Chains
<1> QED BY <1>3, <1>4 DEF Names

\* What changes is one item, which keeps its id.
LEMMA OneChange ==
  ASSUME NEW account \in Accounts, NEW later \in Changed(account),
         NEW x \in ToSet(account) \ ToSet(later), NEW y \in ToSet(later) \ ToSet(account)
  PROVE  later \in Accounts /\ \E p \in DOMAIN later : later[p] = y /\ x.id = y.id
<1>1. /\ account \in Seq(Items)
      /\ \A s \in Seq(Items) : DOMAIN s = 1 .. Len(s) /\ \A z \in ToSet(s) : \E i \in 1 .. Len(s) : s[i] = z
  BY VirtualDriveAssumption DEF ToSet
<1>2. later # <<>>
  BY DEF ToSet
<1>3. /\ later \in Accounts /\ Len(later) = Len(account)
      /\ \A i \in DOMAIN later : later[i].id = account[i].id
      /\ \A i, j \in DOMAIN later : later[i] # account[i] /\ later[j] # account[j] => i = j
  BY <1>2 DEF Changed
<1>4. later \in Seq(Items)
  BY <1>3, VirtualDriveAssumption
<1>5. PICK i \in 1 .. Len(account) : account[i] = x
  BY <1>1
<1>6. PICK j \in 1 .. Len(account) : later[j] = y
  BY <1>1, <1>3, <1>4
<1>7. DOMAIN later = 1 .. Len(account) /\ DOMAIN account = 1 .. Len(account)
  BY <1>1, <1>3, <1>4
<1>8. later[i] # x /\ account[j] # y
  BY <1>7 DEF ToSet
<1>9. i = j
  BY <1>3, <1>5, <1>6, <1>7, <1>8
<1> QED BY <1>3, <1>5, <1>6, <1>7, <1>9

\* From b to a each item of a chain is in the one before.
Descends(account, chain, b, a) ==
  \A j \in b + 1 .. a :
    chain[j] \in ToSet(account) /\ chain[j - 1].id \in ToSet(chain[j].parents)

\* A chain never returns to the item it starts from: each item is deeper in
\* the folders than the one before.
LEMMA NoReturn ==
  ASSUME NEW account \in Accounts, NEW p \in DOMAIN account,
         NEW chain, NEW b \in Nat, NEW a \in Nat, b < a, chain[b].id = account[p].id,
         Descends(account, chain, b, a)
  PROVE  chain[a].id # account[p].id
<1>0. \A j \in b + 1 .. a :
        chain[j] \in ToSet(account) /\ chain[j - 1].id \in ToSet(chain[j].parents)
  BY DEF Descends
<1>1. /\ account \in Seq(Items)
      /\ \A i, j \in DOMAIN account : account[i].id = account[j].id => i = j
  BY VirtualDriveAssumption
<1>2. PICK depth \in [DOMAIN account -> 1 .. Len(account)] :
        \A i, j \in DOMAIN account :
          account[i].id \in ToSet(account[j].parents) => depth[i] < depth[j]
  BY VirtualDriveAssumption
<1>3. \A q \in DOMAIN account : depth[q] \in Nat
  BY <1>1, <1>2
<1>4. ASSUME NEW j \in b + 1 .. a PROVE \E q \in DOMAIN account : account[q] = chain[j]
  BY <1>0, <1>1 DEF ToSet
<1> DEFINE Deep(m) == b + 1 + m <= a =>
             \E q \in DOMAIN account : account[q] = chain[b + 1 + m] /\ depth[p] < depth[q]
           A == {m \in Nat : Deep(m)}
<1>5. 0 \in A
  <2>1. b + 1 + 0 \in b + 1 .. a /\ (b + 1 + 0) - 1 = b
    OBVIOUS
  <2>2. PICK q \in DOMAIN account : account[q] = chain[b + 1 + 0]
    BY <1>4, <2>1
  <2>3. chain[b].id \in ToSet(account[q].parents)
    BY <1>0, <2>1, <2>2
  <2>4. depth[p] < depth[q]
    BY <1>2, <2>3
  <2> QED BY <2>2, <2>4
<1>6. ASSUME NEW m \in Nat, m \in A PROVE m + 1 \in A
  <2> SUFFICES ASSUME b + 1 + (m + 1) <= a
               PROVE  \E q \in DOMAIN account : account[q] = chain[b + 1 + (m + 1)] /\ depth[p] < depth[q]
    OBVIOUS
  <2>1. b + 1 + (m + 1) \in b + 1 .. a /\ (b + 1 + (m + 1)) - 1 = b + 1 + m /\ b + 1 + m <= a
    OBVIOUS
  <2>2. PICK r \in DOMAIN account : account[r] = chain[b + 1 + m] /\ depth[p] < depth[r]
    BY <1>6, <2>1
  <2>3. PICK q \in DOMAIN account : account[q] = chain[b + 1 + (m + 1)]
    BY <1>4, <2>1
  <2>4. account[r].id \in ToSet(account[q].parents)
    BY <1>0, <2>1, <2>2, <2>3
  <2>5. depth[r] < depth[q]
    BY <1>2, <2>4
  <2>6. depth[p] < depth[q]
    BY <1>3, <2>2, <2>5
  <2> QED BY <2>3, <2>6
<1>7. Nat \subseteq A
  <2> HIDE DEF A
  <2> QED BY <1>5, <1>6, SetInduction
<1>8. PICK q \in DOMAIN account : account[q] = chain[a] /\ depth[p] < depth[q]
  <2>1. (a - b) - 1 \in Nat /\ b + 1 + ((a - b) - 1) = a
    OBVIOUS
  <2>2. Deep((a - b) - 1)
    BY <1>7, <2>1
  <2> QED BY <2>1, <2>2
<1>9. p # q
  BY <1>3, <1>8
<1> QED BY <1>1, <1>8, <1>9

\* A non-empty set of numbers with a bound has a largest member.
LEMMA LargestOf ==
  ASSUME NEW k \in Nat, NEW T, T \subseteq 0..k, T # {}
  PROVE  \E b \in T : \A j \in T : j <= b
<1> DEFINE U == {k - b : b \in T}
<1>1. U \subseteq Nat /\ U # {} /\ \A b \in T : k - b \in U /\ b \in Int
  <2>1. \A b \in T : b \in Int /\ k - b \in Nat
    OBVIOUS
  <2>2. \E b : b \in T
    OBVIOUS
  <2> QED BY <2>1, <2>2
<1>2. PICK b \in T : Min(U) = k - b
  <2>1. Min(U) \in U
    <3> HIDE DEF U
    <3> QED BY <1>1, LeastOf
  <2> QED BY <2>1
<1>3. ASSUME NEW j \in T PROVE j <= b
  <2>1. k - b <= k - j
    <3> HIDE DEF U
    <3> QED BY <1>1, <1>2, LeastOf
  <2> QED BY <1>1, <2>1
<1> QED BY <1>3

\* What the requests of a lookup see.
LEMMA SeenAre ==
  ASSUME NEW account \in Accounts, NEW later \in Changed(account) \cup {account},
         NEW path \in Seq(STRING) \ {<<>>}, NEW k \in 0 .. Len(path)
  PROVE  \A i \in 1 .. Len(path) :
           /\ Seen(account, later, k, path)[i] = IF i <= k THEN account ELSE later
           /\ Seen(account, later, k, path)[i] \in Seq(Items)
<1>1. account \in Seq(Items) /\ <<>> \in Seq(Items) /\ \A s \in Accounts : s \in Seq(Items)
  BY VirtualDriveAssumption
<1>2. later \in Seq(Items)
  BY <1>1 DEF Changed
<1>3. DOMAIN path = 1 .. Len(path)
  OBVIOUS
<1> QED BY <1>1, <1>2, <1>3 DEF Seen

\* Although a lookup is several requests and the account changes between two of
\* them, what it finds was at that path before or after the change: the two
\* halves of a walk can only disagree about the one item that has changed, which is
\* in one of them, for it is not in itself.
LEMMA FoundWasThereHolds == FoundWasThere
<1> SUFFICES ASSUME NEW account \in Accounts, NEW later \in Changed(account),
                    NEW path \in Paths \ {RootPath}, NEW k \in 0 .. Len(path),
                    Found(FindFile(Seen(account, later, k, path), path)),
                    ~Names(account, path, FindFile(Seen(account, later, k, path), path).id),
                    ~Names(later, path, FindFile(Seen(account, later, k, path), path).id)
             PROVE  FALSE
  BY Zenon DEF FoundWasThere
<1> DEFINE seen == Seen(account, later, k, path)
           n    == Len(path)
<1>1. path \in Seq(STRING) \ {<<>>} /\ n \in Nat \ {0} /\ k \in Nat
  BY VirtualDriveAssumption
<1>2. \A i \in 1..n : seen[i] = (IF i <= k THEN account ELSE later) /\ seen[i] \in Seq(Items)
  BY <1>1, SeenAre
<1> HIDE DEF seen, n
<1>3. PICK node : Walk(seen, path, node) /\ FindFile(seen, path) = node[n - 1]
  BY <1>1, FindFileWalks DEF n
<1>4. Found(node[n - 1]) /\ ~Names(account, path, node[n - 1].id) /\ ~Names(later, path, node[n - 1].id)
  BY <1>3 DEF seen
<1>5. \A i \in 1..n : Linked(seen, path, node, i)
  BY <1>1, <1>2, <1>3, <1>4, AllLinked DEF n
<1>6. PICK a \in 1..n : node[a - 1] \notin ToSet(account)
  BY <1>1, <1>4, <1>5, ChainOf DEF n
<1>7. PICK c \in 1..n : node[c - 1] \notin ToSet(later)
  BY <1>1, <1>4, <1>5, ChainOf DEF n
<1>8. a > k /\ c <= k
  <2>1. \A i \in 1..n : node[i - 1] \in ToSet(IF i <= k THEN account ELSE later)
    BY <1>2, <1>5 DEF Linked
  <2>2. ~(a <= k) /\ c <= k
    BY <1>6, <1>7, <2>1
  <2> QED BY <1>1, <2>2
<1> DEFINE B == {j \in 1..n : j <= k /\ node[j - 1] \notin ToSet(later)}
<1>9. PICK b \in B : \A j \in B : j <= b
  <2>1. c \in B
    BY <1>7, <1>8
  <2>2. \A j \in 1..n : j <= k => j \in 0..k
    BY <1>1
  <2> HIDE DEF B
  <2>3. B \subseteq 0..k /\ B # {}
    BY <2>1, <2>2 DEF B
  <2> QED BY <1>1, <2>3, LargestOf
<1>10. ASSUME NEW j \in b + 1 .. a
       PROVE  node[j - 1] \in ToSet(later) /\ node[j - 2].id \in ToSet(node[j - 1].parents)
  <2>1. j \in 1..n /\ j # 1 /\ j > b
    BY <1>1, <1>9
  <2>2. Linked(seen, path, node, j)
    BY <1>5, <2>1
  <2>3. j <= k => j \notin B
    BY <1>1, <1>9, <2>1
  <2> QED BY <1>2, <2>1, <2>2, <2>3 DEF Linked
<1> DEFINE chain == [j \in 0..n |-> node[j - 1]]
<1>11. /\ node[b - 1] \in ToSet(account) \ ToSet(later) /\ node[a - 1] \in ToSet(later) \ ToSet(account)
       /\ b < a /\ b \in 1..n
  <2>1. b \in 1..n /\ b <= k /\ node[b - 1] \notin ToSet(later)
    BY <1>9
  <2>2. b < a
    BY <1>1, <1>8, <2>1
  <2>3. a \in b + 1 .. a
    BY <1>1, <2>1, <2>2
  <2>4. node[b - 1] \in ToSet(account)
    BY <1>2, <1>5, <2>1 DEF Linked
  <2>5. node[a - 1] \in ToSet(later)
    BY <1>10, <2>3
  <2> QED BY <1>6, <2>1, <2>2, <2>4, <2>5
<1>12. PICK p \in DOMAIN later : later \in Accounts /\ later[p] = node[a - 1] /\ node[b - 1].id = node[a - 1].id
  BY <1>11, OneChange
<1>13. chain[b] = node[b - 1] /\ chain[a] = node[a - 1] /\ b \in Nat /\ a \in Nat
  BY <1>1, <1>11
<1>14. ASSUME NEW j \in b + 1 .. a
       PROVE  chain[j] \in ToSet(later) /\ chain[j - 1].id \in ToSet(chain[j].parents)
  <2>1. j \in 0..n /\ j - 1 \in 0..n /\ (j - 1) - 1 = j - 2
    BY <1>1, <1>11
  <2>2. chain[j] = node[j - 1] /\ chain[j - 1] = node[j - 2]
    BY <2>1
  <2> QED BY <1>10, <2>2
<1> HIDE DEF chain, B
<1>15. chain[b].id = later[p].id /\ chain[a].id = later[p].id
  BY <1>12, <1>13
<1>16. chain[a].id # later[p].id
  <2>1. Descends(later, chain, b, a)
    BY <1>14 DEF Descends
  <2>2. later \in Accounts /\ p \in DOMAIN later /\ b \in Nat /\ a \in Nat /\ b < a
    BY <1>11, <1>12, <1>13
  <2>3. chain[b].id = later[p].id
    BY <1>15
  <2> QED BY <2>1, <2>2, <2>3, NoReturn
<1> QED BY <1>15, <1>16

\* What can take the place of an item on a chain that its path names alone, is
\* that item.
LEMMA OnlyOne ==
  ASSUME NEW account, NEW path \in Seq(STRING) \ {<<>>}, NEW c \in Chains(account, path),
         NEW i \in 1 .. Len(path), NEW r \in ToSet(account), ShownName(r) = path[i], ~r.trashed,
         (IF i = 1 THEN RootId ELSE c[i - 1].id) \in ToSet(r.parents),
         Chains(account, SubSeq(path, 1, i)) = {SubSeq(c, 1, i)}
  PROVE  r = c[i]
<1> DEFINE n == Len(path)
           e == [j \in 1..i |-> IF j = i THEN r ELSE c[j]]
           part == SubSeq(path, 1, i)
<1>1. n \in Nat /\ i \in 1..n /\ \A j \in 1..i : j \in 1..n
  OBVIOUS
<1>2. DOMAIN part = 1..i /\ Len(part) = i /\ \A j \in 1..i : part[j] = path[j]
  OBVIOUS
<1>3. /\ c \in [1..n -> ToSet(account)]
      /\ \A j \in 1..n : /\ ShownName(c[j]) = path[j] /\ ~c[j].trashed
                         /\ (IF j = 1 THEN RootId ELSE c[j - 1].id) \in ToSet(c[j].parents)
  BY DEF Chains
<1>4. e \in [1..i -> ToSet(account)]
  BY <1>1, <1>3
<1>5. ASSUME NEW j \in 1..i
      PROVE  /\ ShownName(e[j]) = path[j] /\ ~e[j].trashed
             /\ (IF j = 1 THEN RootId ELSE e[j - 1].id) \in ToSet(e[j].parents)
  <2>1. j # 1 => j - 1 \in 1..i /\ j - 1 # i
    OBVIOUS
  <2>2. j # 1 => e[j - 1] = c[j - 1]
    BY <2>1
  <2>3. CASE j = i
    <3>1. e[j] = r
      BY <2>3
    <3> HIDE DEF e
    <3> QED BY <2>2, <2>3, <3>1
  <2>4. CASE j # i
    <3>1. e[j] = c[j] /\ j \in 1..n
      BY <1>1, <2>4
    <3> HIDE DEF e, n
    <3> QED BY <1>3, <2>2, <3>1
  <2> QED BY <2>3, <2>4
<1>6. e[i] = r
  BY <1>1
<1> HIDE DEF e
<1>7. e \in Chains(account, part)
  <2>1. ASSUME NEW j \in 1..i
        PROVE  /\ ShownName(e[j]) = part[j] /\ ~e[j].trashed
               /\ (IF j = 1 THEN RootId ELSE e[j - 1].id) \in ToSet(e[j].parents)
    BY <1>2, <1>5
  <2> HIDE DEF part
  <2> QED BY <1>2, <1>4, <2>1 DEF Chains
<1>8. e = SubSeq(c, 1, i)
  BY <1>7
<1>9. SubSeq(c, 1, i)[i] = c[i]
  <2>1. c \in Seq(ToSet(account)) /\ Len(c) = n
    BY <1>1, <1>3
  <2> QED BY <1>1, <2>1
<1> QED BY <1>6, <1>8, <1>9

\* What Exact says of a path that names an item.
LEMMA ExactChain ==
  ASSUME NEW account, NEW path, NEW id, Exact(account, path, id)
  PROVE  \E c \in Chains(account, path) :
           /\ c[Len(path)].id = id /\ Visible(account, c)
           /\ \A m \in 1 .. Len(path) : Chains(account, SubSeq(path, 1, m)) = {SubSeq(c, 1, m)}
BY DEF Exact

\* A lookup in an account that has just one chain for the path goes on to its next item.
LEMMA NextOnChain ==
  ASSUME NEW account \in Seq(Items), NEW path \in Seq(STRING) \ {<<>>}, NEW i \in 1 .. Len(path),
         NEW c \in Chains(account, path), Visible(account, c),
         Chains(account, SubSeq(path, 1, i)) = {SubSeq(c, 1, i)},
         NEW seen, NEW node, Walk(seen, path, node), seen[i] = account,
         i # 1 => Found(node[i - 2]) /\ node[i - 2].id = c[i - 1].id
  PROVE  node[i - 1] = c[i]
<1> DEFINE n == Len(path)
<1>1. n \in Nat /\ i - 1 \in 0 .. n - 1 /\ (i # 1 => i - 1 \in 1..n) /\ GetFolder(path, i - 1) = path[i]
  BY DEF GetFolder
<1>2. /\ c \in [1..n -> ToSet(account)] /\ ShownName(c[i]) = path[i] /\ ~c[i].trashed
      /\ (IF i = 1 THEN RootId ELSE c[i - 1].id) \in ToSet(c[i].parents)
  BY DEF Chains
<1>3. node[i - 1] = NodeStep(seen, path, node, i - 1)
  BY <1>1 DEF Walk
<1>4. DOMAIN c = 1..n
  BY <1>2
<1>5. Found(node[i - 1])
  <2>1. CASE i = 1
    <3>1. node[i - 1] = FindNodeInList(path[i], ListRoot(account))
      BY <1>1, <1>3, <2>1 DEF NodeStep
    <3>2. c[i] \in ToSet(FirstPage(account)) /\ c[i].parents[1] = RootId
      BY <1>4, <2>1 DEF Visible
    <3>3. c[i] \in ToSet(ListRoot(account)) /\ ListRoot(account) \in Seq(Items)
      BY <1>2, <3>2, RootListed
    <3> QED BY <1>2, <3>1, <3>3, NodeInList
  <2>2. CASE i # 1
    <3>0. i - 1 # 0 /\ (i - 1) - 1 = i - 2 /\ (i - 1) + 1 = i
      BY <2>2
    <3>1. node[i - 1] = FindNodeInList(path[i], ListFolder(account, c[i - 1].id))
      BY <1>1, <1>3, <2>2, <3>0 DEF NodeStep, Found
    <3>2. c[i] \in ToSet(FirstPage(InFolder(account, c[i - 1].id)))
      BY <1>4, <2>2 DEF Visible
    <3>3. c[i] \in ToSet(ListFolder(account, c[i - 1].id)) /\ ListFolder(account, c[i - 1].id) \in Seq(Items)
      BY <1>2, <3>2, FolderListed
    <3> QED BY <1>2, <3>1, <3>3, NodeInList
  <2> QED BY <2>1, <2>2
<1>6. /\ node[i - 1] \in ToSet(account) /\ ShownName(node[i - 1]) = path[i] /\ ~node[i - 1].trashed
      /\ (IF i = 1 THEN RootId ELSE c[i - 1].id) \in ToSet(node[i - 1].parents)
  <2>1. Linked(seen, path, node, i)
    BY <1>5, StepLinked
  <2> QED BY <2>1 DEF Linked
<1> QED BY <1>6, OnlyOne

\* When a path names one item alone before and after a change, so do the paths
\* on the way to it: a different folder in its place takes two changes.
LEMMA SameChain ==
  ASSUME NEW account \in Accounts, NEW later \in Changed(account), later \in Accounts,
         NEW path \in Seq(STRING) \ {<<>>}, NEW i \in 1 .. Len(path),
         NEW c \in Chains(account, path), NEW d \in Chains(later, path),
         Chains(account, SubSeq(path, 1, i)) = {SubSeq(c, 1, i)},
         Chains(later, SubSeq(path, 1, i)) = {SubSeq(d, 1, i)},
         i # 1 => c[i - 1].id = d[i - 1].id
  PROVE  c[i].id = d[i].id
<1> SUFFICES ASSUME c[i].id # d[i].id PROVE FALSE
  OBVIOUS
<1>1. account \in Seq(Items) /\ later \in Seq(Items)
  BY VirtualDriveAssumption
<1>2. /\ c[i] \in ToSet(account) /\ ShownName(c[i]) = path[i] /\ ~c[i].trashed
      /\ (IF i = 1 THEN RootId ELSE c[i - 1].id) \in ToSet(c[i].parents)
  BY DEF Chains
<1>3. /\ d[i] \in ToSet(later) /\ ShownName(d[i]) = path[i] /\ ~d[i].trashed
      /\ (IF i = 1 THEN RootId ELSE d[i - 1].id) \in ToSet(d[i].parents)
  BY DEF Chains
<1>4. c[i] \notin ToSet(later)
  <2> SUFFICES ASSUME c[i] \in ToSet(later) PROVE c[i] = d[i]
    OBVIOUS
  <2>1. (IF i = 1 THEN RootId ELSE d[i - 1].id) \in ToSet(c[i].parents)
    BY <1>2
  <2>2. ShownName(c[i]) = path[i] /\ ~c[i].trashed
    BY <1>2
  <2> QED BY <2>1, <2>2, OnlyOne
<1>5. d[i] \notin ToSet(account)
  <2> SUFFICES ASSUME d[i] \in ToSet(account) PROVE d[i] = c[i]
    OBVIOUS
  <2>1. (IF i = 1 THEN RootId ELSE c[i - 1].id) \in ToSet(d[i].parents)
    BY <1>3
  <2> QED BY <1>3, <2>1, OnlyOne
<1> QED BY <1>2, <1>3, <1>4, <1>5, OneChange

\* An item that its path names before and after a change, with no other on the
\* way, is found.
LEMMA NamedIsFoundHolds == NamedIsFound
<1> SUFFICES ASSUME NEW account \in Accounts, NEW later \in Changed(account), NEW path \in Paths,
                    NEW item \in ToSet(account), Exact(account, path, item.id),
                    Exact(later, path, item.id), NEW k \in 0 .. Len(path), NEW result,
                    result = FindFile(Seen(account, later, k, path), path)
             PROVE  Found(result) /\ result.id = item.id
  BY DEF NamedIsFound
<1> DEFINE seen == Seen(account, later, k, path)
           n    == Len(path)
<1>1. path \in Seq(STRING) \ {<<>>} /\ n \in Nat \ {0} /\ n \in 1..n /\ k \in Nat
  BY VirtualDriveAssumption
<1>2. \A i \in 1..n : seen[i] = (IF i <= k THEN account ELSE later) /\ seen[i] \in Seq(Items)
  BY <1>1, SeenAre
<1> HIDE DEF seen, n
<1>3. PICK c \in Chains(account, path) :
        /\ c[n].id = item.id /\ Visible(account, c)
        /\ \A m \in 1..n : Chains(account, SubSeq(path, 1, m)) = {SubSeq(c, 1, m)}
  BY ExactChain DEF n
<1>4. PICK d \in Chains(later, path) :
        /\ d[n].id = item.id /\ Visible(later, d)
        /\ \A m \in 1..n : Chains(later, SubSeq(path, 1, m)) = {SubSeq(d, 1, m)}
  BY ExactChain DEF n
<1>5. \A i \in 1..n : c[i] \in ToSet(account) /\ ShownName(c[i]) = path[i] /\ d[i] \in ToSet(later)
  BY DEF Chains, n
<1>6. later \in Accounts
  <2>1. later # <<>>
    <3>1. ToSet(<<>>) = {}
      BY DEF ToSet
    <3> QED BY <1>1, <1>5, <3>1
  <2> QED BY <2>1 DEF Changed
<1>7. account \in Seq(Items) /\ later \in Seq(Items)
  BY <1>6, VirtualDriveAssumption
<1>8. path # RootPath
  <2>1. ShownName(c[1]) = path[1] /\ c[1] \in Items
    BY <1>1, <1>5, <1>7, AccountItems
  <2>2. path[1] # ""
    BY <2>1 DEF Items, ShownName
  <2>3. RootPath[1] = ""
    BY DEF RootPath
  <2> QED BY <2>2, <2>3
<1>9. PICK node : Walk(seen, path, node) /\ result = node[n - 1]
  BY <1>1, <1>8, FindFileWalks DEF seen, n
<1> DEFINE Good(m) == m < n => /\ c[m + 1].id = d[m + 1].id
                               /\ node[m] = IF m + 1 <= k THEN c[m + 1] ELSE d[m + 1]
           A == {m \in Nat : Good(m)}
<1>10. ASSUME NEW i \in 1..n, i # 1 => Good(i - 2) PROVE Good(i - 1)
  <2>1. (i - 1) + 1 = i /\ (i # 1 => (i - 2) + 1 = i - 1 /\ i - 2 < n /\ i - 1 \in 1..n)
    BY <1>1
  <2>2. i # 1 => c[i - 1].id = d[i - 1].id /\ node[i - 2] \in {c[i - 1], d[i - 1]}
    BY <1>10, <2>1
  <2>3. i # 1 => Found(node[i - 2])
    BY <1>5, <1>7, <2>1, <2>2, AccountItems DEF Found
  <2>4. c[i].id = d[i].id
    BY <1>1, <1>3, <1>4, <1>6, <2>2, SameChain DEF n
  <2>5. node[i - 1] = IF i <= k THEN c[i] ELSE d[i]
    <3>1. CASE i <= k
      <4>1. seen[i] = account
        BY <1>2, <3>1
      <4>2. node[i - 1] = c[i]
        BY <1>1, <1>3, <1>7, <1>9, <2>2, <2>3, <4>1, NextOnChain DEF n
      <4> QED BY <3>1, <4>2
    <3>2. CASE ~(i <= k)
      <4>1. seen[i] = later
        BY <1>2, <3>2
      <4>2. i # 1 => Found(node[i - 2]) /\ node[i - 2].id = d[i - 1].id
        BY <2>2, <2>3
      <4>3. Chains(later, SubSeq(path, 1, i)) = {SubSeq(d, 1, i)} /\ Visible(later, d)
        BY <1>4
      <4>4. node[i - 1] = d[i]
        <5>1. path \in Seq(STRING) \ {<<>>} /\ i \in 1 .. Len(path) /\ later \in Seq(Items)
          BY <1>1, <1>7 DEF n
        <5>2. Walk(seen, path, node)
          BY <1>9
        <5> HIDE DEF Good, A
        <5> QED BY <4>1, <4>2, <4>3, <5>1, <5>2, NextOnChain
      <4> QED BY <3>2, <4>4
    <3> QED BY <3>1, <3>2
  <2> QED BY <2>1, <2>4, <2>5
<1>11. 0 \in A
  <2>1. Good(1 - 1)
    BY <1>1, <1>10
  <2> QED BY <2>1
<1>12. ASSUME NEW m \in Nat, m \in A PROVE m + 1 \in A
  <2> SUFFICES ASSUME m + 1 < n PROVE Good(m + 1)
    OBVIOUS
  <2>1. m + 2 \in 1..n /\ (m + 2) - 2 = m /\ (m + 2) - 1 = m + 1
    BY <1>1
  <2>2. Good((m + 2) - 2)
    BY <1>12, <2>1
  <2> HIDE DEF Good
  <2>3. Good((m + 2) - 1)
    BY <1>10, <2>1, <2>2
  <2> QED BY <2>1, <2>3
<1>13. Nat \subseteq A
  <2> HIDE DEF A
  <2> QED BY <1>11, <1>12, SetInduction
<1>14. result \in {c[n], d[n]}
  <2>1. n - 1 \in Nat /\ n - 1 < n /\ (n - 1) + 1 = n
    BY <1>1
  <2>2. Good(n - 1)
    BY <1>13, <2>1
  <2> QED BY <1>9, <2>1, <2>2
<1>15. Found(c[n]) /\ Found(d[n])
  BY <1>1, <1>5, <1>7, AccountItems DEF Found
<1> QED BY <1>3, <1>4, <1>14, <1>15

\* Lookups agree with the account, whatever is done to it between two requests:
\* what a lookup finds was there, and what its path names alone it finds.
THEOREM PathsAreResolved == Spec => []PathsResolve
<1>1. PathsResolve
  BY FoundWasThereHolds, NamedIsFoundHolds DEF PathsResolve
<1> QED BY <1>1, PTL
===============================================================================
