----------------------------- MODULE VirtualDrive -----------------------------
(***************************************************************************)
(* How the drive finds a file on the server (gDrive/src: vDrive.cpp,       *)
(* gdrive.cpp, ctree.cpp; comm: comm.cpp, ResponseParser.cpp).             *)
(*                                                                         *)
(* A path is looked up anew for every callback, one request for each name  *)
(* in it, while the owner of the account goes on changing it.  A path is   *)
(* the sequence of what stands between its separators: "\" is <<"">>, and  *)
(* "\a\" is <<"a", "">>.  An account is the sequence of its items in the   *)
(* order in which the server lists them; the empty one also stands for a   *)
(* request that is refused, since the token has expired.                   *)
(*                                                                         *)
(* A file that was uploaded has the name it was uploaded under for good,   *)
(* beside the title that its owner may change: the drive shows the former, *)
(* so that a path names what the owner knows by another title.             *)
(***************************************************************************)
EXTENDS Credentials, Lists

CONSTANTS
  Accounts,   \* items are [id, title, original, parents, trashed]; see Items
  PageLength, \* how many items the server puts into an answer
  Paths

RootId   == 0
RootPath == <<"">>
\* What was not uploaded, a folder for one, has no originalFilename: "".
Items    == [id : Nat \ {RootId}, title : STRING \ {""}, original : STRING,
             parents : Seq(Nat) \ {<<>>}, trashed : BOOLEAN]

\* The server gives every item an id of its own, and no folder is in itself,
\* directly or through others: each item is deeper than its parents.
ASSUME VirtualDriveAssumption ==
  /\ PageLength \in Nat \ {0} /\ Paths \subseteq Seq(STRING) \ {<<>>}
  /\ \A account \in Accounts :
       /\ account \in Seq(Items)
       /\ \A i, j \in DOMAIN account : account[i].id = account[j].id => i = j
       /\ \E depth \in [DOMAIN account -> 1 .. Len(account)] :
            \A i, j \in DOMAIN account :
              account[i].id \in ToSet(account[j].parents) => depth[i] < depth[j]

Root    == [id |-> RootId, title |-> "root", original |-> "", parents |-> <<>>, trashed |-> FALSE]
Nothing == [Root EXCEPT !.id = -1]  \* findNodeInList ends without a result
Crash   == [Root EXCEPT !.id = -2]  \* ... which findFile goes on to use

\* The account after one item was moved, given another title, put into the bin or taken
\* out of it; or a refusal.
Changed(account) ==
  {later \in Accounts :
     /\ Len(later) = Len(account)
     /\ \A i \in DOMAIN later : /\ later[i].id = account[i].id
                                /\ later[i].original = account[i].original
     /\ \A i, j \in DOMAIN later : later[i] # account[i] /\ later[j] # account[j] => i = j}
  \cup {<<>>}

-----------------------------------------------------------------------------
(* Requests.  The page after the first is never asked for.                 *)

FirstPage(list) == SubSeq(list, 1, IF Len(list) < PageLength THEN Len(list) ELSE PageLength)

InFolder(account, id) ==
  Chosen(account, {item \in ToSet(account) : id \in ToSet(item.parents)})

\* A slip: the root is what the first page of the account has.
ListAll(account) == Chosen(FirstPage(account), {item \in ToSet(account) : ~item.trashed})

\* listRoot asks for the whole account and keeps the items whose first parent
\* is the root.
ListRoot(account) ==
  Chosen(FirstPage(account),
         {item \in ToSet(account) : item.parents[1] = RootId /\ ~item.trashed})

ListFolder(account, id) ==
  Chosen(FirstPage(InFolder(account, id)), {item \in ToSet(account) : ~item.trashed})

\* The name that parseItem gives an item.
ShownName(item) == IF item.original # "" THEN item.original ELSE item.title

FindNodeInList(name, list) ==
  LET named == {i \in DOMAIN list : ShownName(list[i]) = name}
  IN IF named = {} THEN Nothing ELSE list[Min(named)]

GetFolder(path, level) == path[level + 1]
GetFolderLevels(path)  == Len(path) - 1

\* findFile, whose requests, one for each level, are answered from seen.
FindFile(seen, path) ==
  LET node[i \in 0 .. GetFolderLevels(path)] ==
        IF i = 0 THEN FindNodeInList(GetFolder(path, 0), ListRoot(seen[1]))
        ELSE IF node[i - 1] \in {Nothing, Crash} THEN Crash
        ELSE FindNodeInList(GetFolder(path, i), ListFolder(seen[i + 1], node[i - 1].id))
  IN IF path = RootPath THEN Root ELSE node[GetFolderLevels(path)]

-----------------------------------------------------------------------------
(* What a path names: items by their shown names, each in the one before.  *)

\* The items that can stand for the names of a path, each in the one before.
Chains(account, path) ==
  {chain \in [1 .. Len(path) -> ToSet(account)] :
     \A i \in DOMAIN path :
       /\ ShownName(chain[i]) = path[i] /\ ~chain[i].trashed
       /\ (IF i = 1 THEN RootId ELSE chain[i - 1].id) \in ToSet(chain[i].parents)}

\* The first page has every item of a chain, and the first one has the root as
\* its first parent.
Visible(account, chain) ==
  \A i \in DOMAIN chain :
    IF i = 1 THEN chain[1] \in ToSet(FirstPage(account)) /\ chain[1].parents[1] = RootId
    ELSE chain[i] \in ToSet(FirstPage(InFolder(account, chain[i - 1].id)))

Names(account, path, id) == \E chain \in Chains(account, path) : chain[Len(path)].id = id

\* The path names one item, and each path on the way to it one folder, which
\* the drive can show.
Exact(account, path, id) ==
  \E chain \in Chains(account, path) :
    /\ chain[Len(path)].id = id /\ Visible(account, chain)
    /\ \A n \in 1 .. Len(path) :
         Chains(account, SubSeq(path, 1, n)) = {SubSeq(chain, 1, n)}

Found(result) == result \notin {Nothing, Crash}

\* The first k requests of a lookup come before a change.
Seen(before, after, k, path) == [i \in DOMAIN path |-> IF i <= k THEN before ELSE after]

-----------------------------------------------------------------------------
(* Properties.                                                             *)

\* Although a lookup is several requests and the account changes between two
\* of them, what it finds was at that path before or after the change.
FoundWasThere ==
  \A account \in Accounts : \A later \in Changed(account), path \in Paths \ {RootPath} :
    \A k \in 0 .. Len(path) :
      LET node == FindFile(Seen(account, later, k, path), path)
      IN Found(node) => Names(account, path, node.id) \/ Names(later, path, node.id)

\* An item that its path names before and after a change, with no other on the
\* way, is found: neither "nothing" nor a crash, which findNodeInList has for any name
\* that is missing.
NamedIsFound ==
  \A account \in Accounts : \A later \in Changed(account), path \in Paths :
    \A item \in ToSet(account) :
      Exact(account, path, item.id) /\ Exact(later, path, item.id) =>
        \A k \in 0 .. Len(path) :
          LET node == FindFile(Seen(account, later, k, path), path)
          IN Found(node) /\ node.id = item.id

\* While a program serves a drive, findFile finds what a path names although the
\* account changes between its requests, and nothing that was never there.
PathsResolve == (\E p \in Programs : state[p] = "serving") => FoundWasThere /\ NamedIsFound
=============================================================================
