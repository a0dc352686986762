---------------------------- MODULE MCCredentials ----------------------------
(* Small instances of Credentials and VirtualDrive for TLC. *)
EXTENDS VirtualDrive, TLC

Symmetry == Permutations(Programs)

\* A folder, a folder that may be in it or in the bin, and a file in one or two
\* of them, which was uploaded under a name or made on the server; listed in that
\* order or the other.
Item(id, originals, parents, trashed) ==
  [id : {id}, title : {"a", "b"}, original : originals, parents : parents, trashed : trashed]

Folder == Item(1, {""}, {<<RootId>>}, {FALSE})
Inner  == Item(2, {""}, {<<RootId>>, <<1>>}, BOOLEAN)
File   == Item(3, {"", "a"}, {<<RootId>>, <<1>>, <<2>>, <<RootId, 1>>, <<1, RootId>>}, {FALSE})

MCAccounts == {<<f, g, h>> : f \in Folder, g \in Inner, h \in File}
         \cup {<<h, g, f>> : f \in Folder, g \in Inner, h \in File}
MCPaths == {<<"">>, <<"a", "">>} \cup UNION {[1..n -> {"a", "b"}] : n \in 1..3}
=============================================================================
