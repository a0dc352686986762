---------------------------- MODULE MCRenameDelete ----------------------------
EXTENDS RenameDelete, TLC

CONSTANTS h1, h2, n1
MCKinds == (h1 :> {"rename", "delete"}) @@ (h2 :> {"delete"})
MCExisting == {n1}
=============================================================================
